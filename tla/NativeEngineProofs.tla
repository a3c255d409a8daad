------------------------- MODULE NativeEngineProofs -------------------------
(***************************************************************************)
(* Proofs about NativeEngine, for any threads, files, roles and requests,  *)
(* and for any bounds on edits and releases.                               *)
(***************************************************************************)
EXTENDS NativeEngine, TLAPS

\* The names that every step needs to see through.
USE DEF Goto, Visit, Capture, StopWith, ResetCache, cacheVars, releaseVars,
        imageVars, flagVars, workVars

(***************************************************************************)
(* Type correctness.                                                       *)
(***************************************************************************)
LEMMA InitType == Init => TypeOK
  BY EngineAssumption DEF Init, TypeOK, NoKey, NoWeights, Pcs, WaitPcs, Outcomes

\* A request names weight files only.
LEMMA FilesOfRequest ==
    ASSUME TypeOK, NEW t \in Threads
    PROVE  request[t].files \in SUBSET Files /\ request[t].prepareOnly \in BOOLEAN
<1>1. Requests \subseteq [files : SUBSET Files, prepareOnly : BOOLEAN]
  BY EngineAssumption
<1>2. CASE request[t] \in Requests
  BY <1>1, <1>2
<1>3. CASE request[t] = NoRequest
  BY <1>3 DEF NoRequest
<1>4. QED
  BY <1>2, <1>3 DEF TypeOK

\* A step of a thread through nativeImage() keeps the types.
LEMMA ProgressType ==
    ASSUME TypeOK, NEW t \in Threads, Progress(t)
    PROVE  TypeOK'
<1> USE EngineAssumption DEF TypeOK, Pcs, WaitPcs, HoldPcs, UsePcs, Outcomes, OfRole,
        NoRequest, NoKey, NoWeights, Mounted, FilesToVerify
<1>1. ASSUME NEW f \in Files, IdentifyEarly(t, f) PROVE TypeOK'
  BY <1>1 DEF IdentifyEarly
<1>2. ASSUME NEW f \in Files, IdentifyLate(t, f) PROVE TypeOK'
  BY <1>2 DEF IdentifyLate
<1>3. ASSUME NEW f \in Files, Load(t, f) PROVE TypeOK'
  BY <1>3 DEF Load
<1>4. ASSUME NEW f \in Files, Verify(t, f) PROVE TypeOK'
  BY <1>4 DEF Verify
<1>5. CASE Reject(t)
  BY <1>5 DEF Reject
<1>6. CASE QueueUp(t)
  BY <1>6 DEF QueueUp
<1>7. CASE TryLock(t)
  BY <1>7 DEF TryLock
<1>8. CASE TryLockTimesOut(t)
  BY <1>8 DEF TryLockTimesOut
<1>9. CASE Retry(t)
  BY <1>9 DEF Retry
<1>10. CASE GiveUp(t)
  BY <1>10 DEF GiveUp
<1>11. CASE Enter(t)
  BY <1>11 DEF Enter
<1>12. CASE EnterStopped(t)
  BY <1>12 DEF EnterStopped
<1>13. CASE IdentifySource(t)
  <2>1. PICK m \in Files : Capture(t, m)
    BY <1>13, FilesOfRequest DEF IdentifySource
  <2>2. QED
    BY <1>13, <2>1 DEF IdentifySource
<1>14. CASE PrepareQ8(t)
  <2>1. \/ UNCHANGED <<version, cacheVars, deferred>>
        \/ \E q \in Files : version' = [version EXCEPT ![q] = @ + 1] /\ ResetCache
    BY <1>14, FilesOfRequest DEF PrepareQ8
  <2>2. OfRole(request[t].files, {"q8", "late"}) \in SUBSET Files
    BY FilesOfRequest
  <2>3. QED
    BY <1>14, <2>1, <2>2 DEF PrepareQ8
<1>15. CASE Mount(t)
  <2>1. /\ Mounted(request[t].files) \in SUBSET Files
        /\ OfRole(request[t].files, {"refiner"}) \in SUBSET Files
    BY FilesOfRequest
  <2>2. captured[t] \in [Files -> Nat]
    OBVIOUS
  <2>3. cacheKey' \in [Files -> Nat]
    BY <1>15, <2>2 DEF Mount
  <2>5. loaded' \in [Files -> SUBSET Nat] /\ deferred' \in {"no", "inUse", "missed"}
    BY <1>15 DEF Mount
  <2>6. todo' \in [Threads -> SUBSET Files]
    BY <1>15, <2>1 DEF Mount
  <2>4. QED
    BY <1>15, <2>3, <2>5, <2>6 DEF Mount
<1>16. CASE Prepared(t)
  BY <1>16 DEF Prepared
<1>17. CASE Loaded(t)
  BY <1>17 DEF Loaded
<1>18. CASE Generate(t)
  BY <1>18 DEF Generate
<1>19. CASE Succeed(t)
  BY <1>19 DEF Succeed
<1>20. CASE Fail(t)
  BY <1>20 DEF Fail
<1>21. CASE Leave(t)
  BY <1>21 DEF Leave
<1>22. CASE Unlock(t)
  BY <1>22 DEF Unlock
<1>23. CASE Return(t)
  BY <1>23 DEF Return
<1>24. QED
  BY <1>1, <1>2, <1>3, <1>4, <1>5, <1>6, <1>7, <1>8, <1>9, <1>10, <1>11, <1>12, <1>13,
     <1>14, <1>15, <1>16, <1>17, <1>18, <1>19, <1>20, <1>21, <1>22, <1>23 DEF Progress

\* Every step keeps the types.
LEMMA NextType == TypeOK /\ [Next]_vars => TypeOK'
<1> SUFFICES ASSUME TypeOK, [Next]_vars PROVE TypeOK'
  OBVIOUS
<1> USE EngineAssumption DEF TypeOK
<1>1. ASSUME NEW t \in Threads, Begin(t) PROVE TypeOK'
  <2>1. PICK r \in Requests :
           /\ request' = [request EXCEPT ![t] = r]
           /\ todo' = [todo EXCEPT ![t] = OfRole(r.files, EarlyRoles)]
    BY <1>1 DEF Begin
  <2>2. OfRole(r.files, EarlyRoles) \in SUBSET Files
    BY DEF OfRole
  <2>3. QED
    BY <1>1, <2>1, <2>2 DEF Begin, Pcs, WaitPcs
<1>2. ASSUME NEW t \in Threads, Progress(t) PROVE TypeOK'
  BY <1>2, ProgressType
<1>3. ASSUME NEW t \in Threads, NEW f \in Files, PageIn(t, f) PROVE TypeOK'
  BY <1>3 DEF PageIn
<1>4. ASSUME NEW t \in Threads, Cancel(t) \/ SetPaused(t) \/ Expire(t) PROVE TypeOK'
  BY <1>4 DEF Cancel, SetPaused, Expire
<1>5. ASSUME NEW p \in Callers, BeginRelease(p) \/ ReleaseTry(p) PROVE TypeOK'
  BY <1>5 DEF BeginRelease, ReleaseTry, ReleaseIdle, ReleaseBusy, NoKey, NoWeights
<1>6. ASSUME NEW f \in Files, Edit(f) PROVE TypeOK'
  BY <1>6 DEF Edit
<1>7. CASE UNCHANGED vars
  BY <1>7 DEF vars
<1>8. QED
  BY <1>1, <1>2, <1>3, <1>4, <1>5, <1>6, <1>7 DEF Next

\* Every variable keeps its type in every behaviour of the engine.
THEOREM EngineTypeOK == Spec => []TypeOK
<1>1. Init => TypeOK
  BY InitType
<1>2. TypeOK /\ [Next]_vars => TypeOK'
  BY NextType
<1>3. QED
  BY <1>1, <1>2, PTL DEF Spec

-----------------------------------------------------------------------------
(***************************************************************************)
(* The inductive invariant.  Versions only grow, so a key taken before a   *)
(* load is at most the version loaded, which is at most the version on     *)
(* disk; a check that finds the key still on disk closes the interval.     *)
(***************************************************************************)
LockInv == \A t \in Threads : pc[t] \in HoldPcs <=> mutex = t

RequestInv == \A t \in Threads :
    /\ pc[t] # "idle" => request[t] \in Requests
    /\ todo[t] \subseteq request[t].files
    /\ pc[t] \notin {"leave", "unlock", "done"} => outcome[t] = "none"
    /\ pc[t] = "idle" => captured[t] = NoKey

VersionInv == \A f \in Files :
    /\ version[f] >= 1
    /\ cacheKey[f] <= version[f]
    /\ \A v \in loaded[f] : cacheKey[f] <= v /\ v <= version[f]

\* The files whose identity the request has taken by now.
Identified(t, f) ==
    \/ /\ Role[f] \in EarlyRoles
       /\ pc[t] = "identify" => f \notin todo[t]
    \/ Role[f] = "model" /\ pc[t] \in {"prepare", "assets", "load", "run", "verify"}
    \/ Role[f] \in {"late", "q8"} /\ pc[t] = "assets" /\ f \notin todo[t]
    \/ pc[t] \in {"load", "run", "verify"}

CaptureInv == \A t \in Threads : \A f \in Files :
    /\ captured[t][f] <= version[f]
    /\ f \notin request[t].files => captured[t][f] = 0
    /\ pc[t] \notin {"idle", "leave", "unlock", "done"}
       /\ f \in request[t].files /\ Identified(t, f) => captured[t][f] >= 1

Held     == {f \in Files : loaded[f] # {}}
KeyFiles == {f \in Files : cacheKey[f] # 0}
Complete == Held = Mounted(KeyFiles)

CompleteInv ==
    /\ mutex = Free => Complete
    /\ \A t \in Threads :
          /\ pc[t] \in {"entered", "source", "prepare", "assets", "run", "verify", "unlock"}
                => Complete
          /\ pc[t] = "leave" /\ outcome[t] = "ok" => Complete
          /\ pc[t] = "load" => Held \cup todo[t] = Mounted(KeyFiles)

MountInv == \A t \in Threads : pc[t] \in {"load", "run", "verify"} =>
    \A f \in Files : f \in request[t].files \/ Role[f] \notin {"ip", "refiner"} =>
        cacheKey[f] = captured[t][f]

\* What is known of a file of a finished image before its last check, and after.
Between(t, f) ==
    /\ used[t][f] # {}
    /\ \A v \in used[t][f] : captured[t][f] <= v /\ v <= version[f]
    /\ captured[t][f] <= onDisk[t][f] /\ onDisk[t][f] <= version[f]

Same(t, f) == used[t][f] = {onDisk[t][f]}

UsedAt(t) == ~request[t].prepareOnly =>
    \A f \in Mounted(request[t].files) :
        /\ pc[t] = "verify" => Between(t, f) /\ (f \notin todo[t] => Same(t, f))
        /\ outcome[t] = "ok" => Same(t, f)

UsedInv == \A t \in Threads : UsedAt(t)

EngineInv == /\ TypeOK /\ LockInv /\ RequestInv /\ VersionInv /\ CaptureInv
             /\ CompleteInv /\ MountInv /\ UsedInv
\* A thread with no image, or whose image, request and identities stand, keeps
\* its part of UsedInv whatever is replaced on disk.
UsedKept(t) ==
    \/ pc'[t] # "verify" /\ outcome'[t] # "ok"
    \/ request'[t].prepareOnly
    \/ /\ request'[t] = request[t] /\ captured'[t] = captured[t]
       /\ used'[t] = used[t] /\ onDisk'[t] = onDisk[t] /\ outcome'[t] = outcome[t]
       /\ pc'[t] = "verify" => pc[t] = "verify" /\ todo'[t] = todo[t]

\* The check closes the interval the versions lie in.
LEMMA Squeeze ==
    ASSUME NEW key \in Nat, NEW now \in Nat, NEW seen \in Nat, NEW S \in SUBSET Nat,
           now = key, key <= seen, seen <= now,
           S # {}, \A v \in S : key <= v /\ v <= now
    PROVE  S = {seen}
<1>1. seen = key
  OBVIOUS
<1>2. \A v \in S : v = key
  OBVIOUS
<1>3. QED
  BY <1>1, <1>2

\* What an image was made of stays right for a request that a step does not touch.
LEMMA UsedFrame ==
    ASSUME EngineInv, NEW t \in Threads, UsedKept(t),
           \A f \in Files : version[f] <= version'[f], version' \in [Files -> Nat]
    PROVE  UsedAt(t)'
<1>1. Mounted(request[t].files) \subseteq Files
  BY FilesOfRequest DEF EngineInv, Mounted, OfRole
<1>2. CASE pc'[t] # "verify" /\ outcome'[t] # "ok"
  BY <1>2 DEF UsedAt
<1>3. CASE /\ request'[t] = request[t] /\ captured'[t] = captured[t]
           /\ used'[t] = used[t] /\ onDisk'[t] = onDisk[t] /\ outcome'[t] = outcome[t]
           /\ pc'[t] = "verify" => pc[t] = "verify" /\ todo'[t] = todo[t]
  <2>1. SUFFICES ASSUME NEW f \in Mounted(request[t].files), ~request[t].prepareOnly
                 PROVE  /\ pc'[t] = "verify" => Between(t, f)' /\ (f \notin todo'[t] => Same(t, f)')
                        /\ outcome'[t] = "ok" => Same(t, f)'
    BY <1>3 DEF UsedAt
  <2>2. /\ pc[t] = "verify" => Between(t, f) /\ (f \notin todo[t] => Same(t, f))
        /\ outcome[t] = "ok" => Same(t, f)
        /\ f \in Files
    BY <1>1, <2>1 DEF EngineInv, UsedInv, UsedAt
  <2>3. Same(t, f)' <=> Same(t, f)
    BY <1>3 DEF Same
  <2>4. Between(t, f) => Between(t, f)'
    BY <1>3, <2>2 DEF Between, EngineInv, TypeOK
  <2>5. QED
    BY <1>3, <2>2, <2>3, <2>4
<1>4. CASE request'[t].prepareOnly
  BY <1>4 DEF UsedAt
<1>5. QED
  BY <1>2, <1>3, <1>4 DEF UsedKept

\* No step takes a file back to an earlier state.
LEMMA VersionsGrow ==
    ASSUME EngineInv, [Next]_vars
    PROVE  \A f \in Files : version[f] <= version'[f]
<1> USE DEF EngineInv, TypeOK
<1>1. ASSUME NEW t \in Threads, PrepareQ8(t)
      PROVE  \A f \in Files : version[f] <= version'[f]
  <2>1. \/ version' = version
        \/ \E q \in Files : version' = [version EXCEPT ![q] = @ + 1]
    BY <1>1, FilesOfRequest DEF PrepareQ8, OfRole
  <2>2. ASSUME NEW q \in Files, version' = [version EXCEPT ![q] = @ + 1]
        PROVE  \A f \in Files : version[f] <= version'[f]
    BY <2>2
  <2>3. CASE version' = version
    BY <2>3
  <2>4. QED
    BY <2>1, <2>2, <2>3
<1>2. ASSUME NEW f \in Files, Edit(f) PROVE \A g \in Files : version[g] <= version'[g]
  BY <1>2 DEF Edit
<1>3. version' = version \/ (\E t \in Threads : PrepareQ8(t)) \/ (\E f \in Files : Edit(f))
  BY DEF Next, Progress, ReleaseTry, vars, Begin, IdentifyEarly, Reject, QueueUp, TryLock,
         TryLockTimesOut, Retry, GiveUp, Enter, EnterStopped, IdentifySource, IdentifyLate,
         Mount, Load, Prepared, Loaded, PageIn, Generate, Verify, Succeed, Fail, Leave,
         Unlock, Return, Cancel, SetPaused, Expire, BeginRelease, ReleaseIdle, ReleaseBusy
<1>4. QED
  BY <1>1, <1>2, <1>3

\* At the cache decision the identity of every file of the request is known.
LEMMA AllIdentified ==
    ASSUME EngineInv, NEW t \in Threads, pc[t] = "assets", todo[t] = {}
    PROVE  \A f \in Files : /\ Identified(t, f)
                            /\ f \in request[t].files <=> captured[t][f] # 0
<1>1. ASSUME NEW f \in Files PROVE Identified(t, f)
  <2>1. Role[f] \in {"model", "q8", "late", "early", "ip", "refiner"}
    BY EngineAssumption DEF Roles
  <2>2. QED
    BY <2>1 DEF Identified, EarlyRoles
<1>2. ASSUME NEW f \in Files PROVE f \in request[t].files <=> captured[t][f] # 0
  <2>1. captured[t][f] \in Nat
    BY DEF EngineInv, TypeOK
  <2>2. f \in request[t].files => captured[t][f] >= 1
    BY <1>1 DEF EngineInv, CaptureInv
  <2>3. f \notin request[t].files => captured[t][f] = 0
    BY DEF EngineInv, CaptureInv
  <2>4. QED
    BY <2>1, <2>2, <2>3
<1>3. QED
  BY <1>1, <1>2

\* An empty cache is complete.
LEMMA ResetIsComplete ==
    ASSUME cacheKey' = NoKey, loaded' = NoWeights
    PROVE  Complete'
<1>1. Held' = {} /\ KeyFiles' = {}
  BY DEF Held, KeyFiles, NoKey, NoWeights
<1>2. QED
  BY <1>1 DEF Complete, Mounted, OfRole

\* A load adds one file to those the contexts hold.
LEMMA HeldGrows ==
    ASSUME NEW f \in Files,
           \A g \in Files : loaded'[g] # {} <=> loaded[g] # {} \/ g = f
    PROVE  Held' = Held \cup {f}
  BY DEF Held

\* With nothing left to load the contexts are complete.
LEMMA NothingLeft ==
    ASSUME NEW t, todo[t] = {}, Held \cup todo[t] = Mounted(KeyFiles)
    PROVE  Complete
  BY DEF Complete

\* Once a request is mounted, everything it needs is held.
LEMMA MountedIsHeld ==
    ASSUME EngineInv, NEW t \in Threads, pc[t] = "run"
    PROVE  Mounted(request[t].files) \subseteq Held
<1>1. Held = Mounted(KeyFiles)
  BY DEF EngineInv, CompleteInv, Complete
<1>2. ASSUME NEW f \in request[t].files PROVE f \in KeyFiles
  <2>1. f \in Files
    BY FilesOfRequest DEF EngineInv
  <2>2. captured[t][f] >= 1
    BY <2>1 DEF EngineInv, CaptureInv, Identified
  <2>3. cacheKey[f] = captured[t][f]
    BY <2>1 DEF EngineInv, MountInv
  <2>4. QED
    BY <2>1, <2>2, <2>3 DEF KeyFiles
<1>3. OfRole(KeyFiles, {"q8"}) \subseteq request[t].files
  BY EngineAssumption DEF EngineInv, CaptureInv, MountInv, KeyFiles, OfRole
<1>4. QED
  BY <1>1, <1>2, <1>3 DEF Mounted, OfRole

\* Every step keeps that exactly the owner of the mutex is in a phase that holds it.
LEMMA LockStep ==
    ASSUME EngineInv, [Next]_vars, TypeOK'
    PROVE  LockInv'
<1> USE EngineAssumption, FilesOfRequest DEF EngineInv, TypeOK, Pcs, WaitPcs, HoldPcs, UsePcs, LockInv
<1>1. ASSUME NEW t \in Threads, Begin(t) PROVE LockInv'
  BY <1>1 DEF Begin
<1>2. ASSUME NEW t \in Threads, NEW f \in Files, IdentifyEarly(t, f) PROVE LockInv'
  BY <1>2 DEF IdentifyEarly
<1>3. ASSUME NEW t \in Threads, Reject(t) PROVE LockInv'
  BY <1>3 DEF Reject
<1>4. ASSUME NEW t \in Threads, QueueUp(t) PROVE LockInv'
  BY <1>4 DEF QueueUp
<1>5. ASSUME NEW t \in Threads, TryLock(t) PROVE LockInv'
  BY <1>5 DEF TryLock
<1>6. ASSUME NEW t \in Threads, TryLockTimesOut(t) PROVE LockInv'
  BY <1>6 DEF TryLockTimesOut
<1>7. ASSUME NEW t \in Threads, Retry(t) PROVE LockInv'
  BY <1>7 DEF Retry
<1>8. ASSUME NEW t \in Threads, GiveUp(t) PROVE LockInv'
  BY <1>8 DEF GiveUp
<1>9. ASSUME NEW t \in Threads, Enter(t) PROVE LockInv'
  BY <1>9 DEF Enter
<1>10. ASSUME NEW t \in Threads, EnterStopped(t) PROVE LockInv'
  BY <1>10 DEF EnterStopped
<1>11. ASSUME NEW t \in Threads, IdentifySource(t) PROVE LockInv'
  BY <1>11 DEF IdentifySource
<1>12. ASSUME NEW t \in Threads, PrepareQ8(t) PROVE LockInv'
  BY <1>12 DEF PrepareQ8
<1>13. ASSUME NEW t \in Threads, NEW f \in Files, IdentifyLate(t, f) PROVE LockInv'
  BY <1>13 DEF IdentifyLate
<1>14. ASSUME NEW t \in Threads, Mount(t) PROVE LockInv'
  BY <1>14 DEF Mount
<1>15. ASSUME NEW t \in Threads, NEW f \in Files, Load(t, f) PROVE LockInv'
  BY <1>15 DEF Load
<1>16. ASSUME NEW t \in Threads, Prepared(t) PROVE LockInv'
  BY <1>16 DEF Prepared
<1>17. ASSUME NEW t \in Threads, Loaded(t) PROVE LockInv'
  BY <1>17 DEF Loaded
<1>18. ASSUME NEW t \in Threads, NEW f \in Files, PageIn(t, f) PROVE LockInv'
  BY <1>18 DEF PageIn
<1>19. ASSUME NEW t \in Threads, Generate(t) PROVE LockInv'
  BY <1>19 DEF Generate
<1>20. ASSUME NEW t \in Threads, NEW f \in Files, Verify(t, f) PROVE LockInv'
  BY <1>20 DEF Verify
<1>21. ASSUME NEW t \in Threads, Succeed(t) PROVE LockInv'
  BY <1>21 DEF Succeed
<1>22. ASSUME NEW t \in Threads, Fail(t) PROVE LockInv'
  BY <1>22 DEF Fail
<1>23. ASSUME NEW t \in Threads, Leave(t) PROVE LockInv'
  BY <1>23 DEF Leave
<1>24. ASSUME NEW t \in Threads, Unlock(t) PROVE LockInv'
  BY <1>24 DEF Unlock
<1>25. ASSUME NEW t \in Threads, Return(t) PROVE LockInv'
  BY <1>25 DEF Return
<1>26. ASSUME NEW t \in Threads, Cancel(t) PROVE LockInv'
  BY <1>26 DEF Cancel
<1>27. ASSUME NEW t \in Threads, SetPaused(t) PROVE LockInv'
  BY <1>27 DEF SetPaused
<1>28. ASSUME NEW t \in Threads, Expire(t) PROVE LockInv'
  BY <1>28 DEF Expire
<1>29. ASSUME NEW p \in Callers, BeginRelease(p) PROVE LockInv'
  BY <1>29 DEF BeginRelease
<1>30. ASSUME NEW p \in Callers, ReleaseTry(p) PROVE LockInv'
  BY <1>30 DEF ReleaseTry, ReleaseIdle, ReleaseBusy
<1>31. ASSUME NEW f \in Files, Edit(f) PROVE LockInv'
  BY <1>31 DEF Edit
<1>32. ASSUME UNCHANGED vars PROVE LockInv'
  BY <1>32 DEF vars
<1>33. QED
  BY <1>1, <1>2, <1>3, <1>4, <1>5, <1>6, <1>7, <1>8, <1>9, <1>10, <1>11, <1>12,
     <1>13, <1>14, <1>15, <1>16, <1>17, <1>18, <1>19, <1>20, <1>21, <1>22, <1>23,
     <1>24, <1>25, <1>26, <1>27, <1>28, <1>29, <1>30, <1>31, <1>32 DEF Next, Progress

\* Every step keeps what a request has at each of its phases.
LEMMA RequestStep ==
    ASSUME EngineInv, [Next]_vars, TypeOK'
    PROVE  RequestInv'
<1> USE EngineAssumption, FilesOfRequest DEF EngineInv, TypeOK, Pcs, WaitPcs, HoldPcs, UsePcs, RequestInv, OfRole, NoKey, NoRequest, Mounted, FilesToVerify
<1>1. ASSUME NEW t \in Threads, Begin(t) PROVE RequestInv'
  BY <1>1 DEF Begin
<1>2. ASSUME NEW t \in Threads, NEW f \in Files, IdentifyEarly(t, f) PROVE RequestInv'
  BY <1>2 DEF IdentifyEarly
<1>3. ASSUME NEW t \in Threads, Reject(t) PROVE RequestInv'
  BY <1>3 DEF Reject
<1>4. ASSUME NEW t \in Threads, QueueUp(t) PROVE RequestInv'
  BY <1>4 DEF QueueUp
<1>5. ASSUME NEW t \in Threads, TryLock(t) PROVE RequestInv'
  BY <1>5 DEF TryLock
<1>6. ASSUME NEW t \in Threads, TryLockTimesOut(t) PROVE RequestInv'
  BY <1>6 DEF TryLockTimesOut
<1>7. ASSUME NEW t \in Threads, Retry(t) PROVE RequestInv'
  BY <1>7 DEF Retry
<1>8. ASSUME NEW t \in Threads, GiveUp(t) PROVE RequestInv'
  BY <1>8 DEF GiveUp
<1>9. ASSUME NEW t \in Threads, Enter(t) PROVE RequestInv'
  BY <1>9 DEF Enter
<1>10. ASSUME NEW t \in Threads, EnterStopped(t) PROVE RequestInv'
  BY <1>10 DEF EnterStopped
<1>11. ASSUME NEW t \in Threads, IdentifySource(t) PROVE RequestInv'
  BY <1>11 DEF IdentifySource
<1>12. ASSUME NEW t \in Threads, PrepareQ8(t) PROVE RequestInv'
  BY <1>12 DEF PrepareQ8
<1>13. ASSUME NEW t \in Threads, NEW f \in Files, IdentifyLate(t, f) PROVE RequestInv'
  BY <1>13 DEF IdentifyLate
<1>14. ASSUME NEW t \in Threads, Mount(t) PROVE RequestInv'
  BY <1>14 DEF Mount
<1>15. ASSUME NEW t \in Threads, NEW f \in Files, Load(t, f) PROVE RequestInv'
  BY <1>15 DEF Load
<1>16. ASSUME NEW t \in Threads, Prepared(t) PROVE RequestInv'
  BY <1>16 DEF Prepared
<1>17. ASSUME NEW t \in Threads, Loaded(t) PROVE RequestInv'
  BY <1>17 DEF Loaded
<1>18. ASSUME NEW t \in Threads, NEW f \in Files, PageIn(t, f) PROVE RequestInv'
  BY <1>18 DEF PageIn
<1>19. ASSUME NEW t \in Threads, Generate(t) PROVE RequestInv'
  BY <1>19 DEF Generate
<1>20. ASSUME NEW t \in Threads, NEW f \in Files, Verify(t, f) PROVE RequestInv'
  BY <1>20 DEF Verify
<1>21. ASSUME NEW t \in Threads, Succeed(t) PROVE RequestInv'
  BY <1>21 DEF Succeed
<1>22. ASSUME NEW t \in Threads, Fail(t) PROVE RequestInv'
  BY <1>22 DEF Fail
<1>23. ASSUME NEW t \in Threads, Leave(t) PROVE RequestInv'
  BY <1>23 DEF Leave
<1>24. ASSUME NEW t \in Threads, Unlock(t) PROVE RequestInv'
  BY <1>24 DEF Unlock
<1>25. ASSUME NEW t \in Threads, Return(t) PROVE RequestInv'
  BY <1>25 DEF Return
<1>26. ASSUME NEW t \in Threads, Cancel(t) PROVE RequestInv'
  BY <1>26 DEF Cancel
<1>27. ASSUME NEW t \in Threads, SetPaused(t) PROVE RequestInv'
  BY <1>27 DEF SetPaused
<1>28. ASSUME NEW t \in Threads, Expire(t) PROVE RequestInv'
  BY <1>28 DEF Expire
<1>29. ASSUME NEW p \in Callers, BeginRelease(p) PROVE RequestInv'
  BY <1>29 DEF BeginRelease
<1>30. ASSUME NEW p \in Callers, ReleaseTry(p) PROVE RequestInv'
  BY <1>30 DEF ReleaseTry, ReleaseIdle, ReleaseBusy
<1>31. ASSUME NEW f \in Files, Edit(f) PROVE RequestInv'
  BY <1>31 DEF Edit
<1>32. ASSUME UNCHANGED vars PROVE RequestInv'
  BY <1>32 DEF vars
<1>33. QED
  BY <1>1, <1>2, <1>3, <1>4, <1>5, <1>6, <1>7, <1>8, <1>9, <1>10, <1>11, <1>12,
     <1>13, <1>14, <1>15, <1>16, <1>17, <1>18, <1>19, <1>20, <1>21, <1>22, <1>23,
     <1>24, <1>25, <1>26, <1>27, <1>28, <1>29, <1>30, <1>31, <1>32 DEF Next, Progress

\* Every step keeps the loaded states between the key and the disk.
LEMMA VersionStep ==
    ASSUME EngineInv, [Next]_vars, TypeOK'
    PROVE  VersionInv'
<1> USE EngineAssumption, FilesOfRequest DEF EngineInv, TypeOK, VersionInv, CaptureInv, OfRole, NoKey, NoWeights
<1>1. ASSUME NEW t \in Threads, Begin(t) PROVE VersionInv'
  BY <1>1 DEF Begin
<1>2. ASSUME NEW t \in Threads, NEW f \in Files, IdentifyEarly(t, f) PROVE VersionInv'
  BY <1>2 DEF IdentifyEarly
<1>3. ASSUME NEW t \in Threads, Reject(t) PROVE VersionInv'
  BY <1>3 DEF Reject
<1>4. ASSUME NEW t \in Threads, QueueUp(t) PROVE VersionInv'
  BY <1>4 DEF QueueUp
<1>5. ASSUME NEW t \in Threads, TryLock(t) PROVE VersionInv'
  BY <1>5 DEF TryLock
<1>6. ASSUME NEW t \in Threads, TryLockTimesOut(t) PROVE VersionInv'
  BY <1>6 DEF TryLockTimesOut
<1>7. ASSUME NEW t \in Threads, Retry(t) PROVE VersionInv'
  BY <1>7 DEF Retry
<1>8. ASSUME NEW t \in Threads, GiveUp(t) PROVE VersionInv'
  BY <1>8 DEF GiveUp
<1>9. ASSUME NEW t \in Threads, Enter(t) PROVE VersionInv'
  BY <1>9 DEF Enter
<1>10. ASSUME NEW t \in Threads, EnterStopped(t) PROVE VersionInv'
  BY <1>10 DEF EnterStopped
<1>11. ASSUME NEW t \in Threads, IdentifySource(t) PROVE VersionInv'
  BY <1>11 DEF IdentifySource
<1>12. ASSUME NEW t \in Threads, PrepareQ8(t) PROVE VersionInv'
  <2>1. CASE UNCHANGED <<version, cacheVars>>
    BY <2>1
  <2>2. ASSUME NEW q \in Files, version' = [version EXCEPT ![q] = @ + 1], ResetCache
        PROVE  VersionInv'
    BY <2>2
  <2>3. QED
    BY <1>12, <2>1, <2>2 DEF PrepareQ8
<1>13. ASSUME NEW t \in Threads, NEW f \in Files, IdentifyLate(t, f) PROVE VersionInv'
  BY <1>13 DEF IdentifyLate
<1>14. ASSUME NEW t \in Threads, Mount(t) PROVE VersionInv'
  <2>1. version' = version
    BY <1>14 DEF Mount
  <2>2. CASE cacheKey' = captured[t] /\ loaded' = NoWeights
    BY <2>1, <2>2
  <2>3. CASE UNCHANGED cacheVars
    BY <2>1, <2>3
  <2>4. CASE /\ cacheKey' = [f \in Files |-> IF Role[f] = "refiner" THEN captured[t][f]
                                         ELSE cacheKey[f]]
             /\ loaded' = [f \in Files |-> IF Role[f] = "refiner" THEN {} ELSE loaded[f]]
    BY <2>1, <2>4
  <2>5. QED
    BY <1>14, <2>2, <2>3, <2>4 DEF Mount
<1>15. ASSUME NEW t \in Threads, NEW f \in Files, Load(t, f) PROVE VersionInv'
  BY <1>15 DEF Load
<1>16. ASSUME NEW t \in Threads, Prepared(t) PROVE VersionInv'
  BY <1>16 DEF Prepared
<1>17. ASSUME NEW t \in Threads, Loaded(t) PROVE VersionInv'
  BY <1>17 DEF Loaded
<1>18. ASSUME NEW t \in Threads, NEW f \in Files, PageIn(t, f) PROVE VersionInv'
  BY <1>18 DEF PageIn
<1>19. ASSUME NEW t \in Threads, Generate(t) PROVE VersionInv'
  BY <1>19 DEF Generate
<1>20. ASSUME NEW t \in Threads, NEW f \in Files, Verify(t, f) PROVE VersionInv'
  BY <1>20 DEF Verify
<1>21. ASSUME NEW t \in Threads, Succeed(t) PROVE VersionInv'
  BY <1>21 DEF Succeed
<1>22. ASSUME NEW t \in Threads, Fail(t) PROVE VersionInv'
  BY <1>22 DEF Fail
<1>23. ASSUME NEW t \in Threads, Leave(t) PROVE VersionInv'
  BY <1>23 DEF Leave
<1>24. ASSUME NEW t \in Threads, Unlock(t) PROVE VersionInv'
  BY <1>24 DEF Unlock
<1>25. ASSUME NEW t \in Threads, Return(t) PROVE VersionInv'
  BY <1>25 DEF Return
<1>26. ASSUME NEW t \in Threads, Cancel(t) PROVE VersionInv'
  BY <1>26 DEF Cancel
<1>27. ASSUME NEW t \in Threads, SetPaused(t) PROVE VersionInv'
  BY <1>27 DEF SetPaused
<1>28. ASSUME NEW t \in Threads, Expire(t) PROVE VersionInv'
  BY <1>28 DEF Expire
<1>29. ASSUME NEW p \in Callers, BeginRelease(p) PROVE VersionInv'
  BY <1>29 DEF BeginRelease
<1>30. ASSUME NEW p \in Callers, ReleaseTry(p) PROVE VersionInv'
  BY <1>30 DEF ReleaseTry, ReleaseIdle, ReleaseBusy
<1>31. ASSUME NEW f \in Files, Edit(f) PROVE VersionInv'
  BY <1>31 DEF Edit
<1>32. ASSUME UNCHANGED vars PROVE VersionInv'
  BY <1>32 DEF vars
<1>33. QED
  BY <1>1, <1>2, <1>3, <1>4, <1>5, <1>6, <1>7, <1>8, <1>9, <1>10, <1>11, <1>12,
     <1>13, <1>14, <1>15, <1>16, <1>17, <1>18, <1>19, <1>20, <1>21, <1>22, <1>23,
     <1>24, <1>25, <1>26, <1>27, <1>28, <1>29, <1>30, <1>31, <1>32 DEF Next, Progress

\* Every step keeps that the captured identities are never ahead of the disk.
LEMMA CaptureStep ==
    ASSUME EngineInv, [Next]_vars, TypeOK'
    PROVE  CaptureInv'
<1> USE EngineAssumption, FilesOfRequest DEF EngineInv, TypeOK, Pcs, WaitPcs, HoldPcs, UsePcs, CaptureInv, RequestInv, VersionInv, Identified, EarlyRoles, OfRole, NoKey
<1>1. ASSUME NEW t \in Threads, Begin(t) PROVE CaptureInv'
  BY <1>1 DEF Begin
<1>2. ASSUME NEW t \in Threads, NEW f \in Files, IdentifyEarly(t, f) PROVE CaptureInv'
  BY <1>2 DEF IdentifyEarly
<1>3. ASSUME NEW t \in Threads, Reject(t) PROVE CaptureInv'
  BY <1>3 DEF Reject
<1>4. ASSUME NEW t \in Threads, QueueUp(t) PROVE CaptureInv'
  BY <1>4 DEF QueueUp
<1>5. ASSUME NEW t \in Threads, TryLock(t) PROVE CaptureInv'
  BY <1>5 DEF TryLock
<1>6. ASSUME NEW t \in Threads, TryLockTimesOut(t) PROVE CaptureInv'
  BY <1>6 DEF TryLockTimesOut
<1>7. ASSUME NEW t \in Threads, Retry(t) PROVE CaptureInv'
  BY <1>7 DEF Retry
<1>8. ASSUME NEW t \in Threads, GiveUp(t) PROVE CaptureInv'
  BY <1>8 DEF GiveUp
<1>9. ASSUME NEW t \in Threads, Enter(t) PROVE CaptureInv'
  BY <1>9 DEF Enter
<1>10. ASSUME NEW t \in Threads, EnterStopped(t) PROVE CaptureInv'
  BY <1>10 DEF EnterStopped
<1>11. ASSUME NEW t \in Threads, IdentifySource(t) PROVE CaptureInv'
  BY <1>11 DEF IdentifySource
<1>12. ASSUME NEW t \in Threads, PrepareQ8(t) PROVE CaptureInv'
  <2>1. \A f \in Files : version[f] <= version'[f]
    <3>1. CASE UNCHANGED <<version, cacheVars>>
      BY <3>1
    <3>2. ASSUME NEW q \in Files, version' = [version EXCEPT ![q] = @ + 1]
          PROVE  \A f \in Files : version[f] <= version'[f]
      BY <3>2
    <3>3. QED
      BY <1>12, <3>1, <3>2 DEF PrepareQ8
  <2>2. /\ UNCHANGED <<request, captured>>
        /\ pc[t] = "prepare" /\ pc' = [pc EXCEPT ![t] = "assets"]
        /\ todo' = [todo EXCEPT ![t] = OfRole(request[t].files, {"q8", "late"})]
    BY <1>12 DEF PrepareQ8
  <2>3. QED
    BY <2>1, <2>2
<1>13. ASSUME NEW t \in Threads, NEW f \in Files, IdentifyLate(t, f) PROVE CaptureInv'
  BY <1>13 DEF IdentifyLate
<1>14. ASSUME NEW t \in Threads, Mount(t) PROVE CaptureInv'
  <2>1. /\ UNCHANGED <<version, request, captured>>
        /\ pc[t] = "assets" /\ todo[t] = {} /\ pc' = [pc EXCEPT ![t] = "load"]
        /\ \A u \in Threads : u # t => todo'[u] = todo[u]
    BY <1>14 DEF Mount
  <2>2. \A u \in Threads, f \in Files : u # t => (Identified(u, f)' <=> Identified(u, f))
    BY <2>1
  <2>3. \A f \in Files : Identified(t, f)
    BY <2>1, AllIdentified
  <2>4. QED
    BY <2>1, <2>2, <2>3
<1>15. ASSUME NEW t \in Threads, NEW f \in Files, Load(t, f) PROVE CaptureInv'
  BY <1>15 DEF Load
<1>16. ASSUME NEW t \in Threads, Prepared(t) PROVE CaptureInv'
  BY <1>16 DEF Prepared
<1>17. ASSUME NEW t \in Threads, Loaded(t) PROVE CaptureInv'
  BY <1>17 DEF Loaded
<1>18. ASSUME NEW t \in Threads, NEW f \in Files, PageIn(t, f) PROVE CaptureInv'
  BY <1>18 DEF PageIn
<1>19. ASSUME NEW t \in Threads, Generate(t) PROVE CaptureInv'
  BY <1>19 DEF Generate
<1>20. ASSUME NEW t \in Threads, NEW f \in Files, Verify(t, f) PROVE CaptureInv'
  BY <1>20 DEF Verify
<1>21. ASSUME NEW t \in Threads, Succeed(t) PROVE CaptureInv'
  BY <1>21 DEF Succeed
<1>22. ASSUME NEW t \in Threads, Fail(t) PROVE CaptureInv'
  BY <1>22 DEF Fail
<1>23. ASSUME NEW t \in Threads, Leave(t) PROVE CaptureInv'
  BY <1>23 DEF Leave
<1>24. ASSUME NEW t \in Threads, Unlock(t) PROVE CaptureInv'
  BY <1>24 DEF Unlock
<1>25. ASSUME NEW t \in Threads, Return(t) PROVE CaptureInv'
  BY <1>25 DEF Return
<1>26. ASSUME NEW t \in Threads, Cancel(t) PROVE CaptureInv'
  BY <1>26 DEF Cancel
<1>27. ASSUME NEW t \in Threads, SetPaused(t) PROVE CaptureInv'
  BY <1>27 DEF SetPaused
<1>28. ASSUME NEW t \in Threads, Expire(t) PROVE CaptureInv'
  BY <1>28 DEF Expire
<1>29. ASSUME NEW p \in Callers, BeginRelease(p) PROVE CaptureInv'
  BY <1>29 DEF BeginRelease
<1>30. ASSUME NEW p \in Callers, ReleaseTry(p) PROVE CaptureInv'
  BY <1>30 DEF ReleaseTry, ReleaseIdle, ReleaseBusy
<1>31. ASSUME NEW f \in Files, Edit(f) PROVE CaptureInv'
  BY <1>31 DEF Edit
<1>32. ASSUME UNCHANGED vars PROVE CaptureInv'
  BY <1>32 DEF vars
<1>33. QED
  BY <1>1, <1>2, <1>3, <1>4, <1>5, <1>6, <1>7, <1>8, <1>9, <1>10, <1>11, <1>12,
     <1>13, <1>14, <1>15, <1>16, <1>17, <1>18, <1>19, <1>20, <1>21, <1>22, <1>23,
     <1>24, <1>25, <1>26, <1>27, <1>28, <1>29, <1>30, <1>31, <1>32 DEF Next, Progress

\* Every step keeps the key what the request that mounts by it has identified.
LEMMA MountStep ==
    ASSUME EngineInv, [Next]_vars, TypeOK'
    PROVE  MountInv'
<1> USE EngineAssumption, FilesOfRequest DEF EngineInv, TypeOK, Pcs, WaitPcs, HoldPcs, UsePcs, MountInv, LockInv, RequestInv, OfRole, NoKey
<1>1. ASSUME NEW t \in Threads, Begin(t) PROVE MountInv'
  BY <1>1 DEF Begin
<1>2. ASSUME NEW t \in Threads, NEW f \in Files, IdentifyEarly(t, f) PROVE MountInv'
  BY <1>2 DEF IdentifyEarly
<1>3. ASSUME NEW t \in Threads, Reject(t) PROVE MountInv'
  BY <1>3 DEF Reject
<1>4. ASSUME NEW t \in Threads, QueueUp(t) PROVE MountInv'
  BY <1>4 DEF QueueUp
<1>5. ASSUME NEW t \in Threads, TryLock(t) PROVE MountInv'
  BY <1>5 DEF TryLock
<1>6. ASSUME NEW t \in Threads, TryLockTimesOut(t) PROVE MountInv'
  BY <1>6 DEF TryLockTimesOut
<1>7. ASSUME NEW t \in Threads, Retry(t) PROVE MountInv'
  BY <1>7 DEF Retry
<1>8. ASSUME NEW t \in Threads, GiveUp(t) PROVE MountInv'
  BY <1>8 DEF GiveUp
<1>9. ASSUME NEW t \in Threads, Enter(t) PROVE MountInv'
  BY <1>9 DEF Enter
<1>10. ASSUME NEW t \in Threads, EnterStopped(t) PROVE MountInv'
  BY <1>10 DEF EnterStopped
<1>11. ASSUME NEW t \in Threads, IdentifySource(t) PROVE MountInv'
  BY <1>11 DEF IdentifySource
<1>12. ASSUME NEW t \in Threads, PrepareQ8(t) PROVE MountInv'
  BY <1>12 DEF PrepareQ8
<1>13. ASSUME NEW t \in Threads, NEW f \in Files, IdentifyLate(t, f) PROVE MountInv'
  BY <1>13 DEF IdentifyLate
<1>14. ASSUME NEW t \in Threads, Mount(t) PROVE MountInv'
  <2>1. /\ UNCHANGED <<request, captured>>
        /\ pc[t] = "assets" /\ pc' = [pc EXCEPT ![t] = "load"] /\ mutex = t
    BY <1>14 DEF Mount
  <2>2. ASSUME NEW f \in Files, f \in request[t].files \/ Role[f] \notin {"ip", "refiner"}
        PROVE  cacheKey'[f] = captured[t][f]
    <3>1. CASE ~SameIdentity(t)
      BY <1>14, <3>1 DEF Mount
    <3>2. CASE SameIdentity(t) /\ ~RefinerStale(t)
      BY <1>14, <2>2, <3>2 DEF Mount, SameIdentity, RefinerStale
    <3>3. CASE SameIdentity(t) /\ RefinerStale(t)
      BY <1>14, <2>2, <3>3 DEF Mount, SameIdentity
    <3>4. QED
      BY <3>1, <3>2, <3>3
  <2>3. \A u \in Threads \ {t} : pc'[u] \notin {"load", "run", "verify"}
    BY <2>1
  <2>4. QED
    BY <2>1, <2>2, <2>3
<1>15. ASSUME NEW t \in Threads, NEW f \in Files, Load(t, f) PROVE MountInv'
  BY <1>15 DEF Load
<1>16. ASSUME NEW t \in Threads, Prepared(t) PROVE MountInv'
  BY <1>16 DEF Prepared
<1>17. ASSUME NEW t \in Threads, Loaded(t) PROVE MountInv'
  BY <1>17 DEF Loaded
<1>18. ASSUME NEW t \in Threads, NEW f \in Files, PageIn(t, f) PROVE MountInv'
  BY <1>18 DEF PageIn
<1>19. ASSUME NEW t \in Threads, Generate(t) PROVE MountInv'
  BY <1>19 DEF Generate
<1>20. ASSUME NEW t \in Threads, NEW f \in Files, Verify(t, f) PROVE MountInv'
  BY <1>20 DEF Verify
<1>21. ASSUME NEW t \in Threads, Succeed(t) PROVE MountInv'
  BY <1>21 DEF Succeed
<1>22. ASSUME NEW t \in Threads, Fail(t) PROVE MountInv'
  BY <1>22 DEF Fail
<1>23. ASSUME NEW t \in Threads, Leave(t) PROVE MountInv'
  BY <1>23 DEF Leave
<1>24. ASSUME NEW t \in Threads, Unlock(t) PROVE MountInv'
  BY <1>24 DEF Unlock
<1>25. ASSUME NEW t \in Threads, Return(t) PROVE MountInv'
  BY <1>25 DEF Return
<1>26. ASSUME NEW t \in Threads, Cancel(t) PROVE MountInv'
  BY <1>26 DEF Cancel
<1>27. ASSUME NEW t \in Threads, SetPaused(t) PROVE MountInv'
  BY <1>27 DEF SetPaused
<1>28. ASSUME NEW t \in Threads, Expire(t) PROVE MountInv'
  BY <1>28 DEF Expire
<1>29. ASSUME NEW p \in Callers, BeginRelease(p) PROVE MountInv'
  BY <1>29 DEF BeginRelease
<1>30. ASSUME NEW p \in Callers, ReleaseTry(p) PROVE MountInv'
  BY <1>30 DEF ReleaseTry, ReleaseIdle, ReleaseBusy
<1>31. ASSUME NEW f \in Files, Edit(f) PROVE MountInv'
  BY <1>31 DEF Edit
<1>32. ASSUME UNCHANGED vars PROVE MountInv'
  BY <1>32 DEF vars
<1>33. QED
  BY <1>1, <1>2, <1>3, <1>4, <1>5, <1>6, <1>7, <1>8, <1>9, <1>10, <1>11, <1>12,
     <1>13, <1>14, <1>15, <1>16, <1>17, <1>18, <1>19, <1>20, <1>21, <1>22, <1>23,
     <1>24, <1>25, <1>26, <1>27, <1>28, <1>29, <1>30, <1>31, <1>32 DEF Next, Progress

\* Every step keeps the contexts complete, or on the way to it in the hands of the owner.
LEMMA CompleteStep ==
    ASSUME EngineInv, [Next]_vars, TypeOK'
    PROVE  CompleteInv'
<1> USE EngineAssumption, FilesOfRequest DEF EngineInv, TypeOK, Pcs, WaitPcs, HoldPcs, UsePcs, CompleteInv, LockInv, RequestInv
<1>0. UNCHANGED <<cacheKey, loaded>> =>
         /\ Complete' <=> Complete
         /\ Held' = Held
         /\ Mounted(KeyFiles)' = Mounted(KeyFiles)
  BY DEF Complete, Held, KeyFiles, Mounted, OfRole
<1>1. ASSUME NEW t \in Threads, Begin(t) PROVE CompleteInv'
  BY <1>1, <1>0 DEF Begin
<1>2. ASSUME NEW t \in Threads, NEW f \in Files, IdentifyEarly(t, f) PROVE CompleteInv'
  BY <1>2, <1>0 DEF IdentifyEarly
<1>3. ASSUME NEW t \in Threads, Reject(t) PROVE CompleteInv'
  BY <1>3, <1>0 DEF Reject
<1>4. ASSUME NEW t \in Threads, QueueUp(t) PROVE CompleteInv'
  BY <1>4, <1>0 DEF QueueUp
<1>5. ASSUME NEW t \in Threads, TryLock(t) PROVE CompleteInv'
  BY <1>5, <1>0 DEF TryLock
<1>6. ASSUME NEW t \in Threads, TryLockTimesOut(t) PROVE CompleteInv'
  BY <1>6, <1>0 DEF TryLockTimesOut
<1>7. ASSUME NEW t \in Threads, Retry(t) PROVE CompleteInv'
  BY <1>7, <1>0 DEF Retry
<1>8. ASSUME NEW t \in Threads, GiveUp(t) PROVE CompleteInv'
  BY <1>8, <1>0 DEF GiveUp
<1>9. ASSUME NEW t \in Threads, Enter(t) PROVE CompleteInv'
  BY <1>9, <1>0 DEF Enter
<1>10. ASSUME NEW t \in Threads, EnterStopped(t) PROVE CompleteInv'
  BY <1>10, <1>0 DEF EnterStopped
<1>11. ASSUME NEW t \in Threads, IdentifySource(t) PROVE CompleteInv'
  BY <1>11, <1>0 DEF IdentifySource
<1>12. ASSUME NEW t \in Threads, PrepareQ8(t) PROVE CompleteInv'
  <2>1. CASE UNCHANGED cacheVars
    BY <1>12, <2>1, <1>0 DEF PrepareQ8
  <2>2. CASE cacheKey' = NoKey /\ loaded' = NoWeights
    <3>1. Complete'
      BY <2>2, ResetIsComplete
    <3>2. QED
      BY <1>12, <3>1 DEF PrepareQ8
  <2>3. QED
    BY <1>12, <2>1, <2>2 DEF PrepareQ8
<1>13. ASSUME NEW t \in Threads, NEW f \in Files, IdentifyLate(t, f) PROVE CompleteInv'
  BY <1>13, <1>0 DEF IdentifyLate
<1>14. ASSUME NEW t \in Threads, Mount(t) PROVE CompleteInv'
  <2>1. /\ pc[t] = "assets" /\ todo[t] = {} /\ mutex = t
        /\ pc' = [pc EXCEPT ![t] = "load"] /\ UNCHANGED <<mutex, request, captured>>
    BY <1>14 DEF Mount
  <2>2. Complete
    BY <2>1
  <2>3. (Held \cup todo[t])' = Mounted(KeyFiles)'
    <3>1. CASE ~SameIdentity(t)
      <4>1. /\ cacheKey' = captured[t] /\ loaded' = NoWeights
            /\ todo'[t] = Mounted(request[t].files)
        BY <1>14, <3>1 DEF Mount
      <4>2. \A f \in Files : f \in request[t].files <=> captured[t][f] # 0
        BY <2>1, AllIdentified
      <4>3. Held' = {} /\ KeyFiles' = request[t].files
        BY <4>1, <4>2 DEF Held, KeyFiles, NoWeights
      <4>4. QED
        BY <4>1, <4>3 DEF Mounted, OfRole
    <3>2. CASE SameIdentity(t) /\ ~RefinerStale(t)
      BY <1>14, <2>1, <2>2, <3>2, <1>0 DEF Mount, Complete
    <3>3. CASE SameIdentity(t) /\ RefinerStale(t)
      <4>1. /\ cacheKey' = [f \in Files |-> IF Role[f] = "refiner" THEN captured[t][f]
                                                                 ELSE cacheKey[f]]
            /\ loaded' = [f \in Files |-> IF Role[f] = "refiner" THEN {} ELSE loaded[f]]
            /\ todo'[t] = OfRole(request[t].files, {"refiner"})
        BY <1>14, <3>3 DEF Mount
      <4>2. \A f \in Files : f \in request[t].files <=> captured[t][f] # 0
        BY <2>1, AllIdentified
      <4>3. /\ \A f \in Files : f \in KeyFiles' <=>
                  IF Role[f] = "refiner" THEN f \in request[t].files ELSE f \in KeyFiles
            /\ \A f \in Files : f \in Held' <=> Role[f] # "refiner" /\ f \in Held
            /\ \A f \in Files : f \in todo'[t] <=> Role[f] = "refiner" /\ f \in request[t].files
        BY <4>1, <4>2 DEF KeyFiles, Held, OfRole
      <4>4. OfRole(KeyFiles, {"q8"})' = OfRole(KeyFiles, {"q8"})
        BY <4>3 DEF OfRole, KeyFiles
      <4>5. \A f \in Files : f \in Mounted(KeyFiles)' <=>
                IF Role[f] = "refiner" THEN f \in request[t].files ELSE f \in Mounted(KeyFiles)
        <5>1. \A f \in Files : f \in Mounted(KeyFiles) <=>
                 f \in KeyFiles /\ (Role[f] = "model" => OfRole(KeyFiles, {"q8"}) = {})
          BY DEF Mounted, OfRole, KeyFiles
        <5>2. \A f \in Files : f \in Mounted(KeyFiles)' <=>
                 f \in KeyFiles' /\ (Role[f] = "model" => OfRole(KeyFiles, {"q8"})' = {})
          BY DEF Mounted, OfRole, KeyFiles
        <5>3. QED
          BY <4>3, <4>4, <5>1, <5>2
      <4>6. /\ Held' \subseteq Files /\ todo'[t] \subseteq Files
            /\ Mounted(KeyFiles)' \subseteq Files
        BY DEF Held, KeyFiles, Mounted, OfRole
      <4>7. QED
        BY <2>2, <4>3, <4>5, <4>6 DEF Complete
    <3>4. QED
      BY <3>1, <3>2, <3>3
  <2>4. QED
    BY <2>1, <2>3
<1>15. ASSUME NEW t \in Threads, NEW f \in Files, Load(t, f) PROVE CompleteInv'
  <2>1. /\ pc[t] = "load" /\ mutex = t /\ f \in todo[t] /\ todo'[t] = todo[t] \ {f}
        /\ UNCHANGED <<mutex, pc, cacheKey>>
        /\ loaded' = [loaded EXCEPT ![f] = {version[f]}]
    BY <1>15 DEF Load
  <2>2. Held' = Held \cup {f}
    <3>1. ASSUME NEW g \in Files PROVE loaded'[g] # {} <=> loaded[g] # {} \/ g = f
      <4>1. DOMAIN loaded = Files /\ loaded' = [loaded EXCEPT ![f] = {version[f]}]
        BY <2>1 DEF EngineInv, TypeOK
      <4>2. loaded'[f] = {version[f]}
        BY ONLY <4>1, f \in Files
      <4>3. g # f => loaded'[g] = loaded[g]
        BY ONLY <4>1, g \in Files
      <4>4. QED
        BY ONLY <4>2, <4>3
    <3>2. QED
      BY <3>1, HeldGrows
  <2>3. Mounted(KeyFiles)' = Mounted(KeyFiles)
    BY <2>1 DEF KeyFiles, Mounted, OfRole
  <2>4. (Held \cup todo[t])' = Mounted(KeyFiles)'
    BY <2>1, <2>2, <2>3
  <2>5. QED
    BY <2>1, <2>4
<1>16. ASSUME NEW t \in Threads, Prepared(t) PROVE CompleteInv'
  <2>1. /\ pc[t] = "load" /\ mutex = t /\ todo[t] = {}
        /\ pc'[t] \in {"verify", "run"} /\ \A u \in Threads \ {t} : pc'[u] = pc[u]
        /\ UNCHANGED <<mutex, cacheKey, loaded>>
    BY <1>16 DEF Prepared
  <2>2. Complete
    <3>1. Held \cup todo[t] = Mounted(KeyFiles)
      BY <2>1
    <3>2. QED
      BY <2>1, <3>1, NothingLeft
  <2>3. Complete'
    BY <2>1, <2>2, <1>0
  <2>4. QED
    BY <2>1, <2>3
<1>17. ASSUME NEW t \in Threads, Loaded(t) PROVE CompleteInv'
  <2>1. /\ pc[t] = "load" /\ mutex = t /\ todo[t] = {}
        /\ pc'[t] \in {"verify", "run"} /\ \A u \in Threads \ {t} : pc'[u] = pc[u]
        /\ UNCHANGED <<mutex, cacheKey, loaded>>
    BY <1>17 DEF Loaded
  <2>2. Complete
    <3>1. Held \cup todo[t] = Mounted(KeyFiles)
      BY <2>1
    <3>2. QED
      BY <2>1, <3>1, NothingLeft
  <2>3. Complete'
    BY <2>1, <2>2, <1>0
  <2>4. QED
    BY <2>1, <2>3
<1>18. ASSUME NEW t \in Threads, NEW f \in Files, PageIn(t, f) PROVE CompleteInv'
  <2>1. /\ pc[t] = "run" /\ mutex = t /\ UNCHANGED <<mutex, pc, cacheKey, outcome>>
        /\ f \in Mounted(request[t].files)
        /\ loaded' = [loaded EXCEPT ![f] = @ \cup {version[f]}]
    BY <1>18 DEF PageIn
  <2>2. f \in Held
    BY <2>1, MountedIsHeld
  <2>3. Held' = Held
    BY <2>1, <2>2 DEF Held
  <2>4. Mounted(KeyFiles)' = Mounted(KeyFiles)
    BY <2>1 DEF KeyFiles, Mounted, OfRole
  <2>5. Complete'
    BY <2>1, <2>3, <2>4 DEF Complete
  <2>6. QED
    BY <2>1, <2>5
<1>19. ASSUME NEW t \in Threads, Generate(t) PROVE CompleteInv'
  BY <1>19, <1>0 DEF Generate
<1>20. ASSUME NEW t \in Threads, NEW f \in Files, Verify(t, f) PROVE CompleteInv'
  BY <1>20, <1>0 DEF Verify
<1>21. ASSUME NEW t \in Threads, Succeed(t) PROVE CompleteInv'
  BY <1>21, <1>0 DEF Succeed
<1>22. ASSUME NEW t \in Threads, Fail(t) PROVE CompleteInv'
  BY <1>22, <1>0 DEF Fail
<1>23. ASSUME NEW t \in Threads, Leave(t) PROVE CompleteInv'
  <2>1. Complete'
    <3>1. CASE UNCHANGED cacheVars /\ outcome[t] = "ok"
      BY <1>23, <3>1, <1>0 DEF Leave, Discards
    <3>2. CASE cacheKey' = NoKey /\ loaded' = NoWeights
      BY <3>2, ResetIsComplete
    <3>3. QED
      BY <1>23, <3>1, <3>2 DEF Leave, Discards
  <2>2. QED
    BY <1>23, <2>1 DEF Leave
<1>24. ASSUME NEW t \in Threads, Unlock(t) PROVE CompleteInv'
  BY <1>24, <1>0 DEF Unlock
<1>25. ASSUME NEW t \in Threads, Return(t) PROVE CompleteInv'
  BY <1>25, <1>0 DEF Return
<1>26. ASSUME NEW t \in Threads, Cancel(t) PROVE CompleteInv'
  BY <1>26, <1>0 DEF Cancel
<1>27. ASSUME NEW t \in Threads, SetPaused(t) PROVE CompleteInv'
  BY <1>27, <1>0 DEF SetPaused
<1>28. ASSUME NEW t \in Threads, Expire(t) PROVE CompleteInv'
  BY <1>28, <1>0 DEF Expire
<1>29. ASSUME NEW p \in Callers, BeginRelease(p) PROVE CompleteInv'
  BY <1>29, <1>0 DEF BeginRelease
<1>30. ASSUME NEW p \in Callers, ReleaseTry(p) PROVE CompleteInv'
  <2>1. CASE UNCHANGED cacheVars
    BY <1>30, <2>1, <1>0 DEF ReleaseTry, ReleaseIdle, ReleaseBusy
  <2>2. CASE mutex = Free /\ cacheKey' = NoKey /\ loaded' = NoWeights
    <3>1. Complete'
      BY <2>2, ResetIsComplete
    <3>2. QED
      BY <1>30, <2>2, <3>1 DEF ReleaseTry, ReleaseIdle, ReleaseBusy
  <2>3. QED
    BY <1>30, <2>1, <2>2 DEF ReleaseTry, ReleaseIdle, ReleaseBusy
<1>31. ASSUME NEW f \in Files, Edit(f) PROVE CompleteInv'
  BY <1>31, <1>0 DEF Edit
<1>32. ASSUME UNCHANGED vars PROVE CompleteInv'
  BY <1>32, <1>0 DEF vars
<1>33. QED
  BY <1>1, <1>2, <1>3, <1>4, <1>5, <1>6, <1>7, <1>8, <1>9, <1>10, <1>11, <1>12,
     <1>13, <1>14, <1>15, <1>16, <1>17, <1>18, <1>19, <1>20, <1>21, <1>22, <1>23,
     <1>24, <1>25, <1>26, <1>27, <1>28, <1>29, <1>30, <1>31, <1>32 DEF Next, Progress

\* Every step keeps the bytes of an image between what was captured and the disk.
LEMMA UsedStep ==
    ASSUME EngineInv, [Next]_vars, TypeOK'
    PROVE  UsedInv'
<1> USE DEF EngineInv, TypeOK
<1>1. /\ \A f \in Files : version[f] <= version'[f]
      /\ version' \in [Files -> Nat]
  BY VersionsGrow
<1>2. ASSUME NEW t \in Threads, UsedAt(t)', \A u \in Threads \ {t} : UsedKept(u)
      PROVE  UsedInv'
  BY <1>1, <1>2, UsedFrame DEF UsedInv
<1>3. ASSUME NEW t \in Threads, Generate(t) PROVE UsedInv'
  <2>1. \A u \in Threads \ {t} : UsedKept(u)
    BY <1>3 DEF Generate, UsedKept
  <2>2. /\ pc[t] = "run" /\ pc'[t] = "verify" /\ outcome'[t] = "none"
        /\ UNCHANGED <<version, cacheKey, loaded, request, captured>>
    BY <1>3 DEF Generate, RequestInv
  <2>3. ASSUME NEW f \in Mounted(request[t].files), ~request[t].prepareOnly
        PROVE  Between(t, f)' /\ f \in todo'[t]
    <3>1. f \in Files /\ f \in request[t].files
      BY FilesOfRequest DEF Mounted, OfRole
    <3>2. used'[t][f] = loaded[f] /\ onDisk'[t][f] = version[f]
      BY <1>3, <3>1 DEF Generate
    <3>3. loaded[f] # {} /\ cacheKey[f] = captured[t][f] /\ captured[t][f] <= version[f]
      BY <2>2, <3>1, MountedIsHeld DEF Held, MountInv, CaptureInv
    <3>4. todo'[t] = request[t].files
      BY <1>3, <2>3 DEF Generate, FilesToVerify
    <3>5. QED
      BY <2>2, <3>1, <3>2, <3>3, <3>4 DEF Between, VersionInv
  <2>4. UsedAt(t)'
    BY <2>2, <2>3 DEF UsedAt
  <2>5. QED
    BY <1>2, <2>1, <2>4
<1>4. ASSUME NEW t \in Threads, NEW g \in Files, Verify(t, g) PROVE UsedInv'
  <2>1. \A u \in Threads \ {t} : UsedKept(u)
    BY <1>4 DEF Verify, UsedKept
  <2>2. /\ pc[t] = "verify" /\ pc'[t] = "verify" /\ outcome'[t] = "none"
        /\ UNCHANGED <<version, request, captured, used, onDisk>>
        /\ version[g] = captured[t][g] /\ todo'[t] = todo[t] \ {g}
    BY <1>4 DEF Verify, RequestInv
  <2>3. ASSUME NEW f \in Mounted(request[t].files), ~request[t].prepareOnly
        PROVE  Between(t, f)' /\ (f \notin todo'[t] => Same(t, f)')
    <3>1. f \in Files
      BY FilesOfRequest DEF Mounted, OfRole
    <3>2. Between(t, f) /\ (f \notin todo[t] => Same(t, f))
      BY <2>2, <2>3 DEF UsedInv, UsedAt
    <3>3. Between(t, f)' /\ (Same(t, f)' <=> Same(t, f))
      BY <2>2, <3>2 DEF Between, Same
    <3>4. f = g => Same(t, f)
      <4>1. /\ captured[t][f] \in Nat /\ version[f] \in Nat
            /\ onDisk[t][f] \in Nat /\ used[t][f] \in SUBSET Nat
        BY <3>1
      <4>2. /\ captured[t][f] <= onDisk[t][f] /\ onDisk[t][f] <= version[f]
            /\ \A v \in used[t][f] : captured[t][f] <= v /\ v <= version[f]
            /\ used[t][f] # {}
        BY <3>2 DEF Between
      <4>3. f = g => version[f] = captured[t][f]
        BY <2>2
      <4>4. QED
        BY <4>1, <4>2, <4>3, Squeeze DEF Same
    <3>5. QED
      BY <2>2, <3>2, <3>3, <3>4
  <2>4. UsedAt(t)'
    BY <2>2, <2>3 DEF UsedAt
  <2>5. QED
    BY <1>2, <2>1, <2>4
<1>5. ASSUME NEW t \in Threads, Succeed(t) PROVE UsedInv'
  <2>1. \A u \in Threads \ {t} : UsedKept(u)
    BY <1>5 DEF Succeed, UsedKept
  <2>2. /\ pc[t] = "verify" /\ todo[t] = {} /\ pc'[t] = "leave"
        /\ UNCHANGED <<request, used, onDisk>>
    BY <1>5 DEF Succeed
  <2>3. ASSUME NEW f \in Mounted(request[t].files), ~request[t].prepareOnly
        PROVE  Same(t, f)'
    <3>1. Same(t, f)
      BY <2>2, <2>3 DEF UsedInv, UsedAt
    <3>2. QED
      BY <2>2, <3>1 DEF Same
  <2>4. UsedAt(t)'
    BY <2>2, <2>3 DEF UsedAt
  <2>5. QED
    BY <1>2, <2>1, <2>4
<1> USE DEF UsedKept, RequestInv
<1>6. ASSUME NEW t \in Threads, Begin(t)
      PROVE  \A u \in Threads : UsedKept(u)
  BY <1>6 DEF Begin
<1>7. ASSUME NEW t \in Threads, NEW f \in Files, IdentifyEarly(t, f)
      PROVE  \A u \in Threads : UsedKept(u)
  BY <1>7 DEF IdentifyEarly
<1>8. ASSUME NEW t \in Threads, Reject(t)
      PROVE  \A u \in Threads : UsedKept(u)
  BY <1>8 DEF Reject
<1>9. ASSUME NEW t \in Threads, QueueUp(t)
      PROVE  \A u \in Threads : UsedKept(u)
  BY <1>9 DEF QueueUp
<1>10. ASSUME NEW t \in Threads, TryLock(t)
      PROVE  \A u \in Threads : UsedKept(u)
  BY <1>10 DEF TryLock
<1>11. ASSUME NEW t \in Threads, TryLockTimesOut(t)
      PROVE  \A u \in Threads : UsedKept(u)
  BY <1>11 DEF TryLockTimesOut
<1>12. ASSUME NEW t \in Threads, Retry(t)
      PROVE  \A u \in Threads : UsedKept(u)
  BY <1>12 DEF Retry
<1>13. ASSUME NEW t \in Threads, GiveUp(t)
      PROVE  \A u \in Threads : UsedKept(u)
  BY <1>13 DEF GiveUp
<1>14. ASSUME NEW t \in Threads, Enter(t)
      PROVE  \A u \in Threads : UsedKept(u)
  BY <1>14 DEF Enter
<1>15. ASSUME NEW t \in Threads, EnterStopped(t)
      PROVE  \A u \in Threads : UsedKept(u)
  BY <1>15 DEF EnterStopped
<1>16. ASSUME NEW t \in Threads, IdentifySource(t)
      PROVE  \A u \in Threads : UsedKept(u)
  BY <1>16 DEF IdentifySource
<1>17. ASSUME NEW t \in Threads, PrepareQ8(t)
      PROVE  \A u \in Threads : UsedKept(u)
  BY <1>17 DEF PrepareQ8
<1>18. ASSUME NEW t \in Threads, NEW f \in Files, IdentifyLate(t, f)
      PROVE  \A u \in Threads : UsedKept(u)
  BY <1>18 DEF IdentifyLate
<1>19. ASSUME NEW t \in Threads, Mount(t)
      PROVE  \A u \in Threads : UsedKept(u)
  BY <1>19 DEF Mount
<1>20. ASSUME NEW t \in Threads, NEW f \in Files, Load(t, f)
      PROVE  \A u \in Threads : UsedKept(u)
  BY <1>20 DEF Load
<1>21. ASSUME NEW t \in Threads, Prepared(t)
      PROVE  \A u \in Threads : UsedKept(u)
  BY <1>21 DEF Prepared
<1>22. ASSUME NEW t \in Threads, Loaded(t)
      PROVE  \A u \in Threads : UsedKept(u)
  BY <1>22 DEF Loaded
<1>23. ASSUME NEW t \in Threads, NEW f \in Files, PageIn(t, f)
      PROVE  \A u \in Threads : UsedKept(u)
  BY <1>23 DEF PageIn
<1>24. ASSUME NEW t \in Threads, Fail(t)
      PROVE  \A u \in Threads : UsedKept(u)
  BY <1>24 DEF Fail
<1>25. ASSUME NEW t \in Threads, Leave(t)
      PROVE  \A u \in Threads : UsedKept(u)
  BY <1>25 DEF Leave
<1>26. ASSUME NEW t \in Threads, Unlock(t)
      PROVE  \A u \in Threads : UsedKept(u)
  BY <1>26 DEF Unlock
<1>27. ASSUME NEW t \in Threads, Return(t)
      PROVE  \A u \in Threads : UsedKept(u)
  BY <1>27 DEF Return
<1>28. ASSUME NEW t \in Threads, Cancel(t)
      PROVE  \A u \in Threads : UsedKept(u)
  BY <1>28 DEF Cancel
<1>29. ASSUME NEW t \in Threads, SetPaused(t)
      PROVE  \A u \in Threads : UsedKept(u)
  BY <1>29 DEF SetPaused
<1>30. ASSUME NEW t \in Threads, Expire(t)
      PROVE  \A u \in Threads : UsedKept(u)
  BY <1>30 DEF Expire
<1>31. ASSUME NEW p \in Callers, BeginRelease(p) \/ ReleaseTry(p)
       PROVE  \A u \in Threads : UsedKept(u)
  BY <1>31 DEF BeginRelease, ReleaseTry, ReleaseIdle, ReleaseBusy
<1>32. ASSUME NEW f \in Files, Edit(f) PROVE \A u \in Threads : UsedKept(u)
  BY <1>32 DEF Edit
<1>33. CASE UNCHANGED vars
  <2>1. \A u \in Threads : UsedKept(u)
    BY <1>33 DEF vars
  <2>2. QED
    BY <1>1, <2>1, UsedFrame DEF UsedInv
<1>34. CASE \A u \in Threads : UsedKept(u)
  BY <1>1, <1>34, UsedFrame DEF UsedInv
<1>35. QED
  BY <1>3, <1>4, <1>5, <1>6, <1>7, <1>8, <1>9, <1>10, <1>11, <1>12, <1>13, <1>14, <1>15,
     <1>16, <1>17, <1>18, <1>19, <1>20, <1>21, <1>22, <1>23, <1>24, <1>25, <1>26, <1>27,
     <1>28, <1>29, <1>30, <1>31, <1>32, <1>33, <1>34 DEF Next, Progress

\* The inductive invariant holds at first.
LEMMA EngineInvInit == Init => EngineInv
<1> SUFFICES ASSUME Init PROVE EngineInv
  OBVIOUS
<1> USE EngineAssumption DEF Init, NoKey, NoWeights
<1>1. TypeOK
  BY InitType
<1>2. LockInv /\ RequestInv /\ VersionInv /\ MountInv
  BY DEF LockInv, RequestInv, VersionInv, MountInv, HoldPcs, UsePcs, NoRequest
<1>3. CaptureInv
  BY DEF CaptureInv
<1>4. Complete
  BY DEF Complete, Held, KeyFiles, Mounted, OfRole
<1>5. CompleteInv
  BY <1>4 DEF CompleteInv
<1>6. UsedInv
  BY DEF UsedInv, UsedAt
<1>7. QED
  BY <1>1, <1>2, <1>3, <1>5, <1>6 DEF EngineInv

\* Every step keeps the inductive invariant.
LEMMA EngineInvStep == EngineInv /\ [Next]_vars => EngineInv'
<1> SUFFICES ASSUME EngineInv, [Next]_vars PROVE EngineInv'
  OBVIOUS
<1>1. TypeOK'
  BY NextType DEF EngineInv
<1>2. QED
  BY <1>1, LockStep, RequestStep, VersionStep, CaptureStep, MountStep, CompleteStep, UsedStep
  DEF EngineInv

\* The inductive invariant holds always.
LEMMA EngineInvHolds == Spec => []EngineInv
  BY EngineInvInit, EngineInvStep, PTL DEF Spec

\* A returned image was made from weights that were all on disk at one moment.
THEOREM EngineImageIsOneSnapshot == Spec => []ImageIsOneSnapshot
<1>1. EngineInv => ImageIsOneSnapshot
  BY DEF EngineInv, UsedInv, UsedAt, Same, ImageIsOneSnapshot
<1>2. QED
  BY <1>1, EngineInvHolds, PTL

\* What is resident while the engine is free is a complete assembly of its key.
THEOREM EngineResidentIsComplete == Spec => []ResidentIsComplete
<1>1. EngineInv => ResidentIsComplete
  BY DEF EngineInv, CompleteInv, Complete, Held, KeyFiles, ResidentIsComplete
<1>2. QED
  BY <1>1, EngineInvHolds, PTL

-----------------------------------------------------------------------------
(***************************************************************************)
(* Releases.  A release that finds a request at work changes the epoch the *)
(* request has noted, so the request drops the contexts when it leaves.    *)
(***************************************************************************)
Owed(t) == mutex = t /\ pc[t] \in UsePcs /\ usedEpoch[t] < epoch

ReleaseInv ==
    /\ \A t \in Threads : usedEpoch[t] <= epoch
    /\ deferred = "inUse" => \E t \in Threads : Owed(t)
    /\ \A t \in trying : t \in Threads =>
          pc[t] = "idle" \/ (pc[t] = "identify" /\ todo[t] = {})

\* What the waits and the steps of one thread owe to the other callers.
LEMMA ReleaseStep ==
    ASSUME EngineInv, ReleaseInv, [Next]_vars
    PROVE  ReleaseInv'
<1> USE EngineAssumption
    DEF EngineInv, TypeOK, LockInv, WaitPcs, HoldPcs, UsePcs, ReleaseInv, Owed, Active
<1>1. ASSUME NEW t \in Threads, Begin(t) PROVE ReleaseInv'
  BY <1>1 DEF Begin
<1>2. ASSUME NEW t \in Threads, NEW f \in Files, IdentifyEarly(t, f) PROVE ReleaseInv'
  BY <1>2 DEF IdentifyEarly
<1>3. ASSUME NEW t \in Threads, Reject(t) PROVE ReleaseInv'
  BY <1>3 DEF Reject
<1>4. ASSUME NEW t \in Threads, QueueUp(t) PROVE ReleaseInv'
  BY <1>4 DEF QueueUp
<1>5. ASSUME NEW t \in Threads, TryLock(t) PROVE ReleaseInv'
  BY <1>5 DEF TryLock
<1>6. ASSUME NEW t \in Threads, TryLockTimesOut(t) PROVE ReleaseInv'
  BY <1>6 DEF TryLockTimesOut
<1>7. ASSUME NEW t \in Threads, Retry(t) PROVE ReleaseInv'
  BY <1>7 DEF Retry
<1>8. ASSUME NEW t \in Threads, GiveUp(t) PROVE ReleaseInv'
  BY <1>8 DEF GiveUp
<1>9. ASSUME NEW t \in Threads, Enter(t) PROVE ReleaseInv'
  BY <1>9 DEF Enter
<1>10. ASSUME NEW t \in Threads, EnterStopped(t) PROVE ReleaseInv'
  BY <1>10 DEF EnterStopped
<1>11. ASSUME NEW t \in Threads, IdentifySource(t) PROVE ReleaseInv'
  BY <1>11 DEF IdentifySource
<1>12. ASSUME NEW t \in Threads, PrepareQ8(t) PROVE ReleaseInv'
  BY <1>12 DEF PrepareQ8
<1>13. ASSUME NEW t \in Threads, NEW f \in Files, IdentifyLate(t, f) PROVE ReleaseInv'
  BY <1>13 DEF IdentifyLate
<1>14. ASSUME NEW t \in Threads, Mount(t) PROVE ReleaseInv'
  BY <1>14 DEF Mount
<1>15. ASSUME NEW t \in Threads, NEW f \in Files, Load(t, f) PROVE ReleaseInv'
  BY <1>15 DEF Load
<1>16. ASSUME NEW t \in Threads, Prepared(t) PROVE ReleaseInv'
  BY <1>16 DEF Prepared
<1>17. ASSUME NEW t \in Threads, Loaded(t) PROVE ReleaseInv'
  BY <1>17 DEF Loaded
<1>18. ASSUME NEW t \in Threads, NEW f \in Files, PageIn(t, f) PROVE ReleaseInv'
  BY <1>18 DEF PageIn
<1>19. ASSUME NEW t \in Threads, Generate(t) PROVE ReleaseInv'
  BY <1>19 DEF Generate
<1>20. ASSUME NEW t \in Threads, NEW f \in Files, Verify(t, f) PROVE ReleaseInv'
  BY <1>20 DEF Verify
<1>21. ASSUME NEW t \in Threads, Succeed(t) PROVE ReleaseInv'
  BY <1>21 DEF Succeed
<1>22. ASSUME NEW t \in Threads, Fail(t) PROVE ReleaseInv'
  BY <1>22 DEF Fail
<1>23. ASSUME NEW t \in Threads, Leave(t) PROVE ReleaseInv'
  BY <1>23 DEF Leave, Discards
<1>24. ASSUME NEW t \in Threads, Unlock(t) PROVE ReleaseInv'
  BY <1>24 DEF Unlock
<1>25. ASSUME NEW t \in Threads, Return(t) PROVE ReleaseInv'
  BY <1>25 DEF Return
<1>26. ASSUME NEW t \in Threads, Cancel(t) PROVE ReleaseInv'
  BY <1>26 DEF Cancel
<1>27. ASSUME NEW t \in Threads, SetPaused(t) PROVE ReleaseInv'
  BY <1>27 DEF SetPaused
<1>28. ASSUME NEW t \in Threads, Expire(t) PROVE ReleaseInv'
  BY <1>28 DEF Expire
<1>29. ASSUME NEW p \in Callers, BeginRelease(p) PROVE ReleaseInv'
  BY <1>29 DEF BeginRelease, MayCallRelease, OwnsEngine, InUse
<1>30. ASSUME NEW p \in Callers, ReleaseTry(p) PROVE ReleaseInv'
  BY <1>30 DEF ReleaseTry, ReleaseIdle, ReleaseBusy
<1>31. ASSUME NEW f \in Files, Edit(f) PROVE ReleaseInv'
  BY <1>31 DEF Edit
<1>32. ASSUME UNCHANGED vars PROVE ReleaseInv'
  BY <1>32 DEF vars
<1>33. QED
  BY <1>1, <1>2, <1>3, <1>4, <1>5, <1>6, <1>7, <1>8, <1>9, <1>10, <1>11, <1>12,
     <1>13, <1>14, <1>15, <1>16, <1>17, <1>18, <1>19, <1>20, <1>21, <1>22, <1>23,
     <1>24, <1>25, <1>26, <1>27, <1>28, <1>29, <1>30, <1>31, <1>32 DEF Next, Progress

\* A release that came during a use of the engine is owed by its owner until it is served.
LEMMA ReleaseInvHolds == Spec => []ReleaseInv
<1>1. Init => ReleaseInv
  BY DEF Init, ReleaseInv
<1>2. EngineInv /\ ReleaseInv /\ [Next]_vars => ReleaseInv'
  BY ReleaseStep
<1>3. QED
  BY <1>1, <1>2, EngineInvHolds, PTL DEF Spec

\* A release that finds a request at work is served before the engine is free.
THEOREM EngineServesReleaseInUse == Spec => []ReleaseInUseIsServed
<1>1. ReleaseInv => ReleaseInUseIsServed
  BY DEF ReleaseInv, Owed, ReleaseInUseIsServed, InUse
<1>2. QED
  BY <1>1, ReleaseInvHolds, PTL

\* No thread tries the lock it owns.
THEOREM EngineNoRecursiveLock == Spec => []NoRecursiveLock
<1>1. EngineInv /\ ReleaseInv => NoRecursiveLock
  <2> SUFFICES ASSUME EngineInv, ReleaseInv, NEW p \in trying PROVE mutex # p
    BY DEF NoRecursiveLock
  <2>1. CASE p \in Threads
    BY <2>1 DEF EngineInv, LockInv, ReleaseInv, HoldPcs, UsePcs
  <2>2. CASE p = External
    BY <2>2, EngineAssumption DEF EngineInv, TypeOK
  <2>3. QED
    BY <2>1, <2>2 DEF EngineInv, TypeOK, Callers
<1>2. QED
  BY <1>1, EngineInvHolds, ReleaseInvHolds, PTL

-----------------------------------------------------------------------------
(***************************************************************************)
(* Who changes the contexts.  Every step that changes them is a step of    *)
(* the owner in a phase of its request, or is taken while nobody owns the  *)
(* engine.                                                                 *)
(***************************************************************************)
OwnerOnly == \A t \in Threads : mutex = t /\ mutex' = t =>
    \/ UNCHANGED cacheVars
    \/ pc[t] \in {"prepare", "assets", "load", "run", "leave"}
       /\ UNCHANGED <<trying, epoch>>

\* A step across which the owner stays the owner changes the contexts in its phases only.
LEMMA OwnerStep ==
    ASSUME EngineInv, [Next]_vars
    PROVE  OwnerOnly
<1> USE EngineAssumption DEF EngineInv, LockInv, HoldPcs, UsePcs, OwnerOnly
<1>1. ASSUME NEW t \in Threads, Begin(t) PROVE OwnerOnly
  BY <1>1 DEF Begin
<1>2. ASSUME NEW t \in Threads, NEW f \in Files, IdentifyEarly(t, f) PROVE OwnerOnly
  BY <1>2 DEF IdentifyEarly
<1>3. ASSUME NEW t \in Threads, Reject(t) PROVE OwnerOnly
  BY <1>3 DEF Reject
<1>4. ASSUME NEW t \in Threads, QueueUp(t) PROVE OwnerOnly
  BY <1>4 DEF QueueUp
<1>5. ASSUME NEW t \in Threads, TryLock(t) PROVE OwnerOnly
  BY <1>5 DEF TryLock
<1>6. ASSUME NEW t \in Threads, TryLockTimesOut(t) PROVE OwnerOnly
  BY <1>6 DEF TryLockTimesOut
<1>7. ASSUME NEW t \in Threads, Retry(t) PROVE OwnerOnly
  BY <1>7 DEF Retry
<1>8. ASSUME NEW t \in Threads, GiveUp(t) PROVE OwnerOnly
  BY <1>8 DEF GiveUp
<1>9. ASSUME NEW t \in Threads, Enter(t) PROVE OwnerOnly
  BY <1>9 DEF Enter
<1>10. ASSUME NEW t \in Threads, EnterStopped(t) PROVE OwnerOnly
  BY <1>10 DEF EnterStopped
<1>11. ASSUME NEW t \in Threads, IdentifySource(t) PROVE OwnerOnly
  BY <1>11 DEF IdentifySource
<1>12. ASSUME NEW t \in Threads, PrepareQ8(t) PROVE OwnerOnly
  BY <1>12 DEF PrepareQ8
<1>13. ASSUME NEW t \in Threads, NEW f \in Files, IdentifyLate(t, f) PROVE OwnerOnly
  BY <1>13 DEF IdentifyLate
<1>14. ASSUME NEW t \in Threads, Mount(t) PROVE OwnerOnly
  BY <1>14 DEF Mount
<1>15. ASSUME NEW t \in Threads, NEW f \in Files, Load(t, f) PROVE OwnerOnly
  BY <1>15 DEF Load
<1>16. ASSUME NEW t \in Threads, Prepared(t) PROVE OwnerOnly
  BY <1>16 DEF Prepared
<1>17. ASSUME NEW t \in Threads, Loaded(t) PROVE OwnerOnly
  BY <1>17 DEF Loaded
<1>18. ASSUME NEW t \in Threads, NEW f \in Files, PageIn(t, f) PROVE OwnerOnly
  BY <1>18 DEF PageIn
<1>19. ASSUME NEW t \in Threads, Generate(t) PROVE OwnerOnly
  BY <1>19 DEF Generate
<1>20. ASSUME NEW t \in Threads, NEW f \in Files, Verify(t, f) PROVE OwnerOnly
  BY <1>20 DEF Verify
<1>21. ASSUME NEW t \in Threads, Succeed(t) PROVE OwnerOnly
  BY <1>21 DEF Succeed
<1>22. ASSUME NEW t \in Threads, Fail(t) PROVE OwnerOnly
  BY <1>22 DEF Fail
<1>23. ASSUME NEW t \in Threads, Leave(t) PROVE OwnerOnly
  BY <1>23 DEF Leave
<1>24. ASSUME NEW t \in Threads, Unlock(t) PROVE OwnerOnly
  BY <1>24 DEF Unlock
<1>25. ASSUME NEW t \in Threads, Return(t) PROVE OwnerOnly
  BY <1>25 DEF Return
<1>26. ASSUME NEW t \in Threads, Cancel(t) PROVE OwnerOnly
  BY <1>26 DEF Cancel
<1>27. ASSUME NEW t \in Threads, SetPaused(t) PROVE OwnerOnly
  BY <1>27 DEF SetPaused
<1>28. ASSUME NEW t \in Threads, Expire(t) PROVE OwnerOnly
  BY <1>28 DEF Expire
<1>29. ASSUME NEW p \in Callers, BeginRelease(p) PROVE OwnerOnly
  BY <1>29 DEF BeginRelease
<1>30. ASSUME NEW p \in Callers, ReleaseTry(p) PROVE OwnerOnly
  BY <1>30 DEF ReleaseTry, ReleaseIdle, ReleaseBusy
<1>31. ASSUME NEW f \in Files, Edit(f) PROVE OwnerOnly
  BY <1>31 DEF Edit
<1>32. ASSUME UNCHANGED vars PROVE OwnerOnly
  BY <1>32 DEF vars
<1>33. QED
  BY <1>1, <1>2, <1>3, <1>4, <1>5, <1>6, <1>7, <1>8, <1>9, <1>10, <1>11, <1>12,
     <1>13, <1>14, <1>15, <1>16, <1>17, <1>18, <1>19, <1>20, <1>21, <1>22, <1>23,
     <1>24, <1>25, <1>26, <1>27, <1>28, <1>29, <1>30, <1>31, <1>32 DEF Next,
     Progress

\* Nobody but the owner of the engine changes the contexts while it is owned.
THEOREM EngineOnlyOwnerChangesCache == Spec => OnlyOwnerChangesCache
<1>1. EngineInv /\ [Next]_vars => [OwnerOnly]_vars
  BY OwnerStep
<1>2. QED
  BY <1>1, EngineInvHolds, PTL DEF Spec, OnlyOwnerChangesCache, OwnerOnly

-----------------------------------------------------------------------------
(***************************************************************************)
(* The model of the resident context.  Both verifications read the model   *)
(* file again, so a use that succeeds leaves the state its key names.      *)
(***************************************************************************)
Models == OfRole(Files, {"model"})
Matches(f) == loaded[f] \subseteq {cacheKey[f]}

ModelInv ==
    /\ mutex = Free => \A f \in Models : Matches(f)
    /\ \A t \in Threads :
          /\ pc[t] \in {"entered", "source", "prepare", "assets", "unlock"} =>
                \A f \in Models : Matches(f)
          /\ pc[t] = "verify" => \A f \in Models \ todo[t] : Matches(f)
          /\ pc[t] = "leave" /\ outcome[t] = "ok" => \A f \in Models : Matches(f)

\* A model the request does not use is not resident once the request has mounted.
LEMMA OtherModels ==
    ASSUME EngineInv, NEW t \in Threads, pc[t] \in {"load", "run"},
           pc[t] = "load" => todo[t] = {},
           NEW f \in Models, f \notin request[t].files
    PROVE  Matches(f)
<1>1. f \in Files /\ Role[f] = "model"
  BY DEF Models, OfRole
<1>2. cacheKey[f] = 0
  BY <1>1 DEF EngineInv, MountInv, CaptureInv
<1>3. Held = Mounted(KeyFiles)
  BY DEF EngineInv, CompleteInv, Complete
<1>4. f \notin Held
  BY <1>2, <1>3 DEF Mounted, KeyFiles, OfRole
<1>5. QED
  BY <1>1, <1>4 DEF Held, Matches

\* Whatever is verified, the request's model is.
LEMMA ModelIsVerified ==
    ASSUME TypeOK, NEW t \in Threads, NEW f \in Models, f \in request[t].files
    PROVE  f \in FilesToVerify(request[t])
  BY DEF Models, OfRole, FilesToVerify

\* Numbers between a number and itself.
LEMMA Pinned ==
    ASSUME NEW a \in Nat, NEW S \in SUBSET Nat,
           \A v \in S : a <= v /\ v <= a
    PROVE  S \subseteq {a}
  OBVIOUS

\* Every step keeps the model's bytes as the key names them, where that is known.
LEMMA ModelStep ==
    ASSUME EngineInv, ModelInv, [Next]_vars
    PROVE  ModelInv'
<1> USE EngineAssumption
    DEF EngineInv, TypeOK, LockInv, WaitPcs, HoldPcs, UsePcs, ModelInv, Matches
<1>1. ASSUME NEW t \in Threads, Begin(t) PROVE ModelInv'
  BY <1>1 DEF Begin
<1>2. ASSUME NEW t \in Threads, NEW f \in Files, IdentifyEarly(t, f) PROVE ModelInv'
  BY <1>2 DEF IdentifyEarly
<1>3. ASSUME NEW t \in Threads, Reject(t) PROVE ModelInv'
  BY <1>3 DEF Reject
<1>4. ASSUME NEW t \in Threads, QueueUp(t) PROVE ModelInv'
  BY <1>4 DEF QueueUp
<1>5. ASSUME NEW t \in Threads, TryLock(t) PROVE ModelInv'
  BY <1>5 DEF TryLock
<1>6. ASSUME NEW t \in Threads, TryLockTimesOut(t) PROVE ModelInv'
  BY <1>6 DEF TryLockTimesOut
<1>7. ASSUME NEW t \in Threads, Retry(t) PROVE ModelInv'
  BY <1>7 DEF Retry
<1>8. ASSUME NEW t \in Threads, GiveUp(t) PROVE ModelInv'
  BY <1>8 DEF GiveUp
<1>9. ASSUME NEW t \in Threads, Enter(t) PROVE ModelInv'
  BY <1>9 DEF Enter
<1>10. ASSUME NEW t \in Threads, EnterStopped(t) PROVE ModelInv'
  BY <1>10 DEF EnterStopped
<1>11. ASSUME NEW t \in Threads, IdentifySource(t) PROVE ModelInv'
  BY <1>11 DEF IdentifySource
<1>12. ASSUME NEW t \in Threads, PrepareQ8(t) PROVE ModelInv'
  BY <1>12 DEF PrepareQ8, NoWeights, Models, OfRole
<1>13. ASSUME NEW t \in Threads, NEW f \in Files, IdentifyLate(t, f) PROVE ModelInv'
  BY <1>13 DEF IdentifyLate
<1>14. ASSUME NEW t \in Threads, Mount(t) PROVE ModelInv'
  BY <1>14 DEF Mount
<1>15. ASSUME NEW t \in Threads, NEW f \in Files, Load(t, f) PROVE ModelInv'
  BY <1>15 DEF Load
<1>16. ASSUME NEW t \in Threads, Prepared(t) PROVE ModelInv'
  <2>1. todo' = [todo EXCEPT ![t] = FilesToVerify(request[t])]
    BY <1>16 DEF Prepared
  <2>2. ASSUME NEW f \in Models \ todo'[t] PROVE Matches(f)
    <3>1. f \notin request[t].files
      BY <2>1, <2>2, ModelIsVerified
    <3>2. QED
      BY <1>16, <2>2, <3>1, OtherModels DEF Prepared
  <2>3. QED
    BY <1>16, <2>2 DEF Prepared
<1>17. ASSUME NEW t \in Threads, Loaded(t) PROVE ModelInv'
  BY <1>17 DEF Loaded
<1>18. ASSUME NEW t \in Threads, NEW f \in Files, PageIn(t, f) PROVE ModelInv'
  BY <1>18 DEF PageIn
<1>19. ASSUME NEW t \in Threads, Generate(t) PROVE ModelInv'
  <2>1. todo' = [todo EXCEPT ![t] = FilesToVerify(request[t])]
    BY <1>19 DEF Generate
  <2>2. ASSUME NEW f \in Models \ todo'[t] PROVE Matches(f)
    <3>1. f \notin request[t].files
      BY <2>1, <2>2, ModelIsVerified
    <3>2. QED
      BY <1>19, <2>2, <3>1, OtherModels DEF Generate
  <2>3. QED
    BY <1>19, <2>2 DEF Generate
<1>20. ASSUME NEW t \in Threads, NEW f \in Files, Verify(t, f) PROVE ModelInv'
  <2>1. loaded' = loaded /\ cacheKey' = cacheKey /\ pc' = pc /\ mutex' = mutex
        /\ todo' = [todo EXCEPT ![t] = @ \ {f}] /\ pc[t] = "verify" /\ f \in todo[t]
        /\ outcome' = outcome
    BY <1>20 DEF Verify
  <2>2. cacheKey[f] = version[f] \/ f \notin Models
    BY <1>20, <2>1 DEF Verify, MountInv, RequestInv, Models, OfRole
  <2>3. ASSUME f \in Models PROVE Matches(f)
    <3>1. cacheKey[f] \in Nat /\ loaded[f] \subseteq Nat
      BY DEF TypeOK
    <3>2. cacheKey[f] = version[f]
      BY <2>2, <2>3
    <3>3. \A v \in loaded[f] : cacheKey[f] <= v /\ v <= cacheKey[f]
      BY <3>2 DEF VersionInv
    <3>4. loaded[f] \subseteq {cacheKey[f]}
      BY ONLY <3>1, <3>3, Pinned
    <3>5. QED
      BY <3>4 DEF Matches
  <2>4. \A g \in Files : Matches(g)' = Matches(g)
    BY <2>1 DEF Matches
  <2>5. todo'[t] = todo[t] \ {f} /\ \A u \in Threads \ {t} : todo'[u] = todo[u]
    BY <2>1
  <2>6. \A g \in Models \ todo'[t] : Matches(g)'
    <3>1. \A g \in Models \ todo[t] : Matches(g)
      BY <2>1 DEF ModelInv
    <3>2. Models \subseteq Files
      BY DEF Models, OfRole
    <3>3. QED
      BY <2>3, <2>4, <2>5, <3>1, <3>2
  <2>7. \A u \in Threads \ {t} : pc'[u] = pc[u] /\ outcome'[u] = outcome[u]
                                 /\ mutex # u
    BY <2>1
  <2>8. mutex' # Free
    BY <2>1
  <2>9. QED
    BY <2>1, <2>6, <2>7, <2>8
<1>21. ASSUME NEW t \in Threads, Succeed(t) PROVE ModelInv'
  BY <1>21 DEF Succeed
<1>22. ASSUME NEW t \in Threads, Fail(t) PROVE ModelInv'
  BY <1>22 DEF Fail
<1>23. ASSUME NEW t \in Threads, Leave(t) PROVE ModelInv'
  BY <1>23 DEF Leave, Discards, NoWeights, Models, OfRole
<1>24. ASSUME NEW t \in Threads, Unlock(t) PROVE ModelInv'
  BY <1>24 DEF Unlock
<1>25. ASSUME NEW t \in Threads, Return(t) PROVE ModelInv'
  BY <1>25 DEF Return
<1>26. ASSUME NEW t \in Threads, Cancel(t) PROVE ModelInv'
  BY <1>26 DEF Cancel
<1>27. ASSUME NEW t \in Threads, SetPaused(t) PROVE ModelInv'
  BY <1>27 DEF SetPaused
<1>28. ASSUME NEW t \in Threads, Expire(t) PROVE ModelInv'
  BY <1>28 DEF Expire
<1>29. ASSUME NEW p \in Callers, BeginRelease(p) PROVE ModelInv'
  BY <1>29 DEF BeginRelease
<1>30. ASSUME NEW p \in Callers, ReleaseTry(p) PROVE ModelInv'
  BY <1>30 DEF ReleaseTry, ReleaseIdle, ReleaseBusy, NoWeights, Models, OfRole
<1>31. ASSUME NEW f \in Files, Edit(f) PROVE ModelInv'
  BY <1>31 DEF Edit
<1>32. ASSUME UNCHANGED vars PROVE ModelInv'
  BY <1>32 DEF vars
<1>33. QED
  BY <1>1, <1>2, <1>3, <1>4, <1>5, <1>6, <1>7, <1>8, <1>9, <1>10, <1>11, <1>12,
     <1>13, <1>14, <1>15, <1>16, <1>17, <1>18, <1>19, <1>20, <1>21, <1>22, <1>23,
     <1>24, <1>25, <1>26, <1>27, <1>28, <1>29, <1>30, <1>31, <1>32 DEF Next,
     Progress

\* The model of a context that is resident while the engine is free is the one
\* its key names, also after a preparation.
THEOREM EngineResidentModelMatchesKey == Spec => []ResidentModelMatchesKey
<1>1. Init => ModelInv
  BY DEF Init, ModelInv, Matches, Models, OfRole, NoWeights
<1>2. EngineInv /\ ModelInv /\ [Next]_vars => ModelInv'
  BY ModelStep
<1>3. ModelInv => ResidentModelMatchesKey
  BY DEF ModelInv, Matches, Models, ResidentModelMatchesKey
<1>4. QED
  BY <1>1, <1>2, <1>3, EngineInvHolds, PTL DEF Spec
=============================================================================
