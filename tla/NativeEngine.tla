---------------------------- MODULE NativeEngine ----------------------------
(***************************************************************************)
(* The process-wide native image engine (src/src/Generation/               *)
(* NativeDiffusion.cpp).  One EngineCache keeps the last successful model  *)
(* context; requests run nativeImage() on their callers' threads and are   *)
(* serialised by the cache's timed mutex.  Around them three things happen *)
(* without the lock: weight files are replaced on disk, requests are       *)
(* paused, cancelled or time out, and releaseNativeDiffusionCache() asks   *)
(* for the resident weights to be dropped.                                 *)
(*                                                                         *)
(* A weight file is identified by its metadata (path, size, mtime, inode,  *)
(* ctime); the model gives every state a file has been in a number that    *)
(* never comes back.  Version 0 is "no identity".                          *)
(***************************************************************************)
EXTENDS Naturals, FiniteSets

CONSTANTS
    Threads,     \* the threads that call the engine
    Controlled,  \* the threads whose requests carry a NativeExecutionControl
    External,    \* a caller of release that runs no request
    Files,       \* weight files
    Role,        \* what a request uses each file for
    Requests,    \* the requests callers make
    Free,        \* the mutex is not held
    MaxVersion,  \* bound: states of one file
    MaxEpoch     \* bound: calls of release

\* "model" is request.modelPath; "late" files are the VAE, text encoder, LoRAs
\* and default embeddings, identified under the lock; "q8" is the prepared copy
\* of the model; "early" files are components, embeddings, ControlNets, upscaler
\* and detailer, identified before the lock is asked for, as are the
\* IP-Adapters ("ip") and the refiner checkpoint ("refiner").
Roles == {"model", "q8", "late", "early", "ip", "refiner"}
EarlyRoles == {"early", "ip", "refiner"}

OfRole(files, roles) == {f \in files : Role[f] \in roles}

\* A prepared copy is loaded instead of the model it was converted from.
Mounted(files) ==
    IF OfRole(files, {"q8"}) = {} THEN files ELSE files \ OfRole(files, {"model"})

Callers == Threads \cup {External}

NoRequest == [files |-> {}, prepareOnly |-> FALSE]

ASSUME EngineAssumption ==
    /\ Free \notin Threads
    /\ External \notin Threads /\ External # Free
    /\ Controlled \subseteq Threads
    /\ Role \in [Files -> Roles]
    /\ Requests \subseteq [files : SUBSET Files, prepareOnly : BOOLEAN]
    /\ \A r \in Requests : \E m \in Files : OfRole(r.files, {"model"}) = {m}
    /\ MaxVersion \in Nat
    /\ MaxEpoch \in Nat

VARIABLES
    version,    \* file -> the state it is in on disk
    mutex,      \* EngineCache::mutex: its owner, or Free
    cacheKey,   \* EngineCache::identity, ipIdentity and refinerIdentity, by file
    loaded,     \* file -> the versions whose bytes the resident contexts hold
    epoch,      \* EngineCache::releaseEpoch
    trying,     \* callers of release between the increment and try_to_lock
    deferred,   \* history: a release found residency it could not drop
    pc,         \* where each thread is in nativeImage()
    request,    \* the request each thread runs
    captured,   \* the identities the request has taken, by file
    todo,       \* the files the request's current phase still has to visit
    usedEpoch,  \* CacheUse::epoch
    used,       \* history: the weights the finished image was made from
    onDisk,     \* history: what was on disk when the image was finished
    outcome,    \* the NativeGenerationResult so far
    cancelled,  \* the request's cancellation flag
    paused,     \* NativeExecutionControl::m_paused
    expired     \* the request's unpaused time has reached its timeout

cacheVars   == <<cacheKey, loaded>>
releaseVars == <<epoch, trying, deferred>>
imageVars   == <<used, onDisk>>
flagVars    == <<cancelled, paused, expired>>
workVars    == <<request, captured, todo, usedEpoch, outcome>>
vars == <<version, mutex, cacheVars, releaseVars, pc, workVars, imageVars, flagVars>>

\* Line ranges of NativeDiffusion.cpp between two of its waits.
WaitPcs == {"idle", "identify", "try", "poll", "done"}
UsePcs  == {"source", "prepare", "assets", "load", "run", "verify", "leave"}
HoldPcs == {"entered", "unlock"} \cup UsePcs
Pcs     == WaitPcs \cup HoldPcs

NoKey     == [f \in Files |-> 0]
NoWeights == [f \in Files |-> {}]

Resident == \E f \in Files : loaded[f] # {}
InUse    == \E t \in Threads : mutex = t /\ pc[t] \in UsePcs

Init ==
    /\ version = [f \in Files |-> 1]
    /\ mutex = Free
    /\ cacheKey = NoKey
    /\ loaded = NoWeights
    /\ epoch = 0
    /\ trying = {}
    /\ deferred = "no"
    /\ pc = [t \in Threads |-> "idle"]
    /\ request = [t \in Threads |-> NoRequest]
    /\ captured = [t \in Threads |-> NoKey]
    /\ todo = [t \in Threads |-> {}]
    /\ usedEpoch = [t \in Threads |-> 0]
    /\ used = [t \in Threads |-> NoWeights]
    /\ onDisk = [t \in Threads |-> NoKey]
    /\ outcome = [t \in Threads |-> "none"]
    /\ cancelled = [t \in Threads |-> FALSE]
    /\ paused = [t \in Threads |-> FALSE]
    /\ expired = [t \in Threads |-> FALSE]

-----------------------------------------------------------------------------
(***************************************************************************)
(* Shared pieces of the steps.                                             *)
(***************************************************************************)
Goto(t, to) == pc' = [pc EXCEPT ![t] = to]

Visit(t, f) == todo' = [todo EXCEPT ![t] = @ \ {f}]

Capture(t, f) == captured' = [captured EXCEPT ![t][f] = version[f]]

\* Mutants: waiting without the flag, and an outcome of its own for the timeout.
RunnableUnlessPaused(t) == ~paused[t]
StopWithTimeout(t) ==
    outcome' = [outcome EXCEPT ![t] = IF cancelled[t] THEN "cancelled"
                                      ELSE IF expired[t] THEN "expired" ELSE "error"]

\* waitUntilRunnable() returns once the request is not paused, or is cancelled.
Runnable(t) == ~paused[t] \/ cancelled[t]

Stopped(t) == cancelled[t] \/ expired[t]

\* The catch clause and the early returns: cancellation is reported first.
StopWith(t) ==
    outcome' = [outcome EXCEPT ![t] = IF cancelled[t] THEN "cancelled" ELSE "error"]

\* Mutant: the key outlives the contexts.
ResetContexts ==
    /\ loaded' = NoWeights
    /\ deferred' = "no"
    /\ UNCHANGED cacheKey

\* EngineCache::reset().  A release it serves is no longer owed.
ResetCache ==
    /\ cacheKey' = NoKey
    /\ loaded' = NoWeights
    /\ deferred' = "no"

\* The thread is a caller of release itself until that call has returned.
Active(t) == t \notin trying

-----------------------------------------------------------------------------
(***************************************************************************)
(* Before the lock: validation, and the identities taken early.            *)
(***************************************************************************)
Begin(t) ==
    /\ pc[t] = "idle" /\ Active(t)
    /\ \E r \in Requests :
          /\ request' = [request EXCEPT ![t] = r]
          /\ todo' = [todo EXCEPT ![t] = OfRole(r.files, EarlyRoles)]
    /\ Goto(t, "identify")
    /\ UNCHANGED <<version, mutex, cacheVars, releaseVars, captured, usedEpoch,
                   outcome, imageVars, flagVars>>

IdentifyEarly(t, f) ==
    /\ pc[t] = "identify" /\ f \in todo[t]
    /\ Capture(t, f)
    /\ Visit(t, f)
    /\ UNCHANGED <<version, mutex, cacheVars, releaseVars, pc, request, usedEpoch,
                   outcome, imageVars, flagVars>>

\* Invalid parameters, a missing file, or a flag that is already set.
Reject(t) ==
    /\ pc[t] = "identify" /\ Active(t)
    /\ StopWith(t)
    /\ Goto(t, "done")
    /\ UNCHANGED <<version, mutex, cacheVars, releaseVars, request, captured, todo,
                   usedEpoch, imageVars, flagVars>>

QueueUp(t) ==
    /\ pc[t] = "identify" /\ todo[t] = {} /\ Active(t)
    /\ Goto(t, "try")
    /\ UNCHANGED <<version, mutex, cacheVars, releaseVars, workVars, imageVars, flagVars>>

-----------------------------------------------------------------------------
(***************************************************************************)
(* The lock loop: try_lock_for(20ms), wait while paused, look at the flags.*)
(***************************************************************************)
TryLock(t) ==
    /\ pc[t] = "try"
    /\ mutex = Free
    /\ mutex' = t
    /\ Goto(t, "entered")
    /\ UNCHANGED <<version, cacheVars, releaseVars, workVars, imageVars, flagVars>>

TryLockTimesOut(t) ==
    /\ pc[t] = "try"
    /\ mutex # Free
    /\ Goto(t, "poll")
    /\ UNCHANGED <<version, mutex, cacheVars, releaseVars, workVars, imageVars, flagVars>>

Retry(t) ==
    /\ pc[t] = "poll" /\ Runnable(t) /\ ~Stopped(t)
    /\ Goto(t, "try")
    /\ UNCHANGED <<version, mutex, cacheVars, releaseVars, workVars, imageVars, flagVars>>

GiveUp(t) ==
    /\ pc[t] = "poll" /\ Runnable(t) /\ Stopped(t)
    /\ StopWith(t)
    /\ Goto(t, "done")
    /\ UNCHANGED <<version, mutex, cacheVars, releaseVars, request, captured, todo,
                   usedEpoch, imageVars, flagVars>>

\* The lock is held; the thread may still be parked here while it is paused.
Enter(t) ==
    /\ pc[t] = "entered" /\ Runnable(t) /\ ~Stopped(t)
    /\ usedEpoch' = [usedEpoch EXCEPT ![t] = epoch]
    /\ Goto(t, "source")
    /\ UNCHANGED <<version, mutex, cacheVars, releaseVars, request, captured, todo,
                   outcome, imageVars, flagVars>>

EnterStopped(t) ==
    /\ pc[t] = "entered" /\ Runnable(t) /\ Stopped(t)
    /\ StopWith(t)
    /\ Goto(t, "unlock")
    /\ UNCHANGED <<version, mutex, cacheVars, releaseVars, request, captured, todo,
                   usedEpoch, imageVars, flagVars>>

-----------------------------------------------------------------------------
(***************************************************************************)
(* Under the lock: the remaining identities, and the cache decision.       *)
(***************************************************************************)
IdentifySource(t) ==
    /\ pc[t] = "source"
    /\ \E m \in OfRole(request[t].files, {"model"}) : Capture(t, m)
    /\ Goto(t, "prepare")
    /\ UNCHANGED <<version, mutex, cacheVars, releaseVars, request, todo, usedEpoch,
                   outcome, imageVars, flagVars>>

\* prepareQ8Cache(): a valid copy is used as it is; a conversion drops the
\* resident weights, checks the source again and publishes a new copy.
PrepareQ8(t) ==
    /\ pc[t] = "prepare"
    /\ \/ UNCHANGED <<version, cacheVars, deferred>>
       \/ \E q \in OfRole(request[t].files, {"q8"}) :
             /\ version[q] < MaxVersion
             /\ \A m \in OfRole(request[t].files, {"model"}) : version[m] = captured[t][m]
             /\ Runnable(t) /\ ~Stopped(t)
             /\ version' = [version EXCEPT ![q] = @ + 1]
             /\ ResetCache
    /\ todo' = [todo EXCEPT ![t] = OfRole(request[t].files, {"q8", "late"})]
    /\ Goto(t, "assets")
    /\ UNCHANGED <<mutex, epoch, trying, request, captured, usedEpoch, outcome,
                   imageVars, flagVars>>

IdentifyLate(t, f) ==
    /\ pc[t] = "assets" /\ f \in todo[t]
    /\ Capture(t, f)
    /\ Visit(t, f)
    /\ UNCHANGED <<version, mutex, cacheVars, releaseVars, pc, request, usedEpoch,
                   outcome, imageVars, flagVars>>

\* Mutant: IP-Adapters are compared by presence only.
SameIdentityWithoutIp(t) ==
    \A f \in Files : Role[f] \notin {"ip", "refiner"} => cacheKey[f] = captured[t][f]

\* cache.identity == identity; IP-Adapters a request does not use may stay.
SameIdentity(t) ==
    /\ \A f \in Files : Role[f] \notin {"ip", "refiner"} => cacheKey[f] = captured[t][f]
    /\ \/ OfRole(request[t].files, {"ip"}) = {}
       \/ \A f \in OfRole(Files, {"ip"}) : cacheKey[f] = captured[t][f]

\* A request with a refiner replaces one that was loaded from other files.
RefinerStale(t) ==
    /\ OfRole(request[t].files, {"refiner"}) # {}
    /\ \E f \in OfRole(Files, {"refiner"}) : cacheKey[f] # captured[t][f]

\* The new key is that of the request: it stands from here to the end of the
\* load, which nobody else can see, for the assignments that follow the load.
Mount(t) ==
    /\ pc[t] = "assets" /\ todo[t] = {}
    /\ \/ /\ ~SameIdentity(t)
          /\ cacheKey' = captured[t]
          /\ loaded' = NoWeights
          /\ deferred' = "no"
          /\ todo' = [todo EXCEPT ![t] = Mounted(request[t].files)]
       \/ /\ SameIdentity(t) /\ ~RefinerStale(t)
          /\ UNCHANGED <<cacheVars, deferred, todo>>
       \/ /\ SameIdentity(t) /\ RefinerStale(t)
          /\ cacheKey' = [f \in Files |-> IF Role[f] = "refiner" THEN captured[t][f]
                                        ELSE cacheKey[f]]
          /\ loaded' = [f \in Files |-> IF Role[f] = "refiner" THEN {} ELSE loaded[f]]
          /\ todo' = [todo EXCEPT ![t] = OfRole(request[t].files, {"refiner"})]
          /\ UNCHANGED deferred
    /\ Goto(t, "load")
    /\ UNCHANGED <<version, mutex, epoch, trying, request, captured, usedEpoch, outcome,
                   imageVars, flagVars>>

-----------------------------------------------------------------------------
(***************************************************************************)
(* Loading, generating, and checking the files once more.                  *)
(***************************************************************************)
\* new_sd_ctx() and the resident helpers map one file after the other, in
\* whatever state each is in by now.
Load(t, f) ==
    /\ pc[t] = "load" /\ f \in todo[t]
    /\ loaded' = [loaded EXCEPT ![f] = {version[f]}]
    /\ Visit(t, f)
    /\ UNCHANGED <<version, mutex, cacheKey, releaseVars, pc, request, captured,
                   usedEpoch, outcome, imageVars, flagVars>>

\* Mutant: the model is not looked at again when it was only prepared.
FilesToVerifyWhenGenerating(r) == IF r.prepareOnly THEN {} ELSE r.files

\* request.modelPath only, or every file of the request (lines 789-791, 1101-1125).
FilesToVerify(r) == IF r.prepareOnly THEN OfRole(r.files, {"model"}) ELSE r.files

\* prepareOnly ends after the load.
Prepared(t) ==
    /\ pc[t] = "load" /\ todo[t] = {} /\ ~Stopped(t)
    /\ request[t].prepareOnly
    /\ todo' = [todo EXCEPT ![t] = FilesToVerify(request[t])]
    /\ Goto(t, "verify")
    /\ UNCHANGED <<version, mutex, cacheVars, releaseVars, request, captured, usedEpoch,
                   outcome, imageVars, flagVars>>

Loaded(t) ==
    /\ pc[t] = "load" /\ todo[t] = {} /\ ~Stopped(t)
    /\ ~request[t].prepareOnly
    /\ Goto(t, "run")
    /\ UNCHANGED <<version, mutex, cacheVars, releaseVars, workVars, imageVars, flagVars>>

\* Weights are loaded lazily and may be paged from a file again at any time.
PageIn(t, f) ==
    /\ pc[t] = "run" /\ f \in Mounted(request[t].files)
    /\ loaded' = [loaded EXCEPT ![f] = @ \cup {version[f]}]
    /\ UNCHANGED <<version, mutex, cacheKey, releaseVars, pc, workVars, imageVars, flagVars>>

Generate(t) ==
    /\ pc[t] = "run" /\ Runnable(t) /\ ~Stopped(t)
    /\ used' = [used EXCEPT ![t] =
                  [f \in Files |-> IF f \in Mounted(request[t].files) THEN loaded[f] ELSE {}]]
    /\ onDisk' = [onDisk EXCEPT ![t] =
                  [f \in Files |-> IF f \in request[t].files THEN version[f] ELSE 0]]
    /\ todo' = [todo EXCEPT ![t] = FilesToVerify(request[t])]
    /\ Goto(t, "verify")
    /\ UNCHANGED <<version, mutex, cacheVars, releaseVars, request, captured, usedEpoch,
                   outcome, flagVars>>

Verify(t, f) ==
    /\ pc[t] = "verify" /\ f \in todo[t]
    /\ version[f] = captured[t][f]
    /\ Visit(t, f)
    /\ UNCHANGED <<version, mutex, cacheVars, releaseVars, pc, request, captured,
                   usedEpoch, outcome, imageVars, flagVars>>

Succeed(t) ==
    /\ pc[t] = "verify" /\ todo[t] = {}
    /\ outcome' = [outcome EXCEPT ![t] = "ok"]
    /\ Goto(t, "leave")
    /\ UNCHANGED <<version, mutex, cacheVars, releaseVars, request, captured, todo,
                   usedEpoch, imageVars, flagVars>>

\* Cancellation, the timeout, a file that changed, or any error of the engine.
Fail(t) ==
    /\ pc[t] \in UsePcs \ {"leave"}
    /\ StopWith(t)
    /\ Goto(t, "leave")
    /\ UNCHANGED <<version, mutex, cacheVars, releaseVars, request, captured, todo,
                   usedEpoch, imageVars, flagVars>>

-----------------------------------------------------------------------------
(***************************************************************************)
(* Leaving: the destructors, in the reverse order of their declarations.   *)
(***************************************************************************)
\* Mutant: a release while it ran is forgotten.
DiscardsOnFailure(t) == outcome[t] # "ok"

\* ~CacheUse: the request failed, or a release came while it ran.
Discards(t) == outcome[t] # "ok" \/ epoch # usedEpoch[t]

Leave(t) ==
    /\ pc[t] = "leave"
    /\ \/ Discards(t) /\ ResetCache
       \/ ~Discards(t) /\ UNCHANGED <<cacheVars, deferred>>
    /\ Goto(t, "unlock")
    /\ UNCHANGED <<version, mutex, epoch, trying, workVars, imageVars, flagVars>>

Unlock(t) ==
    /\ pc[t] = "unlock"
    /\ mutex' = Free
    /\ Goto(t, "done")
    /\ UNCHANGED <<version, cacheVars, releaseVars, workVars, imageVars, flagVars>>

Return(t) ==
    /\ pc[t] = "done"
    /\ request' = [request EXCEPT ![t] = NoRequest]
    /\ captured' = [captured EXCEPT ![t] = NoKey]
    /\ todo' = [todo EXCEPT ![t] = {}]
    /\ usedEpoch' = [usedEpoch EXCEPT ![t] = 0]
    /\ used' = [used EXCEPT ![t] = NoWeights]
    /\ onDisk' = [onDisk EXCEPT ![t] = NoKey]
    /\ outcome' = [outcome EXCEPT ![t] = "none"]
    /\ cancelled' = [cancelled EXCEPT ![t] = FALSE]
    /\ expired' = [expired EXCEPT ![t] = FALSE]
    /\ Goto(t, "idle")
    /\ UNCHANGED <<version, mutex, cacheVars, releaseVars, paused>>

-----------------------------------------------------------------------------
(***************************************************************************)
(* releaseNativeDiffusionCache(): increment, then reset if the lock is     *)
(* free.  A progress callback may call it on the thread that owns the      *)
(* engine; ownsEngine then stops it before the lock.                       *)
(***************************************************************************)
OwnsEngineNever(p) == FALSE  \* mutant: no thread-local owner
OwnsEngine(p) == p \in Threads /\ pc[p] \in UsePcs

\* Where a thread runs its caller's code: outside, or in a progress callback
\* (Waiting comes before the lock, Loading and Denoising under it).
MayCallRelease(p) ==
    \/ p = External
    \/ p \in Threads /\ pc[p] \in {"idle", "load", "run"}
    \/ p \in Threads /\ pc[p] = "identify" /\ todo[p] = {}

BeginRelease(p) ==
    /\ MayCallRelease(p)
    /\ p \notin trying
    /\ epoch < MaxEpoch
    /\ epoch' = epoch + 1
    /\ trying' = IF OwnsEngine(p) THEN trying ELSE trying \cup {p}
    /\ deferred' = IF Resident /\ InUse THEN "inUse" ELSE deferred
    /\ UNCHANGED <<version, mutex, cacheVars, pc, workVars, imageVars, flagVars>>

\* Mutant: reset without the lock.
ReleaseUnlocked(p) ==
    /\ p \in trying
    /\ ResetCache
    /\ trying' = trying \ {p}
    /\ UNCHANGED <<version, mutex, epoch, pc, workVars, imageVars, flagVars>>

ReleaseIdle(p) ==
    /\ p \in trying
    /\ mutex = Free
    /\ ResetCache
    /\ trying' = trying \ {p}
    /\ UNCHANGED <<version, mutex, epoch, pc, workVars, imageVars, flagVars>>

ReleaseBusy(p) ==
    /\ p \in trying
    /\ mutex # Free
    /\ deferred' = IF Resident /\ deferred = "no" THEN "missed" ELSE deferred
    /\ trying' = trying \ {p}
    /\ UNCHANGED <<version, mutex, cacheVars, epoch, pc, workVars, imageVars, flagVars>>

-----------------------------------------------------------------------------
(***************************************************************************)
(* What other parties do to files and requests.                            *)
(***************************************************************************)
Edit(f) ==
    /\ version[f] < MaxVersion
    /\ version' = [version EXCEPT ![f] = @ + 1]
    /\ UNCHANGED <<mutex, cacheVars, releaseVars, pc, workVars, imageVars, flagVars>>

Cancel(t) ==
    /\ pc[t] \notin {"idle", "done"} /\ ~cancelled[t]
    /\ cancelled' = [cancelled EXCEPT ![t] = TRUE]
    /\ UNCHANGED <<version, mutex, cacheVars, releaseVars, pc, workVars, imageVars,
                   paused, expired>>

SetPaused(t) ==
    /\ t \in Controlled
    /\ paused' = [paused EXCEPT ![t] = ~@]
    /\ UNCHANGED <<version, mutex, cacheVars, releaseVars, pc, workVars, imageVars,
                   cancelled, expired>>

\* Paused time does not count towards the timeout.
Expire(t) ==
    /\ pc[t] \notin {"idle", "done"} /\ ~paused[t] /\ ~expired[t]
    /\ expired' = [expired EXCEPT ![t] = TRUE]
    /\ UNCHANGED <<version, mutex, cacheVars, releaseVars, pc, workVars, imageVars,
                   cancelled, paused>>

-----------------------------------------------------------------------------
\* The steps of a request that has begun, but for paging, which need not happen.
Progress(t) ==
    \/ \E f \in Files : IdentifyEarly(t, f) \/ IdentifyLate(t, f) \/ Load(t, f) \/ Verify(t, f)
    \/ Reject(t) \/ QueueUp(t)
    \/ TryLock(t) \/ TryLockTimesOut(t) \/ Retry(t) \/ GiveUp(t)
    \/ Enter(t) \/ EnterStopped(t)
    \/ IdentifySource(t) \/ PrepareQ8(t) \/ Mount(t)
    \/ Prepared(t) \/ Loaded(t) \/ Generate(t)
    \/ Succeed(t) \/ Fail(t)
    \/ Leave(t) \/ Unlock(t) \/ Return(t)

ReleaseTry(p) == ReleaseIdle(p) \/ ReleaseBusy(p)

Next ==
    \/ \E t \in Threads :
          \/ Begin(t) \/ Progress(t)
          \/ \E f \in Files : PageIn(t, f)
          \/ Cancel(t) \/ SetPaused(t) \/ Expire(t)
    \/ \E p \in Callers : BeginRelease(p) \/ ReleaseTry(p)
    \/ \E f \in Files : Edit(f)

Spec == Init /\ [][Next]_vars

-----------------------------------------------------------------------------
(***************************************************************************)
(* Properties.                                                             *)
(***************************************************************************)
Outcomes == {"none", "ok", "cancelled", "error"}

\* Every variable has its type: what the engine, a request and the history hold.
TypeOK ==
    /\ version \in [Files -> Nat]
    /\ mutex \in Threads \cup {Free}
    /\ cacheKey \in [Files -> Nat]
    /\ loaded \in [Files -> SUBSET Nat]
    /\ epoch \in Nat
    /\ trying \subseteq Callers
    /\ deferred \in {"no", "inUse", "missed"}
    /\ pc \in [Threads -> Pcs]
    /\ request \in [Threads -> Requests \cup {NoRequest}]
    /\ captured \in [Threads -> [Files -> Nat]]
    /\ todo \in [Threads -> SUBSET Files]
    /\ usedEpoch \in [Threads -> Nat]
    /\ used \in [Threads -> [Files -> SUBSET Nat]]
    /\ onDisk \in [Threads -> [Files -> Nat]]
    /\ outcome \in [Threads -> Outcomes]
    /\ cancelled \in [Threads -> BOOLEAN]
    /\ paused \in [Threads -> BOOLEAN]
    /\ expired \in [Threads -> BOOLEAN]

\* A returned image was made from weights that were all on disk at one moment
\* of the request, each file in a single state, however old the context it hit
\* was and whatever was replaced while the request waited, loaded or ran.
ImageIsOneSnapshot ==
    \A t \in Threads :
        (outcome[t] = "ok" /\ ~request[t].prepareOnly) =>
            \A f \in Mounted(request[t].files) : used[t][f] = {onDisk[t][f]}

\* When no request holds the engine, a resident context is a complete assembly
\* of the files its key names: no failed, cancelled or interrupted load is kept.
ResidentIsComplete ==
    mutex = Free => {f \in Files : loaded[f] # {}} = Mounted({f \in Files : cacheKey[f] # 0})

\* When no request holds the engine, the model a resident context was loaded
\* from is the one its key names, also after a preparation that never ran it.
ResidentModelMatchesKey ==
    mutex = Free =>
        \A f \in OfRole(Files, {"model"}) : loaded[f] \subseteq {cacheKey[f]}

\* A release that comes while a request uses the engine is served before the
\* engine is free again: the weights it found do not outlive that request.
ReleaseInUseIsServed ==
    deferred = "inUse" => InUse

\* A thread inside release never tries the lock it owns itself, which is
\* undefined for a timed_mutex: callbacks stop at ownsEngine.
NoRecursiveLock ==
    \A p \in trying : mutex # p

\* Nobody but the owner of the engine changes the contexts while it is owned: a
\* release never frees the context under a running request.
OnlyOwnerChangesCache ==
    [][\A t \in Threads : mutex = t /\ mutex' = t =>
          \/ UNCHANGED cacheVars
          \/ pc[t] \in {"prepare", "assets", "load", "run", "leave"}
             /\ UNCHANGED <<trying, epoch>>]_vars

\* A cancelled request returns, even when the thread that owns the engine is
\* paused for ever or the request itself is paused.
CancelledReturns ==
    \A t \in Threads : []<>(pc[t] \in {"idle", "done"} \/ ~cancelled[t])

\* A request that is not paused returns by its timeout, whoever owns the engine
\* and for however long that owner is paused.
UnpausedReturns ==
    \A t \in Threads : []<>(pc[t] = "idle" \/ paused[t])

\* Both: no request waits for ever unless somebody keeps it paused and nobody cancels it.
CallsReturn == CancelledReturns /\ UnpausedReturns

\* The declaration's promise: residency is released now, or after the active
\* GPU call returns.
ReleaseIsServed ==
    mutex = Free /\ trying = {} /\ Resident => deferred = "no"
=============================================================================
