--------------------------- MODULE InferenceSession ---------------------------
(***************************************************************************)
(* The Python worker (src/reference/diffusers/inference_worker.py) and the *)
(* one-pipeline memory cache it keeps (inference_session.py).  The worker  *)
(* runs one command at a time; model files are replaced while it works.    *)
(*                                                                         *)
(* As in NativeEngine a file's metadata signature is the number of the     *)
(* state it is in, and 0 means none.  A signature of several files is      *)
(* taken and compared file by file, not at one moment.                     *)
(***************************************************************************)
EXTENDS Naturals, FiniteSets

CONSTANTS
    Files,      \* model, configuration and VAE files
    Keys,       \* construction keys of the pipelines a session retains
    NativeKeys, \* those of them that stand for the native library
    NoKey,      \* the key of a pipeline that is built for one request
    Requests,   \* the arguments of generate and foreground commands
    MaxVersion  \* bound: states of one file

Placements == {"resident", "offload"}

ASSUME SessionAssumption ==
    /\ NoKey \notin Keys
    /\ NativeKeys \subseteq Keys
    /\ Requests \subseteq [key : Keys \cup {NoKey}, sources : SUBSET Files,
                           place : Placements, hires : BOOLEAN]
    /\ MaxVersion \in Nat

VARIABLES
    version,    \* file -> the state it is in on disk
    key,        \* InferenceSession.key; NoKey while it has no value
    signature,  \* InferenceSession.sources and signature, by file
    weights,    \* what the pipeline, retained or under construction, was read from
    placement,  \* InferenceSession.placement_key
    hooks,      \* the pipeline's components carry offloading hooks
    execution,  \* InferenceSession.execution: the placement it reports
    preparing,  \* InferenceSession.preparing
    recorded,   \* InferenceSession.preparation_recorded
    registered, \* InferenceSession.runtime_releases has the native library
    pool,       \* files whose bytes the native runtime holds
    pc,         \* where the worker is in the command
    action,     \* the command it runs or has answered
    request,    \* the arguments of that command
    reply,      \* the answer to it
    taken,      \* the signature pipeline() took, by file
    todo,       \* files the current signature or load has still to visit
    used,       \* history: the weights the image was made from
    onDisk      \* history: what was on disk when it was made

modelVars   == <<key, signature, weights>>
placeVars   == <<placement, hooks, execution>>
prepareVars == <<preparing, recorded>>
nativeVars  == <<registered, pool>>
callVars    == <<action, request, reply>>
imageVars   == <<used, onDisk>>
vars == <<version, modelVars, placeVars, prepareVars, nativeVars, pc, callVars,
          taken, todo, imageVars>>


\* The first line of a command, by what serve() does with it.
Commands == {"none", "generate", "prepare", "deselect", "background", "release",
             "rejected"}
Busy == {"parse", "sign", "load", "recheck", "place", "record", "run", "verify",
         "publish", "prepared", "final"}
Pcs  == Busy \cup {"idle", "stopped"}

NoFile == [f \in Files |-> 0]
FilesOf(versions) == {f \in Files : versions[f] # 0}

NoRequest == [key |-> NoKey, sources |-> {}, place |-> "resident", hires |-> FALSE]

Retained == request.key # NoKey
Native   == request.key \in NativeKeys

\* residency()["ready"]
Ready == key # NoKey /\ execution # "none"

Init ==
    /\ version = [f \in Files |-> 1]
    /\ key = NoKey /\ signature = NoFile /\ weights = NoFile
    /\ placement = "none" /\ hooks = FALSE /\ execution = "none"
    /\ preparing = FALSE /\ recorded = FALSE
    /\ registered = FALSE /\ pool = {}
    /\ pc = "idle"
    /\ action = "none" /\ request = NoRequest /\ reply = "none"
    /\ taken = NoFile /\ todo = {}
    /\ used = NoFile /\ onDisk = NoFile

-----------------------------------------------------------------------------
(***************************************************************************)
(* Shared pieces of the steps.                                             *)
(***************************************************************************)
\* Mutants: signatures compared by path only; verify() without sources; the
\* construction key reported as the placement.
SamePath(f, record) == TRUE
NothingToVerify == {}
RecordedKey == request.key

\* One file's part of comparing source_signature() with an earlier one.
Unchanged(f, record) == version[f] = record[f]

\* What verify() reads again: InferenceSession.sources.
ToVerify == FilesOf(signature)

\* record_execution()'s device and offload.
Recorded == IF Native THEN "managed" ELSE request.place

\* InferenceSession.clear(); the native runtime keeps what it has read.
Clear ==
    /\ key' = NoKey /\ signature' = NoFile /\ weights' = NoFile
    /\ placement' = "none" /\ hooks' = FALSE /\ execution' = "none"

Answer(result) ==
    /\ reply' = result
    /\ pc' = "idle"
    /\ UNCHANGED <<action, request>>

\* A line of input: nothing of an earlier command's request is left.
Receive(command, r, answer) ==
    /\ pc = "idle"
    /\ action' = command /\ request' = r /\ reply' = answer
    /\ taken' = NoFile /\ todo' = {}
    /\ used' = NoFile /\ onDisk' = NoFile

-----------------------------------------------------------------------------
(***************************************************************************)
(* serve(): the commands.                                                  *)
(***************************************************************************)
Generate(r) ==
    /\ Receive("generate", r, "none")
    /\ pc' = "parse"
    /\ UNCHANGED <<version, modelVars, placeVars, prepareVars, nativeVars>>

\* Mutant: an earlier preparation's record is not forgotten.
PrepareAgain(r) ==
    /\ Receive("prepare", r, "none")
    /\ pc' = "parse"
    /\ preparing' = TRUE
    /\ UNCHANGED <<version, modelVars, placeVars, recorded, nativeVars>>

\* Foreground with arguments: set_foreground(True, prepare).
Prepare(r) ==
    /\ Receive("prepare", r, "none")
    /\ pc' = "parse"
    /\ preparing' = TRUE /\ recorded' = FALSE
    /\ UNCHANGED <<version, modelVars, placeVars, nativeVars>>

\* Foreground without arguments hides readiness and keeps the weights.
Deselect ==
    /\ Receive("deselect", NoRequest, "ok")
    /\ execution' = "none"
    /\ UNCHANGED <<version, modelVars, placement, hooks, prepareVars, nativeVars, pc>>

Background ==
    /\ Receive("background", NoRequest, "ok")
    /\ UNCHANGED <<version, modelVars, placeVars, prepareVars, nativeVars, pc>>

\* InferenceSession.release(): clear, then every registered library's release.
Release ==
    /\ Receive("release", NoRequest, "ok")
    /\ Clear
    /\ pool' = IF registered THEN {} ELSE pool
    /\ UNCHANGED <<version, prepareVars, registered, pc>>

\* A line serve() rejects; like every error it clears the session.
Reject ==
    /\ Receive("rejected", NoRequest, "error")
    /\ Clear
    /\ UNCHANGED <<version, prepareVars, nativeVars, pc>>

\* --help leaves through SystemExit(0): serve() skips its verification, and
\* set_foreground() clears on its way out.
Help ==
    /\ pc = "parse"
    /\ Answer("ok")
    /\ IF preparing THEN Clear ELSE UNCHANGED <<modelVars, placeVars>>
    /\ preparing' = FALSE
    /\ UNCHANGED <<version, recorded, nativeVars, taken, todo, imageVars>>

\* --print-config returns 0 before any pipeline is asked for.
PrintConfig ==
    /\ pc = "parse"
    /\ pc' = IF preparing THEN "prepared" ELSE "final"
    /\ todo' = IF preparing THEN {} ELSE ToVerify
    /\ UNCHANGED <<version, modelVars, placeVars, prepareVars, nativeVars, callVars,
                   taken, imageVars>>

\* Only retained pipelines are prepared ahead of a request.
Resolve ==
    /\ pc = "parse" /\ (preparing => Retained)
    /\ pc' = "sign"
    /\ todo' = IF Retained THEN request.sources ELSE {}
    /\ UNCHANGED <<version, modelVars, placeVars, prepareVars, nativeVars, callVars,
                   taken, imageVars>>

-----------------------------------------------------------------------------
(***************************************************************************)
(* InferenceSession.pipeline().                                            *)
(***************************************************************************)
Sign(f) ==
    /\ pc = "sign" /\ f \in todo
    /\ taken' = [taken EXCEPT ![f] = version[f]]
    /\ todo' = todo \ {f}
    /\ UNCHANGED <<version, modelVars, placeVars, prepareVars, nativeVars, pc, callVars,
                   imageVars>>

SameModel == Retained /\ key = request.key /\ signature = taken

Hit ==
    /\ pc = "sign" /\ todo = {} /\ SameModel
    /\ pc' = "place"
    /\ UNCHANGED <<version, modelVars, placeVars, prepareVars, nativeVars, callVars,
                   taken, todo, imageVars>>

\* Mutant: a new pipeline replaces the registration of the old one's library.
RegisteredNow == Native

\* register_runtime_release() is called when a native adapter is constructed.
Registered == registered \/ Native

\* The previous model goes first.  A native adapter reads no weights yet, but
\* registers the library it will read them into.
Miss ==
    /\ pc = "sign" /\ todo = {} /\ ~SameModel
    /\ Clear
    /\ registered' = Registered
    /\ todo' = IF Native THEN {} ELSE request.sources
    /\ pc' = "load"
    /\ UNCHANGED <<version, prepareVars, pool, callVars, taken, imageVars>>

Load(f) ==
    /\ pc = "load" /\ f \in todo
    /\ weights' = [weights EXCEPT ![f] = version[f]]
    /\ todo' = todo \ {f}
    /\ UNCHANGED <<version, key, signature, placeVars, prepareVars, nativeVars, pc,
                   callVars, taken, imageVars>>

Loaded ==
    /\ pc = "load" /\ todo = {}
    /\ pc' = IF Retained THEN "recheck" ELSE "place"
    /\ todo' = IF Retained THEN request.sources ELSE {}
    /\ UNCHANGED <<version, modelVars, placeVars, prepareVars, nativeVars, callVars,
                   taken, imageVars>>

Recheck(f) ==
    /\ pc = "recheck" /\ f \in todo
    /\ Unchanged(f, taken)
    /\ todo' = todo \ {f}
    /\ UNCHANGED <<version, modelVars, placeVars, prepareVars, nativeVars, pc, callVars,
                   taken, imageVars>>

Retain ==
    /\ pc = "recheck" /\ todo = {}
    /\ key' = request.key /\ signature' = taken
    /\ pc' = "place"
    /\ UNCHANGED <<version, weights, placeVars, prepareVars, nativeVars, callVars,
                   taken, todo, imageVars>>

-----------------------------------------------------------------------------
(***************************************************************************)
(* InferenceSession.placement() with prepare_execution(), and the record.  *)
(***************************************************************************)
\* Hooks are removed when the placement that is replaced offloaded; enabling
\* offload installs its own.
HooksOfPlacement ==
    \/ request.place = "offload"
    \/ hooks /\ placement # "offload"

Place ==
    /\ pc = "place" /\ ~Native
    /\ \/ /\ Retained /\ placement = request.place
          /\ UNCHANGED <<placement, hooks>>
       \/ /\ ~(Retained /\ placement = request.place)
          /\ placement' = IF Retained THEN request.place ELSE "none"
          /\ hooks' = HooksOfPlacement
    /\ pc' = "record"
    /\ UNCHANGED <<version, modelVars, execution, prepareVars, nativeVars, callVars,
                   taken, todo, imageVars>>

\* engine.image(prepare=True): the native runtime reads the sources it lacks.
PrepareNative ==
    /\ pc = "place" /\ Native
    /\ pool' = pool \cup request.sources
    /\ pc' = IF preparing THEN "record" ELSE "run"
    /\ UNCHANGED <<version, modelVars, placeVars, prepareVars, registered, callVars,
                   taken, todo, imageVars>>

\* record_execution(): Diffusers records before it generates, and a
\* preparation verifies its sources; a native request records at its end.
Record ==
    /\ pc = "record"
    /\ IF key # NoKey
       THEN /\ execution' = Recorded
            /\ recorded' = TRUE
       ELSE UNCHANGED <<execution, recorded>>
    /\ \/ /\ ~Native /\ preparing
          /\ pc' = "verify" /\ todo' = ToVerify
       \/ /\ ~Native /\ ~preparing
          /\ pc' = "run" /\ todo' = {}
       \/ /\ Native /\ preparing
          /\ pc' = "prepared" /\ todo' = {}
       \/ /\ Native /\ ~preparing
          /\ pc' = "final" /\ todo' = ToVerify
    /\ UNCHANGED <<version, modelVars, placement, hooks, preparing, nativeVars, callVars,
                   taken, imageVars>>

\* The end of set_foreground().
Prepared ==
    /\ pc = "prepared" /\ recorded /\ key # NoKey
    /\ preparing' = FALSE
    /\ pc' = "final" /\ todo' = ToVerify
    /\ UNCHANGED <<version, modelVars, placeVars, recorded, nativeVars, callVars, taken,
                   imageVars>>

-----------------------------------------------------------------------------
(***************************************************************************)
(* The image.                                                              *)
(***************************************************************************)
\* The native engine answers for the weights it uses (NativeEngine).  HiRes
\* forgets the placement, moves the weights and places them for itself.
Run ==
    /\ pc = "run"
    /\ used' = IF Native THEN version ELSE weights
    /\ onDisk' = version
    /\ IF request.hires /\ ~Native
       THEN placement' = "none" /\ hooks' = (request.place = "offload")
       ELSE UNCHANGED <<placement, hooks>>
    /\ pc' = "verify" /\ todo' = ToVerify
    /\ UNCHANGED <<version, modelVars, execution, prepareVars, nativeVars, callVars, taken>>

\* InferenceSession.verify(), before the image is published and once more
\* before the answer.  A file that changed leaves only Fail.
Verify(f) ==
    /\ pc \in {"verify", "final"} /\ f \in todo
    /\ Unchanged(f, signature)
    /\ todo' = todo \ {f}
    /\ UNCHANGED <<version, modelVars, placeVars, prepareVars, nativeVars, pc, callVars,
                   taken, imageVars>>

Verified ==
    /\ pc = "verify" /\ todo = {}
    /\ pc' = IF preparing THEN "prepared" ELSE "publish"
    /\ UNCHANGED <<version, modelVars, placeVars, prepareVars, nativeVars, callVars,
                   taken, todo, imageVars>>

Publish ==
    /\ pc = "publish"
    /\ pc' = IF Native THEN "record" ELSE "final"
    /\ todo' = IF Native THEN {} ELSE ToVerify
    /\ UNCHANGED <<version, modelVars, placeVars, prepareVars, nativeVars, callVars,
                   taken, imageVars>>

\* A pipeline nobody retains is gone when its request is.
Succeed ==
    /\ pc = "final" /\ todo = {}
    /\ Answer("ok")
    /\ IF key = NoKey THEN Clear ELSE UNCHANGED <<modelVars, placeVars>>
    /\ UNCHANGED <<version, prepareVars, nativeVars, taken, todo, imageVars>>

\* Mutant: only set_foreground() clears.
FailKeepingModel ==
    /\ pc \in Busy
    /\ Answer("error")
    /\ IF preparing THEN Clear ELSE UNCHANGED <<modelVars, placeVars>>
    /\ preparing' = FALSE
    /\ UNCHANGED <<version, recorded, nativeVars, taken, todo, imageVars>>

\* Any error, a changed file among them: serve() clears the session.
Fail ==
    /\ pc \in Busy
    /\ Answer("error")
    /\ Clear
    /\ preparing' = FALSE
    /\ UNCHANGED <<version, recorded, nativeVars, taken, todo, imageVars>>

-----------------------------------------------------------------------------
\* EOF, or the client's way to cancel: the process ends with all it held.
Stop ==
    /\ pc # "stopped"
    /\ pc' = "stopped"
    /\ Clear
    /\ preparing' = FALSE /\ recorded' = FALSE
    /\ registered' = FALSE /\ pool' = {}
    /\ action' = "none" /\ request' = NoRequest /\ reply' = "none"
    /\ taken' = NoFile /\ todo' = {}
    /\ used' = NoFile /\ onDisk' = NoFile
    /\ UNCHANGED version

Start ==
    /\ pc = "stopped"
    /\ pc' = "idle"
    /\ UNCHANGED <<version, modelVars, placeVars, prepareVars, nativeVars, callVars,
                   taken, todo, imageVars>>

Edit(f) ==
    /\ version[f] < MaxVersion
    /\ version' = [version EXCEPT ![f] = @ + 1]
    /\ UNCHANGED <<modelVars, placeVars, prepareVars, nativeVars, pc, callVars, taken,
                   todo, imageVars>>

Next ==
    \/ \E r \in Requests : Generate(r) \/ Prepare(r)
    \/ Deselect \/ Background \/ Release \/ Reject
    \/ Help \/ PrintConfig \/ Resolve
    \/ \E f \in Files : Sign(f) \/ Load(f) \/ Recheck(f) \/ Verify(f) \/ Edit(f)
    \/ Hit \/ Miss \/ Loaded \/ Retain
    \/ Place \/ PrepareNative \/ Record \/ Prepared
    \/ Run \/ Verified \/ Publish \/ Succeed \/ Fail
    \/ Stop \/ Start

Spec == Init /\ [][Next]_vars

-----------------------------------------------------------------------------
(***************************************************************************)
(* Properties.                                                             *)
(***************************************************************************)
\* Every variable has its type: the session, the worker and the history.
TypeOK ==
    /\ version \in [Files -> Nat]
    /\ key \in Keys \cup {NoKey}
    /\ signature \in [Files -> Nat]
    /\ weights \in [Files -> Nat]
    /\ placement \in Placements \cup {"none"}
    /\ hooks \in BOOLEAN
    /\ execution \in Placements \cup {"managed", "none"}
    /\ preparing \in BOOLEAN
    /\ recorded \in BOOLEAN
    /\ registered \in BOOLEAN
    /\ pool \subseteq Files
    /\ pc \in Pcs
    /\ action \in Commands
    /\ request \in Requests \cup {NoRequest}
    /\ reply \in {"none", "ok", "error"}
    /\ taken \in [Files -> Nat]
    /\ todo \subseteq Files
    /\ used \in [Files -> Nat]
    /\ onDisk \in [Files -> Nat]

\* An image of a retained pipeline is published only if all the files it was
\* made from were on disk together, as loaded, when it was made: pipeline() and
\* verify() read several files one after the other, hit or miss.
PublishedIsOneSnapshot ==
    pc = "publish" /\ Retained =>
        \A f \in request.sources : used[f] = onDisk[f]

\* A retained Diffusers pipeline was read from exactly the files, and exactly
\* the states of them, that the signature it will be found by names.
RetainedMatchesSignature ==
    key \in Keys \ NativeKeys => weights = signature

\* A foreground answer that says ready means the model it was asked to prepare:
\* never one an earlier command left, whatever that command's arguments did.
PreparedIsRequested ==
    pc = "idle" /\ action = "prepare" /\ reply = "ok" /\ Ready =>
        /\ key = request.key
        /\ FilesOf(signature) = request.sources
        /\ Native \/ placement = request.place

\* After an error nothing of the pipeline is left to be reused or reported.
ErrorLeavesNothing ==
    reply = "error" => key = NoKey /\ weights = NoFile /\ ~Ready /\ ~preparing

\* An explicit release frees the native sources too, also those read by an
\* adapter the session replaced or cleared since.
ReleaseFreesSources ==
    action = "release" => weights = NoFile /\ pool = {}

\* A resident placement is never made over the hooks of an offloaded one.
HooksRemovedBeforeResident ==
    placement = "resident" => ~hooks
=============================================================================
