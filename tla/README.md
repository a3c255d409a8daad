# iiLocalDiffusion in TLA+

This directory holds the formal model of iiLocalDiffusion: TLA+ modules translated
from the source, the TLC configurations that check them on small instances, and
theorems about them that TLAPS has checked. Paths below are relative to `src/`.

## The system

iiLocalDiffusion generates images and videos with models on local disk. It has a C++
library (`src/`: the native engine around a patched stable-diffusion.cpp, model
packages, telemetry, compute backends), a Python side (`reference/diffusers/`: a
resident worker around Diffusers and around the native library, ComfyUI front ends,
model conversion and merging) and command-line tools. Its hard
behaviour is about three things: **expensive state kept between requests** (contexts,
pipelines, identities, converted copies) while files change underneath, **files
published for others** by processes that fail, are cancelled or are killed, and
**choices made tensor by tensor or node by node** (merges, ComfyUI graphs) that must stay
consistent across the whole.

| Component | State it keeps | Operations | Interacts with | What is hard | What makes it correct |
|---|---|---|---|---|---|
| Native image engine (`Generation/NativeDiffusion.cpp`) | `EngineCache`: timed mutex, contexts, their identities, release epoch; per request: identities, flags | `nativeImage` (prepare or generate), `releaseNativeDiffusionCache`, pause/cancel/timeout (`NativeExecutionControl.hpp`) | worker through the C ABI, Q8 cache, identity cache, native video | threads on one mutex, release without the lock, callbacks re-entering, files replaced meanwhile, pausing while holding the lock | an image comes from one snapshot of its files; no partial context survives; a release is served; every request ends |
| Inspection memo (same file, 543-593, 719-757) | last inspected model, its VAE and text-encoder facts, last inspected refiner | inspect, validate, mount | native engine | a memo stored before a later step fails; facts overwritten by a rejected file | what is mounted fits the model it is mounted for |
| Q8 disk cache (`NativeDiskCache.hpp`) | converted copy and manifest on disk | check, convert to staging, publish by two renames | native engine, other processes | crash between the renames, two converters, source replaced | a copy is used only with the manifest that describes it |
| Identity caches (`NativeCachePolicy.hpp`, `weight_files.py`) | metadata → content digest, in memory and on disk | look up, hash, recheck, store, evict | every cache key | metadata and content read at different times | a digest belongs to the content its signature names |
| Python inference session (`inference_session.py`) | one pipeline, its key, sources and signature, placement, execution, preparation record, LRU of configurations | `pipeline`, `placement`, `verify`, `configuration`, `set_foreground`, `release`, `residency` | worker, `generate.py`, `native_image.py` | signatures read file by file around loads; errors half-way; state an earlier command left | one snapshot per published image; readiness means the prepared model; errors leave nothing |
| Inference worker (`inference_worker.py`) | the session and the standard streams | one JSON command per line | session, front ends | `SystemExit`, invalid lines, EOF | every command is answered, every error clears |
| Conversion (`checkpoint_conversion.py`, `dit_conversion.py`) | converted checkpoints and DiT files on disk | look up, convert to staging, publish | loaders, other processes | two converters, crash, edited source | what is returned was made from the present source |
| Animation output (`animation_video.py`) | at the output path: video, report, frames directory; lock file, temporary directory with the old bundle, `backups` and `published` of one publication | preflight, lock, render, `commit()`, rollback, `__exit__` | the three animation generators, other processes, users' files | three targets published one after another; an error or a kill between any two; a default name chosen before the lock; two formats of one name | a readable report has its bundle; a failed run leaves what it found; nobody loses a bundle without `--overwrite` |
| Image publication (`generation_output.py`, `standalone_image.py`, `native_image.py`, `generate.py`, `unified_image.py`) | images, digests and reports; a private directory | write, hash, link, rename | front ends | no lock; a kill between image and report | a report is of its image and its weights; a folder is whole |
| Remote batches (`remote_generation.py`) | output files, lock file, backups | reserve, decode, publish, roll back | remote models | partial batches, rollback, killed client, overlapping names | a batch appears whole or not at all |
| Unified models (`UnifiedModel.hpp`, `unified_image.py`, `iild_package.py`) | package file, extracted assets, marker | verify, extract, publish, use, clean up | engine, worker | two processes extract; the package is replaced; the system purges caches | an entry holds the bytes its name says |
| ComfyUI runtime (`comfyui_runtime.py`, `local_image.py`) | server process, staged models, `submission.json`, prompt queue and history | start, submit, poll, download, stop | server (external) | late history, a server that dies, ports, shared directories | outputs belong to the job; the server stops; every run ends |
| ComfyUI graphs (`comfyui_image_workflow.py`, `comfyui_runtime.py`) | the graph under construction, the walk of an exported one | resolve, build, override, check | runtime | 26 families, optional components, HiRes stages | nothing supplied is unused; links fit; cycles are found |
| HiRes Fix (`hires_options.py`, `hires.py`) | sizes and schedules of stages | resolve, sample, refine | Diffusers, native and ComfyUI fronts | rounding to grids, limits, empty schedules | the target is reached; what resolves can run |
| Model merge (`model_merge*.py`) | coefficients, accumulators, output, report | select, map, add, repair, verify, fuse, publish | loaders, packages | materials that drop out, layouts that differ, non-finite numbers, sources that change | each included material moves the base by its own share, once; the report is of its sources |
| Native video (`NativeVideo.cpp`) | its context, the engine mutex | render | native engine | takes the same mutex and drops the image context | one of the two contexts at a time |
| Native bridges (`NativeImageBridge.cpp`, `NativeVideoBridge.cpp`, `native_image.py`) | per-call request, progress channel | convert, call, preload | worker, engine | preload, run and record order | as for the session |
| Telemetry (`NativeTelemetry.hpp`) | sampler thread, samples | start, note, finish | native engine | thread against the request it samples | the last sample precedes the end |
| Packaging (`ModelPackaging/`) | partial files of other processes | create, clean up | unified models | cleanup of a live process's file | an asset seen by its name is complete |
| Compute backends (`Compute/`) | weights split over devices | `forward` | tools | rows at the split, failing half | every row computed once |
| Defaults, parameters, image I/O, manifests, video schedules | none between calls | sequential parsing and number work | all | numeric edges | see "Not modelled" |

## Modules

| Module | Models |
|---|---|
| `NativeEngine`, `NativeEngineProofs` | `nativeImage()` and `releaseNativeDiffusionCache()` on any number of threads |
| `Inspections`, `ServiceProofs` | what one engine remembers of models and refiners over a sequence of requests, and what it mounts by it |
| `InferenceSession`, `SessionProofs` | `serve()`, `InferenceSession` and the way `generate.py` and `native_image.py` use it |
| `AnimationOutput`, `AnimationOutputProofs` | `preflight_animation()` and `AnimationOutput`, by any number of processes |
| `RemoteBatch`, `AtomicBatch`, `StoreProofs` | batches of `remote_generation.py`; the atomic publication they implement |
| `ImagePublication`, `StoreProofs` | the four ways in which a local run writes its images |
| `PackageCache`, `StoreProofs` | extraction and use of a packaged model, by the library and by the worker |
| `FileIdentities`, `SessionProofs` | digests, configurations and identities of files in memory and on disk |
| `ConvertedWeights`, `StoreProofs` | Q8 copies, converted checkpoints and DiT files made by several processes |
| `LocalRuntime`, `ServiceProofs` | runs of the ComfyUI front ends against servers |
| `Refinement`, `ServiceProofs` | sizes, stages and schedules of HiRes Fix, and their sampling |
| `ImageWorkflow` | graphs that are built |
| `WorkflowCheck`, `ServiceProofs` | exported graphs that are checked |
| `WeightedMerge`, `ModelProofs` | merges: numbers |
| `Projection` | merges: layouts |
| `UnifiedMerge`, `Adapter`, `ModelProofs` | merges: cascades, adapters |
| `GenericGeneration`, `GenericGenerationProofs` | runs of `generate_any.py`, from the arguments to `generation.json` |
| `VideoFrames`, `ServiceProofs` | storyboards from the plan of their shots to the frames of the video |
| `SortedSets`, `DataLemmas` | sets of numbers in order; lemmas on numbers, sets and sequences that several proofs cite |
| `MCNativeEngine`, `MCEngineSafety`, `MCInferenceSession`, `MCAnimationOutput`, `MCRemoteBatch`, `MCInspections`, `MCStores`, `MCServices`, `MCModels` | instances for TLC |

`MCStores`, `MCServices` and `MCModels` each hold several modules that share no variable: a
variable of the instance picks the one that moves, the others stay in an initial state. The
state space is the sum of theirs, not the product.

**Files.** A file is identified by metadata (path, size, mtime, inode, ctime).
Every state a file has been in has a number that never returns, so "same
identity" is "same number". What this leaves out: a file changed in place within the
resolution of its timestamps and with the same size. 0 is "no identity". Where contents
matter apart from metadata (`FileIdentities`) a file has a history of contents, and a reader
has the set of contents it saw; a set of more than one is a torn read.

**`NativeEngine`.** `pc` walks through `nativeImage()`: `identify` (validation and the
identities taken before the lock), `try`/`poll` (the 20 ms lock loop), `entered`
(locked, perhaps parked while paused), `source`, `prepare`, `assets` (identities taken
under the lock, Q8 preparation), `load`, `run`, `verify`, `leave` (`~CacheUse`),
`unlock`, `done`. `mutex` is the timed mutex; `ownsEngine` is true exactly in the
phases `UsePcs`, because `EngineAccess` and `CacheUse` are constructed together after
the lock loop. `cacheKey` stands for `identity`, `ipIdentity` and `refinerIdentity`;
`loaded[f]` is the set of versions whose bytes the contexts hold (a set, because
weights are mapped lazily and may be paged in again: `PageIn`). The code tests a hit by
the identity *and* a non-null context, and `reset()` leaves `identity` alone; the model
clears the key together with the contexts, which is the same test. `Role` says when a
file's identity is taken: `late` files under the lock, `early`, `ip` and `refiner` files
before it. `Fail` is every `throw` under the lock; `StopWith` is the catch clause, which
reports cancellation before errors. `releaseNativeDiffusionCache()` is two steps,
`BeginRelease` (increment, and the `ownsEngine` return) and `ReleaseIdle`/`ReleaseBusy`
(the `try_to_lock`), because another thread may run between them. It can be called by
an outside caller, by an idle thread, or by a progress callback of a request
(`MayCallRelease`). `deferred` is a history variable: whether a release found residency
it could not drop, under a use of the engine (`inUse`) or outside one (`missed`).

**`InferenceSession`.** One worker, one command at a time; the environment only edits
files. `pc` walks through a command: `parse`, `sign` (the signature `pipeline()` takes),
`load`, `recheck`, `place`, `record`, `run`, `verify`, `publish`, `final` (the
verification before the answer), `prepared` (the end of `set_foreground`). Signatures
are read file by file (`Sign`, `Recheck`, `Verify`), so an edit may fall between any
two reads. `SystemExit` is `Help`; `--print-config` is the path that answers without a
pipeline; every exception is `Fail`, which clears the session; EOF is `Stop`. The
native adapter (`NativeKeys`) is a retained "pipeline" that reads its weights into the
native runtime (`pool`), which outlives the adapter until an explicit release.

**`AnimationOutput`.** A producer is one run of a generator. `disk` maps a target (kind
and name) to what is there; the content of a file is the producer that made it, `User`
or `None`, and a frames directory is a function from its files to that. `Stem` is how
`output_targets()` names report and frames after the video without its suffix. `phase`
walks through the code: `new` (`preflight_animation`), `ready`/`locked`
(`__enter__`: exclusive creation of the lock, `check_targets`), `render` (sampling and
encoding in the temporary directory), `check` to `publishReport` (`commit()`, one phase
per call that touches a target), `undoVideo` to `restoreReport` (its `except` clause),
`cleanup`/`unlock` (`__exit__`). `saved`, `staged` and `published` are `backups`, the
frames still to be moved and the list `published`. A loop of the code over targets or
files is one step per element, so another process or a kill falls between any two.
Every exception is `Fault`: before `commit()` it ends the run, inside it starts the
rollback, inside the rollback it ends it (`abandoned`), and the temporary directory
with whatever was not restored yet is then removed. `Kill` stops a process for good and
leaves its lock and temporary directory; `Tidy` is the user who removes both, as
`docs/deforum-video.md` says. `found` is a history variable, the bundle at the moment of
the lock. The file system is that of one volume: exclusive creation, hard link and
replacement are atomic. A user may at any time make a frames directory or add a file to one
(`UserActs`; `Others` is that file), also to a directory with a marker, before rendering, between the two looks
of a run, and after it. One bound: not while a run is in `commit()` for that directory, whose second look is
the last thing that protects it. `check_targets()` looks at the marker alone, so a marked directory goes under
`--overwrite` with what a user has added, as `docs/deforum-video.md:85` allows; `UsersFramesStay` says that this is
the only way. Left out: what users do to videos, reports and markers, files they delete, and an
interrupt between a call and the assignment that records it.

**`Inspections`.** Requests follow one another, as the lock makes them. `InspectModel` takes or
makes the memo of the model; `ChooseVae` and `ChooseLlm` find the parts it lacks (request, own,
shared) and validate each unless it is the one validated last; `Mount` makes the context (lines
543-593). `InspectRefiner` and `MountRefiner` are 719-757. A failing request ends the contexts and forgets no
inspection. The retry after `sd_model_has_embedded_llm` throws (550) finds the
identity stored and the flag false, so the shared encoder takes the place of an embedded one;
the model does the same, and the properties say only that what is mounted fits.

**`RemoteBatch`.** A client walks through `generate_image()`: choose a free name, take the
lock named after `--output`, check the targets, decode into a private directory, move old
files away, link the new ones one by one, and on an error unlink what was published and rename
the old files back. Every call may fail, and a client may be killed for good, leaving its lock.
`AtomicBatch` knows a whole batch that appears, and a client whose rollback failed, of which nothing is
promised; `Atomic == INSTANCE AtomicBatch WITH ...` maps a batch under way to what was there
before, and `PublishesAtomically` is its specification.

**`ImagePublication`.** Each way of writing images is a program, a sequence of steps. Native: image, digest, report. Diffusers: all images with digests,
then all reports. Pair: report and image by hard link. Folder: everything in a private directory, then one
rename. No lock exists, so runs overwrite one another exactly where the code lets them.

**`PackageCache`.** A package file has states, some corrupt. A run takes the signature, looks
for the marker in the cache, extracts into a private directory, compares digests (worker, in
either mode of validation), takes the signature again, renames, and generates. The native
library checks its package once more after the image; the worker records a digest after the
extraction. The system may purge files of an entry at any time.

**`FileIdentities`.** `Ask` starts a lookup; a miss takes the signature, reads the content in two
halves, takes the signature again and stores. The Python worker has memory and a database
shared by all; sessions keep configurations, the library its identities without a second
look. `TableLimit` stands for the three limits. Between resolving a weight
and verifying it after the load the file may be edited or touched.

**`ConvertedWeights`.** Q8: copy and manifest are two renames, and every lookup compares the
manifest with the full identities and the copy. `Key` is the name of a copy, a hash of 64 bits; `stores` gives
every state of the source its own, `key_collision` gives two states one. Converted checkpoint: one directory and
one rename, the loser uses the winner's. DiT: one link that replaces nothing. Kills, edits and
losses fall between any two steps.

**`LocalRuntime`.** A run stages its model, finds a port by binding it and letting it go, starts its
server, polls until it is up, checks the graph and the output directory, posts one job, writes
`submission.json` by exclusive creation, waits for the history, downloads, reports, stops its server,
verifies its model and publishes its own report. `Execute` is the server; it may crash, lose its history or never answer.

**`Refinement`.** `ResolveTarget`, `StartChain`, `AddStage` and `ResolveSteps` turn a request into the
size of the base and of every stage and the length of their schedule, or a refusal, by the rules of
either front end; `SampleBase` and `RefinePass` take the base and then each stage through it. Fractions are pairs of integers, and rounding is the code's to the
grid of the request; what a float rounds differently is left out.

**`ImageWorkflow`, `WorkflowCheck`.** A graph is a sequence of nodes, each with a class and
links to earlier ones; `wires` is the code's local variables (`model`, `clip`, `latent`, ...).
There is one action per part of `build_workflow()`. `Encoders` and the family sets are the
table `_RECIPES`. `WorkflowCheck` keeps the links of exported nodes; the depth-first walk has the
two sets and the stack of the code, one step per call.

**`WeightedMerge`.** One step per phase of a merge and per tensor: resolve, inspect, hash,
filter, merge, verify the saved file, publish, link. Numbers are integers over a common
denominator `unit`, with `NaN` for every value that is not finite and `Limit` for the range of the
storage type. Sources may be edited and a rival may publish at any step. **`Projection`** is the
mapping of one layout onto another, tensor by tensor in address order: exact, normalized
name, depth, forced, none; then the fit of its shape. **`UnifiedMerge`** plans stages, fuses
adapters and builds the package. **`Adapter`** counts which learned branches become deltas.
Adapters that do not match the base are dropped before stages are planned, so the planner's
branches for bridges, synthetic targets and later checkpoints are never reached; they are
not modelled.

**`GenericGeneration`.** A run is a program again: its adapter and VAE are identified, its inputs
read between two digests, its model loaded between others, the pipeline called, all of them verified, the
report in the directory put aside (with `--overwrite`), every field saved and digested, and
`generation.json` written. `VerifySource` compares contents or, with metadata validation, signatures
(`changes`); a step whose check fails is not enabled, and `FailRun` is every exception. `KillRun` falls between any two steps; `ChangeSource` is
another program, which may also put a content back. `met` is a history variable: who else was publishing. What is promised excepts runs that overwrite while
another publishes, as no lock is taken, and for contents a file that was changed before it was read and
changed back after. `audio` and `audios` have names of their own in the model; the code gives both the same and saves one of them.

**`VideoFrames`.** `PlanShot` is one turn of the loop in `plan_shots()`: frames, keyframes, the grid
of positions that are sampled, the length of the sample. Then keyframes and the LTX model are read, each
between two looks (`HashKeyframe` to `CheckKeyframe`, `StampLtx` to `VerifyLtx`), shots are sampled (`RenderShot`)
and the frames between are interpolated (`InterpolateShot`). A sampled frame is its shot and its
position in the sample, so a frame that is taken from the wrong place is seen. A file that is replaced
never gets an earlier content back here. The model is two files: the tokenizer (with `model_index.json`) is read before
anything is listed (`LoadTokenizer`, `video_runtime.py:77-86`), the weights after every file has its size, time and digest.
So of the weights it is said that what is reported was used, of the tokenizer only that it is there as reported. Prompts, cameras, seeds, strengths and the numbers of the sampler are left out.

## Runs

| Run | Instance | Properties, and what they show |
|---|---|---|
| `engine_safety` | two threads and an outside caller with one model (one of the threads at a time paused, cancelled or late; releasing, replacing); and one thread with component, IP-Adapter, refiner, LoRA and Q8 copy, each replaceable | `ImageIsOneSnapshot`, `ResidentIsComplete`, `ResidentModelMatchesKey`, `ReleaseInUseIsServed`, `NoRecursiveLock`, `OnlyOwnerChangesCache`, `TypeOK`; no deadlock |
| `engine_lost_release` | 2 threads and a release | **violated** `ReleaseIsServed`: finding 1 |
| `models` | a session with two retained placements, a one-request pipeline and the native engine, 3 versions; merges of two materials; layouts; cascades; adapters; two runs of `generate_any.py` in one directory | session: `PublishedIsOneSnapshot`, `RetainedMatchesSignature`, `PreparedIsRequested`, `ErrorLeavesNothing`, `ReleaseFreesSources`, `TypeOK`; merges: `MergesAreTrue`; layouts: `MappingKeepsOrder`; cascades: `CascadeOfItsPlan`; adapters: `BranchesOnce`; installed pipelines: `GenerationIsTrue` |
| `session_hires` | resident and offloading HiRes | **violated** `HooksRemovedBeforeResident`: finding 2 |
| `animation_paths` | 2 runs in two modes, the default path, a numbered one and explicit ones; there may be files, and a user may add frames directories and files to them at any time | `ReportMeansComplete`, `FailureRestores`, `OldBundleSafe`, `CompleteBundleStays`, `UsersFramesStay` under every failure and kill |
| `animation_suffix` | 2 runs, `a.mp4` and `a.gif` | **violated** `CompleteBundleStays`: finding 3 |
| `stores` | two processes at each store, killed and interleaved at every step | batches: `PublishesAtomically` (the refinement), `BatchKept`; packages: `PackageKept`; images: `PublishedImagesAreTrue`; identities: `RecordsAreTrue`, `AnswersArePresent`; conversions: `ConversionsAreTrue` |
| `key_collision` | two converters, two states of a source with one key | **violated** `ManifestNamesItsSource`: finding 7 |
| `remote_overlap` | a batch of two and a batch of one with a file in common | **violated** `RollbackReplacesNothing`: finding 4 |
| `services` | two ComfyUI runs at a server that crashes, stalls and loses answers; two threads at the engine, both may be paused for ever; all requests of the bounded sets through resolution, graph construction and graph check; sequences of requests with inspected models; storyboards | runs: `RunsStayApart`, `ReportsOfTheJob`, `RunEnds` (liveness); engine: `CallsReturn` (liveness, `CancelledReturns` and `UnpausedReturns`); HiRes: `StagesAsAsked`; graphs: `GraphAsAsked`, `AcceptedIsSound`; mounting: `MountedPartsBelong`; videos: `VideoAsPlanned` |
| `local_port` | two managed runs, one free port | **violated** `ImageOfItsModel`: finding 5 |
| `refiner_decoder` | a refiner, a file that is none, the refiner again | **violated** `RefinerHasItsDecoder`: finding 6 |

A property of `stores`, `services` and `models` is a conjunction of named parts, each stated and explained
in its module; the type invariant of the module is one of them. The parts that took most thought:

| Property | Its parts, and the hazard |
|---|---|
| `PublishesAtomically` | every step of a client is a stutter or a whole batch, also with kills; only a rollback that fails itself may leave less |
| `BatchKept` | `OnePublisher`: a refused client does not take the other's lock away; `RollbackReplacesNothing`; `ConfigurationSurvives`: no output is the file the request was read from |
| `PackageKept` | `EntryNamesItsBytes` and `EntryPublishedWhole`, though the package is replaced during extraction and others extract it; `ImageFromOnePackage`, `WorkerVerifiesDigests`, `NativeImageIsPresent` |
| `PublishedImagesAreTrue` | `ReportMeansVerified`, `ReportOfItsImage` with no lock; `FolderIsComplete`, `PairHasReport` after a kill; `NothingReplaced` |
| `RecordsAreTrue`, `AnswersArePresent` | no torn read is stored as true (`RowsAreTrue`), nor under present metadata (`CurrentEntriesAreTrue`); `LoadedWhatWasResolved`, `ReturnsPresent`, `LatestIsKept` |
| `ConversionsAreTrue` | `ReturnsConversion` across two renames, two converters and kills; `CheckpointOfPresentSource`, `TargetNeverReplaced` |
| `RunsStayApart`, `ReportsOfTheJob` | `OneRunPerDirectory`, `NoServerLeft`; `GenerationMeansArtifacts`, `ReportOfStagedModel`, `TimeoutIsRecorded` |
| `StagesAsAsked` | `TargetReached`, `ChainGrows`, `AxesAlike`, `ToldItsSize`, `RefusedForItsSize`: the early refusal refuses nothing that would fit; `ResolvedRefines`, `DefaultsKeepSteps`: no schedule is empty after the base was sampled |
| `GraphAsAsked`, `AcceptedIsSound` | `ComponentsUsed`, `ComponentsReplace`, `LinksFit`, `StagesFollow`, `SizesAgree` for every family; `CyclesFound` for every graph of three nodes, `AcceptedIsWhole` with overrides |
| `MountedPartsBelong` | `DecoderOfTheModel`, `MountedPartsFit`, `RefinerFitsItsBase` after any sequence of requests and failures |
| `MergesAreTrue` | `EachMovesTheBase`: every number is the base's moved by each included material by its own share; `MergeIsTrue`: `RepairNeverFails`, `ReportOfItsSources`, `MergeReplacesNothing`, `ResultIsTrue` |
| `MappingKeepsOrder` | `BlocksInOrder`, `EndsMeet`, `NothingUnrelated`, `NoSpike`, `SamplesSpan` |
| `CascadeOfItsPlan`, `BranchesOnce` | `EachAdapterOnce`, `OrderIsKept`, `MembersOfRecordedSources`, `CascadeReplacesNothing`; every learned branch is applied, and twice only under two names of which one was adapted |
| `GenerationIsTrue` | `ReportOfWhatIsThere` at every step of every run, `NoReportLost`, `SourcesAsReported`, `FieldsAsReturned`: each field once, whole, in one form |
| `VideoAsPlanned` | `TimelineIsWhole`, `KeyframesAtTheirFrames` (a keyframe conditions the sample that becomes its frame; a shot that continues starts from the frame before it), `SamplesSuffice`, `VideoOfItsFiles` (keyframes and weights) |
| `UsersFramesStay` | a directory with a user's file, put there before or while a run renders, changes only under a run with `--overwrite` and if it has the marker of its video and mode |

*Bounds.* `MaxVersion` caps the states of one file, `MaxEpoch` the calls of release.
Two versions are enough for "old and new" to differ at any read, three let a file
change between two signatures and again before verification. Two threads are
enough for one to hold the engine while the other waits, enters, or releases; to keep the
instance in reach only one of the two is paused, cancelled or late at a time. The
instance with one thread has six files in exchange: what it asks
concerns the cache decision, which only the owner of the lock takes; its other
thread waits inside a release, before `try_to_lock`. Both are states of one
`Spec`, and the `CONSTRAINT` of `MCEngineSafety` names the states TLC goes on from.
In the animation runs `Names` lists the default path and its alternatives; where all are taken
the run cannot start, which the code's unbounded numbering never meets. `Remains` bounds what is at the
targets before; a user's file in a directory is one, however many there are.

Stores have two processes each: one to publish while the other is between two of its steps, or is
dead. `MaxPackage`, `MaxWeights` and `MaxSource` are 2 (before and after a replacement),
`MaxHistory` is 2 (a change and a change back), `TableLimit` is 2 with three files, so that the
table overflows; `MaxPurge` and `MaxLosses` are 1. Batches have one image and its report, two
files to publish between which a client may fail.

Services: two commands and one free port, so that ports are shared; `MaxEdit` 2. `MaxSide` 100
stands for 2^31 - 1, `ComfySide` 60 for 16384, `ComfySteps` 15 for 4096 and `MostPasses` 2 for 1000, low enough for
requests to reach each of them. Exported graphs have three nodes, enough for a cycle of any length
up to three and for a node two others need. Requests for graphs have every family, with and without
each component. The two threads of the engine have one file, nothing is replaced and no release called: what
matters there is who holds the lock and who may stop.

Models: two materials under every policy, two tensors of two coordinates, and `Limit` 6, so that sums
overflow the storage type. Cascades have up to four materials and `MaxStages` 3 for 64; layouts have
stacks of up to four blocks, mapped from longer onto shorter ones and back. Installed pipelines: two runs, each
overwriting or not, with declared tensors, tokens, media in batches of up to two or none, and files with two
contents that change twice, one kind at a time. Storyboards have up to two shots of up to 16 frames, rates on both sides of 12 and of the 25 frames
a second of the model, and `MaxReplaced` 1.

Deadlock is checked where a system goes on for ever (`engine_safety`, `models`;
there a merge that has ended may stay so). Batches, runs, conversions and animations end, so
the other configurations do not check it.

*Fairness.* `CallsReturn` assumes weak fairness of `Progress` per thread, of the
release that has begun, and of `Expire`. A thread keeps executing its own code; the
loops poll with 20 ms slices, so waiting is not blocking; the abort callback is polled
between graph evaluations, so a running generation sees the flag or the clock; the
clock advances while the request is not paused (`timedOut` subtracts paused time).
Nothing is assumed about unpausing, cancelling, editing, paging, or winning the lock.
`CancelledReturns` says that again and again a thread is idle, done or not cancelled; since a cancelled request stays so
until the next one begins, this is that each cancelled request returns. `services` assumes the fairness of each module only
of behaviours of that module.

`RunEnds` assumes `RuntimeFairness`: weak fairness of the next step of every run, of its deadline,
and of a failure while it looks for a port or posts its job, since either succeeds or returns an error
within the timeout of the request. Nothing is assumed of servers: they may stay silent, crash or lose
their history for ever, and the run still ends.

## Findings

1. `engine_lost_release`: a release that fails `try_to_lock` is remembered only through
   the epoch. An owner that has locked but not yet constructed `CacheUse` (it may be
   parked there while paused) takes the raised epoch for its own, and an owner past
   `~CacheUse` no longer looks. The weights stay resident although
   `Generation/NativeDiffusion.hpp:179` promises "release idle residency now, or after
   the active GPU call returns". `ReleaseInUseIsServed` is the part that does hold.
2. `session_hires`: an offloading HiRes request forgets the placement
   (`hires.py:141`) and leaves hooks behind; the next resident request for the same
   model then skips `remove_all_hooks`, against `docs/inference-worker.md:79`. No invariant of a
   passing run depends on it.
3. `animation_suffix`: the lock is named after the video, report and frames after its stem.
   A run for `a.gif` without `--overwrite` that passes its last check before a run for
   `a.mp4` completes moves the other's report and frames away (`animation_video.py:199`
   asks for no permission), against `docs/deforum-video.md:85`.
4. `remote_overlap`: the lock is named after `--output` (`remote_generation.py:76`), but a batch of
   two under `image.png` writes `image-0001.png`, which is also all that a batch of one under
   `image-0001.png` writes. A rollback of the first renames the old file over the image the second has
   published meanwhile (113-116), against `docs/model-sources.md:102`.
5. `local_port`: a managed run finds a port by binding a probe and closing it
   (`local_image.py:216-218`). A second run that is given the same number polls it while its own server
   has not yet failed to bind, finds the first run's server, and reports an image made from the other's
   model as its own, though `local_image.py:1` calls the runtime isolated.
6. `refiner_decoder`: `sd_model_inspect_vae()` writes `refinerVaeInfo` in place
   (`NativeDiffusion.cpp:723`) before the file is rejected; `inspectedRefinerIdentity` still names the
   refiner before it. Asked for again, that refiner gets its decoder by what was found in the rejected
   file, against `docs/generation-defaults.md:78`.

7. `key_collision`: `prepareQ8Cache()` renames its copy and then describes, in the manifest, whatever has
   that name (`NativeDiskCache.hpp:77-86`). Where two sources have one key, another process may have renamed its own copy
   over it in between; the manifest then names the one source and vouches for the other's copy, which the
   next lookup returns. `cacheKey()` says of its hash that "full identities below prevent a hash collision from selecting
   another source's weights" (`NativeDiskCache.hpp:18-19`): they do for lookups, not for two converters that meet.

Four observations that no run is about:

- One projection under two names is applied twice if the synthetic policy has adapted one of them. Branches are
  compared with their adaptation reports (`model_merge_lora.py:200`), and a report has the name of the module in it
  (`model_merge_synthetic.py:50`), so two adapted names never agree. The comment at `model_merge_lora.py:196-199`
  ("so the same adapter is applied once") and `docs/model-merging.md:344` (identical projections of equal scale and
  orientation are applied once) except no policy. TLC finds such an adapter at once if the last conjunct of `BranchesOnce`
  is replaced by `FALSE`.
- The tokenizer of a video model is loaded before its files are listed (`video_runtime.py:86-97`); one that is replaced
  in between is used, and the report names the other one. `docs/temporal-video.md:119` says that loading and inference check
  for changes of the source files.
- The only way for a repairing merge to fail for the sake of a material is a pipeline directory with adapter
  keys, which `base-layout` forces in and nothing can open (`model_merge.py:84-85`); `RepairNeverFails` excepts it.
- The retry described under `Inspections`.

## Proofs

`NativeEngineProofs` proves for all `Threads`, `Files`, `Role`, `Requests` and bounds
that satisfy `EngineAssumption`: `EngineTypeOK`, `EngineImageIsOneSnapshot`,
`EngineResidentIsComplete`, `EngineResidentModelMatchesKey`,
`EngineServesReleaseInUse`, `EngineNoRecursiveLock` and the action property
`EngineOnlyOwnerChangesCache`. They follow from one inductive invariant,

    EngineInv == TypeOK /\ LockInv /\ RequestInv /\ VersionInv /\ CaptureInv
                 /\ CompleteInv /\ MountInv /\ UsedInv

and from `ReleaseInv` and `ModelInv` on top of it. The properties are not inductive by
themselves: `ImageIsOneSnapshot` needs that what a context holds of a file lies between
the key it is found by and the file's present state (`MountInv`), that captured
identities are never ahead of the disk (`CaptureInv`), and that the image's bytes lie
between the two (`UsedInv`); when verification then reads the captured version again,
all three coincide. `ResidentIsComplete` needs the shape of the contexts during a load
(`CompleteInv`), and everything needs that only the owner of the mutex is in a use phase
(`LockInv`). `ModelInv` says where in a request the model's bytes are known to be the
ones its key names: not between a load and the verification, and again after it.

`SessionProofs` proves for all `Files`, `Keys`, `NativeKeys`, `Requests` and
bounds that satisfy the module's assumption: `SessionTypeOK`,
`SessionRetainedMatchesSignature`, `SessionPublishedIsOneSnapshot`,
`SessionPreparedIsRequested`, `SessionErrorLeavesNothing`,
`SessionReleaseFreesSources`. `SnapshotInv` is the same argument as the engine's, with
three signatures instead of a key: the one taken before the load, the one compared
after it and the one verified before publication; each is read file by file, so each
conjunct speaks of the files already visited (`todo`). `CommandInv` adds what a command
owes at each of its phases: whether readiness is recorded, whether the placement is the
requested one, whether the native runtime has been registered for release.
Each lemma has one step per action.

`AnimationOutputProofs` proves for all producers, paths, names and requests that satisfy
`AnimationAssumption`: `AnimationTypeOK`; and under `Separate` (no two paths share a stem; what
finding 3 violates) `AnimationReportMeansComplete`, `AnimationFailureRestores`,
`AnimationOldBundleSafe`, `AnimationCompleteBundleStays` and the action property `AnimationUsersFramesStay`. `BundleInv` says for each
phase of a run where each artifact it found is: at its target (`Intact`), in the
temporary directory with its place free (`Moved`), or there with the new one in its
place (`Kept`); that a report present during a rollback means that nothing has been
touched; and that every bundle with a report is whole, at the targets and among what
runs have found. The step lemmas show for a step of one run that it changes only its own
state and targets it has the lock of (`Frame`); `OthersKeepState` and `OthersStayWhole`
carry the rest. `CompleteInv` adds that while a complete bundle may not be overwritten no
other run gets past `check_targets()` at its path. `UserInv` says that a run in `commit()` that has yet to move a
directory with a user's file was asked to overwrite and finds the marker of its video and mode there, and that no user's file is in the
directory that a run fills or takes back. The check gives the first; it lasts, because only the owner of the lock writes there
(`Separate`), the marker is that of a run whose name will not change any more (`Known`), and no user acts during `commit()`.

`StoreProofs` also proves `ConversionsTrue`, for any converters, states of the source and losses,
under `KeysApart`: two states of a source have two keys. `ConversionInv` says what every
converter has read so far at each of its steps (`Progress`) and what follows for the store: a copy is
of the state whose key it has (`CopyOfItsKey`), a directory of the state it is named after, unless it was damaged
(`FolderOfItsId`). `ManifestsTrue` is the same of the manifests. The hypothesis is needed: without it finding 7 is what happens.

`StoreProofs` proves `CacheKept` for any processes, members and corrupt packages. `PackageInv` says how
the package, the name of its directory, what was extracted into the private directory and what the process
took for valid follow one another in time (`Reading`, `Copying`, `Trusted`). The step from entries to images is that a
directory found valid has every member, and that its bytes are its name (`EntryNamesItsBytes`).

And it proves `ImagesTrue`, for any runs, jobs and names and any number of images in a run. `ProgramShape` says, from the four
programs, what the proof needs of all of them: that an image is digested after it was published and reported after
each weight file was verified since it was made, and that a directory is published last. `ImageInv` ties this to the state:
an image made with other weights has a file that differs and was not verified since (`StrangeOK`), a run without `--overwrite`
finds its own image at a name it has used or that of a run with `--overwrite` (`FoundOK`), and of the pairs of one name
only one has linked its report (`PairOK`), so a pair that takes its report back takes nobody else's. That a run names
each image once, and that a pair is one image without `--overwrite`, are assumptions on its arguments
(`generation_output.py:14-17`; `unified_image.py` links both files).

`StoreProofs` proves for any clients, requests and outputs, under `Separate`, `BatchesKept` and
`PublicationIsAtomic`, the refinement of `AtomicBatch`. `Separate` says that batches of two `--output`
share no file; it is what finding 4 violates, and run `remote_overlap` shows what is then lost.
`BatchInv` says that whoever has published a file or holds a backup of one has the lock of its batch, alive or
killed, and that nobody else's file is there (`Owned`); that the files published are those up to the position (`Placed`);
and that a backup another client made is of a batch that is over (`OldBackup`). The mapping shows a place as it was
before the client that hides it. By `HidingAlone` there is one such client for a place, so a step of one
client shows something else only at its own batch and only with its last step: the whole batch (`StepExchanges`) or,
if its rollback fails, what it left (`StepAbandons`).

`ServiceProofs` proves `RunsApart` and `ReportsTrue` for any runs, ports, directories, artifacts and
edits that satisfy `RuntimeAssumption`, which also says that an artifact has none of the names of
the run's own files (`comfyui_runtime.py:310` puts an index before each name). `RuntimeInv` ties where a run is to what it has published and
queued (`ProgressOf`, `ArtifactsOf`), who listens where (`ServersOK`), and the version a job read to the version that was
staged (`VersionsOf`). `FilesOK` is the reason that runs stay apart: a file in a directory belongs to the run whose
`submission.json` is there, and exclusive creation lets only one have it.

It proves `ChecksSound` too, for any nodes, links and overrides. A graph has a cycle when some of its
nodes each depend on another of them, which needs no induction over paths: `WalkInv` says that the open visits
are a chain (`OpenVisits`), so a node met again closes a round of those above it, and that no part of what is
visited goes round (`Settled`), because a node joins it when all it depends on has. An accepted
graph is visited whole (`Covered`).

`ServiceProofs` proves `MountedTogether` for any files, parts, families and requests that satisfy
`InspectionsAssumption`: the resources have a decoder entry for each family that can lack one, and what stands for
"none" is no file and no part. `MountInv` says that what is remembered is of the file whose name is kept with it
(`Remembers`), that from its inspection on a request is served by the model that is remembered (`Serves`), and that the parts
of a request fit that model though they may have been validated for an earlier one (`Chooses`).
Nothing is claimed of `refinerInfo`, which can be of another file than the name beside it (finding 6); the
decoder of the refiner fits because it is validated whenever a context is made.

`SessionProofs` also proves `RecordsTrue` for any readers, files, contents and edits. `IdentityInv` says that a
call that reads a file holds, as long as the file has the signature the call began with, exactly what the file holds
(`CallOK`); the second look then makes the entry true (`EntryTrue`), and the native library, which takes none,
is saved by its signature being a past one. The lemmas about `Without`, `Append` and `Evicted` carry this over the table.

It proves `AnswersPresent` from it. Each step of a reader is, for its calls and its weight, one of five (`MovesOf`): it
answers, with the identity of the file as it is, reads on, gives up, loads or forgets. `WeightOK` says that a weight
was loaded from the state it was resolved in on (`Held`), and, once it verifies, before a later state with the same identity.
With metadata validation the two states are one, since a signature never comes back; with digests they can be two, and
then what was loaded between is the same unless the file was changed and changed back. `LatestOK` says that the file
asked for last is the last entry of the table, where eviction does not reach it if there is room for two.

`GenericGenerationProofs` proves `GenerationIsTrue` for any runs and directories, any arguments and returned
fields, and any changes of the files. A run is a program that is put together from parts, some of
them as many as there are fields, so the first half of the module says what programs look like. `Shape`: all reading
comes first, then the directory is opened, then an overwriting run reserves a name and retires the report, and
the report is written last. `Reads`: a file that is used is identified once, loaded once after that and verified after
that. `Whole`: without a refusal, exactly the outputs of the fields to be saved are saved, each once. That each field is
declared once is an assumption on the arguments (a JSON object has no name twice). `FlattenSeq` is a fold; `FlattenRec`
derives from its definition how it grows by one part, and `PartFlatten` goes on by induction on the number of parts.

`GenerationInv` is about the runs: a report is aside only in the steps around retiring (`AsideInv`); what is listed is what
was digested (`ListInv`); runs that publish at the same time know of each other (`MetInv`), so what a run not overlapped by
an overwriting one has saved and listed is its own (`OwnInv`); the report that is there is that of a run that has ended
publishing, and who could retire it by now met that run (`ManifestInv`); it is never lost (`LostInv`). For the files that are
read, `SourceInv` orders in time what was identified, what was loaded and what is there: a verification after the loading
then leaves equal contents or a file that was changed at least twice, between the digest and the loading and after it.

`ServiceProofs` proves `VideoTrue` (`VideoAsPlanned`) for any storyboards, of any number of shots and keyframes, any
spacing and any replacement of files. `PlanInv` says that each planned shot is what its storyboard says and begins where
the one before it ends; `RenderInv` that a shot is sampled at its positions, after an image of the shot before where it
continues it; `FrameInv` that the frames so far tell the first shots of the plan completely; `KeyInv` and `LtxInv` that what was read of
keyframes and weights is what was hashed, or the verification refuses; of the tokenizer, which is read first, `LtxInv` says only that it is
still what was hashed. The positions are a set of numbers in order, and
`IndexOf` counts the smaller ones, so the frames between two of them follow from `Ranks` (`DataLemmas`): counting is an
order isomorphism onto the first numbers. The frame between two positions is then nearer to none that was skipped.

It proves `StagesTrue` (`StagesAsAsked`) for requests of any size, ratio, strength, number of passes and grid
(`RefinementAssumption` says what the parsers let through). The chain of stages is computed by recursion: `ChainRec` gives
its equation and `ChainGains`, by induction, that each stage gains at least what the first one did, so a request that is refused
early for its number of passes would have come to a side that is too large (`PassesTooMany`). That both axes keep the ratio of the request is what `NearestIs` and `HalfIs` say of
a rounded quotient: it is within half a step of the grid. `CountsExecute` and `ExecutesTen` are about the steps of a schedule
that a strength leaves. `HiresInv` carries that the stages so far are those of the chain (`HiresStages`), what the base
was told (`HiresBase`), the schedule (`HiresSchedule`), what was sampled and how (`HiresSampled`) and for what a request was refused.

`ModelProofs` proves `CascadeTrue` (`CascadeOfItsPlan`) for any requests of any length: an adapter looks for its targets in the base
and in checkpoints (`CascadeAssumption`). The plan is a function of the request, `PlanOf`; `Stages` and `AdaptersOf` are sets in
order (`SortedSets`), and `AscendingSorts` says that such a sequence has every member once and rises. That the target is there, and is the nearest,
follows from the base being among the matches of each adapter kept. `CascadeInv` adds that a member's bytes are no
older than the hashes and no younger than the sources (`MadeSince`): when the verification finds sources and hashes equal, all three are.

It proves `BranchesTrue` (`BranchesOnce`) for any adapters, targets and values. `Collected` says that the order in which modules were met
has all of them, by their first tensors; `PreparedTo(n)` that the deltas so far are the branches of the first n modules, no two of
them equal with their reports. Two that are equal without them have two reports, of which one is of an adapted module.
A branch that is there already has the same target, which has rows (`AdapterAssumption`), so the two overlap (`SameBranch`):
this is why looking for identical branches only among those that overlap finds them all.

It proves `MergesTrue` (`MergesAreTrue`) for requests of any number of materials and tensors, with any coefficients and numbers
(`MergeAssumption`: the base's numbers are within the range of its storage, a tensor that is not of floating point numbers has
finite ones, adapters are not quantized). `SharesAre` says that the coefficients add up: what the
checkpoints take of a sum the base leaves, also where they were brought down to one; `WantedIs` that each material has its own, whatever was
left out before it. So each part of the sum that the code accumulates is a move away from the base and a share of it
(`CheckpointPart`, `AdapterPart`), and the shares are one base (`BlendIs`). A tensor to which nothing applies has only moves of zero, so it may be
the base's again. `MergeInv` adds that a tensor says it changed exactly when it did (`OutcomeTrue`, hence the two counts agree), and that what was read of a
source is no older than its digest and no younger than the source (`MergeEditions`). Sums are folds too: `SumRec` (`DataLemmas`) gives
their recursion, and the lemmas after it that they are linear, and do not depend on the order or on zeroes.

It proves `MappingTrue` (`MappingKeepsOrder`) for any two layouts, of any tensors, depths and shapes (`PairingAssumption`: a tensor
without a number in it is never learned, and an address has one group). `ProjectionInv` is short, a route is a function of
the pairing; the work is in that function. A nearest candidate exists (`NearestIs`), because lexicographic order of
fractions is total and transitive, so nobody is at a lesser distance than the one that is taken (`ByDepthIs`). Two tensors of one role
have the same candidates, and what is nearest to the lesser of two places is not beyond what is nearest to the other
(`OrderKept`); a first block is at distance zero of a first block (`AtTheSame`). On the way from one shape to another either no fitted axis
has grown, or every axis still to be fitted will not shrink (`PassingWithin`); products, as sums, are folds (`ProductRec`), in the
order of their factors. Distances of logarithms are compared as ratios, so nothing is said of the rounding of `math.log2`.

Induction over data: the induction theorems of the library take an operator, which no installed prover can
instantiate, but a set of natural numbers will do in its place (`SetInduction`, from `LeastNatural`). For that the
function that is defined by recursion must have its recursive equation as a fact. The library's folds give it by
their definition, with `CHOOSE` over functions; this is how `FlattenSeq` is dealt with.

Only model-checked: liveness (`CallsReturn`, `RunEnds`), which is beyond the prover, and `GraphAsAsked`.
What is downstream of a node of a graph is computed by recursion over the graph, for each of eleven
families of graphs, and needs an induction of its own for each, which has not been done.

## Plan

1. Done: `NativeEngine`, `InferenceSession`, `AnimationOutput` and their proofs; the stores
   (`RemoteBatch` with `AtomicBatch`, `ImagePublication`, `PackageCache`, `FileIdentities`,
   `ConvertedWeights`); the ComfyUI side (`LocalRuntime`, `Refinement`, `ImageWorkflow`,
   `WorkflowCheck`); `Inspections`; merges.
   Then the proofs of the stores and of the ComfyUI runs, with the refinement of `AtomicBatch`; `GenericGeneration`;
   `VideoFrames`; proofs of these two, of weighted merges, layouts, cascades, adapters and HiRes Fix.
2. Next, a proof of `GraphAsAsked`.
3. Then `ResidencyCache`, an abstract cache that engine and session refine; native video beside the
   engine; the cleanup of abandoned package files; the telemetry sampler; the layer split.

## Not modelled

Parsing of arguments and prompts, manifests, the formats of images, archives and tensors, the renaming
of tensors in conversions, and the arithmetic of tensors and pixels beyond which number goes where: no
state between calls and nothing concurrent. Sampling, schedules and interpolation of animations are number
work. Statistics, telemetry and progress numbers: no property is about them. Native video, package
creation, telemetry and the compute backends have state of their own and are left for later. The vendored
patches, the GPU runtime and the ComfyUI server are external and appear only as the code uses
them. Every component is listed with its status in `PROJECT.json`.
