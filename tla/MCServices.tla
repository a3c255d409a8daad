----------------------------- MODULE MCServices -----------------------------
(***************************************************************************)
(* Small instances, for TLC, of the ComfyUI runtime, of the native engine  *)
(* under fairness and of what it mounts, of the modules that resolve and   *)
(* check requests, and of videos.  They share no state; a behaviour is one *)
(* of one of them, the others stay in an initial state.                    *)
(***************************************************************************)
EXTENDS LocalRuntime, Refinement, ImageWorkflow, MCInspections, WorkflowCheck, VideoFrames, TLC

CONSTANTS c1, c2, p1, up, d1, d2, a1, i1, i2, t1, t2, ext, weights,
          Threads, Controlled, External, Role, Free, MaxVersion, MaxEpoch

VARIABLE service   \* the module whose behaviour it is

VARIABLES version, mutex, cacheKey, loaded, epoch, trying, deferred, pc, request, captured,
          todo, usedEpoch, used, onDisk, outcome, cancelled, paused, late

\* Two threads whose requests use one file: what matters is who holds the lock and who may
\* stop.
ModelOnly == [f \in {weights} |-> "model"]
OneJob    == {[files |-> {weights}, prepareOnly |-> FALSE]}
Engine    == INSTANCE NativeEngine WITH Files <- {weights}, Requests <- OneJob, expired <- late

engineVars == <<version, mutex, cacheKey, loaded, epoch, trying, deferred, pc, request, captured,
                todo, usedEpoch, used, onDisk, outcome, cancelled, paused, late>>

Services == {"runtime", "engine", "size", "graph", "mounts", "check", "video"}
NotNow(s) == service # s

-----------------------------------------------------------------------------
\* A user's own server with a client and a client, a run of its own, or a validation.
Run(m, d) == [mode |-> m, dir |-> d]
MCRequests == {c1 :> Run("external", d1) @@ c2 :> Run(m, d1) : m \in {"external", "managed", "validate"}}

\* Two managed runs into directories of their own, for the violation.
ManagedRuns == {c1 :> Run("managed", d1) @@ c2 :> Run("managed", d2)}

-----------------------------------------------------------------------------
Asked(front, family, size, told, fix, passes, method, ratio, goal, steps, hires, strength) ==
    [front : front, family : family, size : size, told : told, fix : fix, passes : passes, method : method,
     ratio : ratio, goal : goal, steps : steps, hiresSteps : hires, strength : strength, grid : {8}]

\* Sizes and ratios, sizes given explicitly, numbers of steps.
Sides    == {12, 16, 24, 40}
Goals    == ({0, 12, 32, 40} \X {0, 24, 64}) \ {<<0, 0>>}
Both     == {"diffusers", "comfy"}
ByRatio  == {"target", "scale"}
Shapes   == Asked(Both, {"sdxl-base"}, Sides \X Sides, {Unsaid, <<16, 24>>}, {TRUE}, {0, 2, 3}, ByRatio,
                  {<<1, 1>>, <<5, 4>>, <<3, 2>>}, {Unsaid}, {4}, {0}, {None})
Explicit == Asked({"diffusers"}, {"sdxl-base"}, (Sides \X Sides) \cup {<<0, 24>>}, {Unsaid}, {TRUE}, {1, 2, 3}, {"explicit"},
                  {None}, Goals, {4}, {0}, {None})
Lengths  == Asked(Both, Families, {<<24, 40>>}, {Unsaid}, BOOLEAN, {0}, ByRatio, {<<3, 2>>}, {Unsaid},
                  {1, 4, 12}, {0, 2, 4, 12}, {None, <<1, 20>>, <<1, 3>>, <<1, 8>>, <<1, 1>>})
MCOrders == {Shapes, Explicit, Lengths}
AnyOrder == CHOOSE o \in Lengths : ~o.fix

-----------------------------------------------------------------------------
Queried(families, local, agrees, bundled, denoiser, types, parts, count, option, absent, listed, sampling) ==
    [family : families, local : local, agrees : agrees, bundled : bundled, denoiser : denoiser, type : types,
     parts : parts, stages : count, negative : option, guidance : option, clipSkip : option,
     prediction : option, shift : option, absent : absent, listed : listed, lcm : sampling, zsnr : sampling]

\* Components of a local model, missing nodes, and the options of a checkpoint, of which two families have LCM models.
Text(n)     == {"vae"} \cup (IF n >= 1 THEN {"text_encoder"} ELSE {}) \cup {"text_encoder_" \o ToString(k) : k \in 2..n}
Parts       == {{}, {"model_negative"}, {"decoder"}, Text(1) \cup {"decoder"}, Text(1) \cup {"model_negative"},
                Text(1) \cup {"text_encoder_3"}} \cup {Text(n) : n \in 0..4}
OfModel     == Queried(DOMAIN Encoders, {TRUE}, {TRUE}, BOOLEAN, BOOLEAN, {"auto"}, Parts, {2}, {FALSE}, {"none"},
                       {TRUE}, {FALSE})
MissingNode == Queried({"sdxl", "hunyuandit"}, BOOLEAN, {FALSE}, {FALSE}, BOOLEAN, {"auto", "diffusion_model"},
                       Parts, {0}, {FALSE}, {"VAELoader"}, BOOLEAN, {FALSE})
Options(families, sampling) ==
    Queried(families, {FALSE}, {FALSE}, {FALSE}, {FALSE}, {"checkpoint"}, {{}}, {1}, BOOLEAN, {"none"}, {TRUE}, sampling)
MCInquiries == {OfModel, MissingNode, Options(DOMAIN Encoders, {FALSE}), Options({"sd1", "sdxl"}, BOOLEAN)}
AnyInquiry  == CHOOSE i \in MissingNode : TRUE

-----------------------------------------------------------------------------
\* Every graph of three nodes, and overrides of graphs that may be incomplete.
MCIds == 1..3
GraphOf(present, l, faulty, saving, overridden, by) ==
    [present : present, links : l, faulty : faulty, saving : saving, overridden : overridden, by : by]
Graphs      == GraphOf({MCIds}, [MCIds -> SUBSET MCIds], {{}}, {{3}}, {{}}, {{}})
Overrides   == GraphOf({{}, {1, 2}, MCIds}, [MCIds -> {{}, {1}}], {{}, {2}}, {{}, {2}, {3}},
                       {{}, {1}, {3}}, {{2}, {3}})
MCWorkflows == {Graphs, Overrides}
AnyWorkflow == CHOOSE w \in Overrides : TRUE

-----------------------------------------------------------------------------
ShotOf(count, firsts, lasts, others, continues) ==
    [frames : count, duration : {NotSaid}, first : firsts, last : lasts, conditions : others, continues : continues]
BoardOf(rates, factor, count, time, remotes, shots) ==
    [fps : rates, factor : {factor}, frames : count, duration : time, first : {NotSaid}, last : {NotSaid},
     remote : remotes, shots : shots]
Key(i, f) == [image |-> i, frame |-> f]

\* One shot with keyframes on and off the grid, two shots, and durations.
Keyed     == {<<>>, <<Key(i2, 0)>>, <<Key(i1, 3)>>, <<Key(i1, 4), Key(i2, 1)>>}
AloneShot == ShotOf({2, 12}, {NotSaid, i1}, {NotSaid, i2}, Keyed, BOOLEAN)
ShotAfter == ShotOf({7}, {NotSaid}, {NotSaid}, Keyed, BOOLEAN)
PlainShot == ShotOf({6}, {NotSaid}, {NotSaid}, {<<>>}, {FALSE})
TimedShot == [frames : {NotSaid, 5}, duration : {NotSaid, 1, 4}, first : {NotSaid, i1}, last : {NotSaid},
              conditions : {<<>>}, continues : {FALSE}]
Alone  == BoardOf({60}, 2, {9}, {NotSaid}, {FALSE}, {<<s>> : s \in AloneShot})
Pairs  == BoardOf({24}, 4, {9}, {NotSaid}, {FALSE}, PlainShot \X ShotAfter)
Timed  == BoardOf({12, 13}, 2, {NotSaid, 8}, {NotSaid, 5}, {TRUE}, {<<s>> : s \in TimedShot})
MCStoryboards == {Alone, Pairs, Timed}
AnyBoard == CHOOSE b \in Timed : TRUE

-----------------------------------------------------------------------------
ServicesInit ==
    /\ service \in Services
    /\ IF NotNow("runtime") THEN mode = [c \in Commands |-> "external"] ELSE TRUE
    /\ RuntimeInit
    /\ Engine!Init
    /\ IF NotNow("size") THEN order = AnyOrder ELSE TRUE
    /\ RefinementInit
    /\ IF NotNow("graph") THEN inquiry = AnyInquiry ELSE TRUE
    /\ WorkflowInit
    /\ InspectionsInit
    /\ IF NotNow("check") THEN workflow = AnyWorkflow ELSE TRUE
    /\ CheckInit
    /\ IF NotNow("video") THEN board = AnyBoard ELSE TRUE
    /\ VideoInit

RestStay ==
    /\ UNCHANGED service
    /\ IF NotNow("runtime") THEN UNCHANGED runtimeVars ELSE TRUE
    /\ IF NotNow("engine") THEN UNCHANGED engineVars ELSE TRUE
    /\ IF NotNow("size") THEN UNCHANGED refinementVars ELSE TRUE
    /\ IF NotNow("graph") THEN UNCHANGED workflowVars ELSE TRUE
    /\ IF NotNow("mounts") THEN UNCHANGED inspectionVars ELSE TRUE
    /\ IF NotNow("check") THEN UNCHANGED checkVars ELSE TRUE
    /\ IF NotNow("video") THEN UNCHANGED videoVars ELSE TRUE

ServicesNext ==
    \/ service = "runtime" /\ RuntimeNext /\ RestStay
    \/ service = "engine" /\ Engine!Next /\ RestStay
    \/ service = "size" /\ RefinementNext /\ RestStay
    \/ service = "graph" /\ WorkflowNext /\ RestStay
    \/ service = "mounts" /\ InspectionsNext /\ RestStay
    \/ service = "check" /\ CheckNext /\ RestStay
    \/ service = "video" /\ VideoNext /\ RestStay

ServicesVars == <<service, runtimeVars, engineVars, refinementVars, workflowVars, inspectionVars,
                  checkVars, videoVars>>

\* A run that is not stopped goes on, and time passes.  Nothing is assumed of servers.  A port
\* is found and a request is answered or times out, which is a failure of the run.  (Where another
\* module moves, nothing is asked of the runtime, nor of the engine below.)
RuntimeFairness == \A c \in Commands :
    /\ WF_runtimeVars(service = "runtime" /\ RunStep(c))
    /\ WF_runtimeVars(service = "runtime" /\ PassDeadline(c))
    /\ WF_runtimeVars(service = "runtime" /\ spot[c] \in {"probe", "post"} /\ RunFails(c))

\* A thread keeps running its request, a release returns, and the clock moves on while a request
\* is not paused.
EngineFairness ==
    /\ \A t \in Threads : /\ WF_engineVars(service = "engine" /\ Engine!Progress(t))
                         /\ WF_engineVars(service = "engine" /\ Engine!Expire(t))
    /\ \A p \in Engine!Callers : WF_engineVars(service = "engine" /\ Engine!ReleaseTry(p))

ServicesSpec ==
    ServicesInit /\ [][ServicesNext]_ServicesVars /\ RuntimeFairness /\ EngineFairness

\* Every run ends for good, also when the server never answers or never finishes.
RunEnds == \A c \in Commands : <>[](service = "runtime" => spot[c] \in Finals)

\* Every call of the engine returns, if it is cancelled or not paused for ever.
CallsReturn == Engine!CallsReturn
=============================================================================
