----------------------------- MODULE Refinement -----------------------------
(***************************************************************************)
(* HiRes Fix: a base image and refinements of it, the last of the size     *)
(* that was asked for.  A request is resolved to the size of the base,     *)
(* the sizes of the stages and the length of their schedule, by            *)
(* hires_options.py for the diffusers front and by                         *)
(* comfyui_image_workflow.py for the ComfyUI one; then the base and the    *)
(* stages are sampled.  Fractions are pairs; what floats round is left out. *)
(***************************************************************************)
EXTENDS Integers, Sequences

CONSTANTS
    Orders,    \* the requests, as a set of sets of records
    MaxSide,   \* 2^31 - 1, the largest side
    ComfySide, \* 16384, the largest side of ComfyUI's ImageScale
    ComfySteps, \* 4096, the longest schedule of the ComfyUI front
    MostPasses \* 1000, the most passes over a target

Families == {"sd15", "sdxl-base", "flux1-schnell"}
Methods  == {"target", "scale", "explicit"}
None     == <<0, 1>>
Unsaid   == <<0, 0>>
Axis     == 1..2
Pair     == [Axis -> Nat]

\* A request as the parsers of the options and their checks of type let it through; 0 is what is not given.
IsOrder(o) ==
    /\ o \in [front : {"diffusers", "comfy"}, family : Families, size : Pair, told : Pair, fix : BOOLEAN,
             passes : Nat, method : Methods, ratio : Pair, goal : Pair, steps : Nat \ {0},
             hiresSteps : Nat, strength : Pair, grid : Nat \ {0}]
    /\ o.method = "explicit" => o.front = "diffusers"
    /\ o.method = "explicit" <=> o.goal # Unsaid
    /\ o.method = "scale" => o.ratio[2] # 0
    /\ o.strength # None => 0 < o.strength[1] /\ o.strength[1] <= o.strength[2]

ASSUME RefinementAssumption ==
    /\ MaxSide \in Nat /\ ComfySide \in Nat /\ ComfySteps \in Nat /\ MostPasses \in Nat
    /\ \A kind \in Orders : \A o \in kind : IsOrder(o)

VARIABLES
    order,    \* the request
    phase,    \* where it is
    baseSize, \* size of the base image
    stages,   \* sizes of the refinements
    schedule, \* full length of the schedule of a refinement
    sampled,  \* images made: size, size SDXL was told, steps denoised
    refusal   \* why it was refused

refinementVars == <<order, phase, baseSize, stages, schedule, sampled, refusal>>

Larger(a, b) == IF a < b THEN b ELSE a
Ceiling(n, d) == (n + d - 1) \div d

\* Round half up, to a multiple of m: _nearest_multiple() of v * r, _proportional_dimension().
NearestMultiple(v, r, m) == ((2 * v * r[1] + r[2] * m) \div (2 * r[2] * m)) * m

\* round() of Python: halves go to the even neighbour.
RoundHalfEven(n, d) == LET q == (2 * n + d) \div (2 * d) IN
    IF (2 * n + d) % (2 * d) = 0 /\ q % 2 = 1 THEN q - 1 ELSE q

Passes(o)   == IF o.passes = 0 THEN 1 ELSE o.passes
Strength(o) == IF o.strength # None THEN o.strength
               ELSE IF o.front = "diffusers" /\ o.family = "sdxl-base" THEN <<1, 4>> ELSE <<7, 20>>

RefinementInit ==
    /\ \E kind \in Orders : order \in kind
    /\ phase = "size" /\ baseSize = order.size /\ stages = <<>> /\ schedule = 0
    /\ sampled = <<>> /\ refusal = "none"

Refuse(reason) == phase' = "refused" /\ refusal' = reason

\* Without --hires-fix its options are refused, and the image is sampled as it is.
SkipRefinement ==
    /\ phase = "size" /\ ~order.fix
    /\ IF order.passes # 0 \/ order.method # "target" \/ order.strength # None \/ order.hiresSteps # 0
       THEN Refuse("options") ELSE phase' = "base" /\ UNCHANGED refusal
    /\ UNCHANGED <<order, baseSize, stages, schedule, sampled>>

TargetLimit(o) == IF o.front = "comfy" THEN ComfySide ELSE MaxSide

\* A side is off the grid, too large, or has no half.
OutOfBounds(o) == \E a \in Axis :
    o.size[a] % o.grid # 0 \/ o.size[a] > TargetLimit(o) \/ o.size[a] < 2 * o.grid

\* The base is half the target, and every pass refines the target.
ResolveTarget ==
    /\ phase = "size" /\ order.fix /\ order.method = "target"
    /\ IF Passes(order) > MostPasses \/ OutOfBounds(order)
       THEN Refuse("target") /\ UNCHANGED <<baseSize, stages>>
       ELSE /\ baseSize' = [a \in Axis |-> NearestMultiple(order.size[a], <<1, 2>>, order.grid)]
            /\ stages' = [i \in 1..Passes(order) |-> order.size]
            /\ phase' = "steps" /\ UNCHANGED refusal
    /\ UNCHANGED <<order, schedule, sampled>>

\* A chain starts from a size, explicit sizes are on the grid, and a scale enlarges.
StartChain ==
    /\ phase = "size" /\ order.fix /\ order.method # "target"
    /\ IF \/ \E a \in Axis : order.size[a] \notin 1..MaxSide \/ order.goal[a] % order.grid # 0
          \/ order.method = "scale" /\ order.ratio[1] <= order.ratio[2]
       THEN Refuse("chain") ELSE phase' = "chain" /\ UNCHANGED refusal
    /\ UNCHANGED <<order, baseSize, stages, schedule, sampled>>

Other(a) == 3 - a

\* The first stage: scaled, or given; an axis that is not given keeps the proportion.
First(o) == [a \in Axis |->
    IF o.method = "scale" THEN NearestMultiple(o.size[a], o.ratio, o.grid)
    ELSE IF o.goal[a] # 0 THEN o.goal[a]
    ELSE NearestMultiple(o.goal[Other(a)], <<o.size[a], o.size[Other(a)]>>, o.grid)]

\* Mutant: the ratio is one of the wrong axis.
AfterMutant(o, s) == [a \in Axis |->
    NearestMultiple(s[a], IF o.method = "scale" THEN o.ratio ELSE <<First(o)[1], o.size[1]>>, o.grid)]

\* The stage after one of size s: the scale, or the ratio of the first stage, once more.
After(o, s) == [a \in Axis |->
    NearestMultiple(s[a], IF o.method = "scale" THEN o.ratio ELSE <<First(o)[a], o.size[a]>>, o.grid)]

Enlarges(s, t) == (\A a \in Axis : s[a] <= t[a]) /\ s # t

\* The sides grow at least as much with every pass: too many passes are refused at the first.
TooMany(o, t) == \E a \in Axis : o.size[a] + (t[a] - o.size[a]) * Passes(o) > MaxSide

\* One iteration of resolve_hires_stage_sizes().
AddStage ==
    /\ phase = "chain"
    /\ LET last == IF stages = <<>> THEN order.size ELSE stages[Len(stages)]
           next == IF stages = <<>> THEN First(order) ELSE After(order, last)
       IN  IF ~Enlarges(last, next) \/ \E a \in Axis : next[a] > MaxSide
           THEN Refuse("chain") /\ UNCHANGED stages
           ELSE IF stages = <<>> /\ TooMany(order, next)
           THEN Refuse("passes") /\ UNCHANGED stages
           ELSE /\ stages' = Append(stages, next) /\ UNCHANGED refusal
                /\ phase' = IF Len(stages) + 1 < Passes(order) THEN "chain" ELSE "steps"
    /\ UNCHANGED <<order, baseSize, schedule, sampled>>

\* Steps that are left of a schedule of n steps, as the resolution counts them.
Counted(o, n) == LET s == Strength(o) IN
    IF o.front = "comfy" THEN RoundHalfEven(n * s[1], s[2])
    ELSE IF o.family = "flux1-schnell" THEN n - (n * (s[2] - s[1])) \div s[2]
    ELSE (n * s[1]) \div s[2]

\* Steps that the sampler executes: get_timesteps() of the img2img pipelines and of ComfyUI's
\* SplitSigmasDenoise.
Executed(o, n) == LET s == Strength(o) IN
    IF o.front = "comfy" THEN RoundHalfEven(n * s[1], s[2])
    ELSE IF o.family = "flux1-schnell" THEN Ceiling(n * s[1], s[2])
    ELSE (n * s[1]) \div s[2]

\* The default length leaves one step, for SDXL ten; ComfyUI has no default in a chain.
Schedule(o) == LET s == Strength(o)
                   keep == IF o.front = "diffusers" /\ o.family = "sdxl-base" THEN 10 ELSE 1 IN
    IF o.hiresSteps # 0 THEN o.hiresSteps
    ELSE IF o.method = "target" \/ keep = 10 THEN Larger(o.steps, Ceiling(keep * s[2], s[1]))
    ELSE o.steps

\* resolve_hires_options() and resolve_workflow_hires() from strength on, and the checks of
\* the base size in validate_generation_arguments() and build_workflow().
ResolveSteps ==
    /\ phase = "steps"
    /\ schedule' = Schedule(order)
    /\ IF Counted(order, Schedule(order)) < 1 THEN Refuse("steps")
       ELSE IF order.front = "comfy" /\ (Schedule(order) > ComfySteps
                   \/ \E i \in DOMAIN stages : \E a \in Axis : stages[i][a] > ComfySide)
       THEN Refuse("comfy")
       ELSE phase' = "base" /\ UNCHANGED refusal
    /\ UNCHANGED <<order, baseSize, stages, sampled>>

\* The sizes SDXL is told: those of the request become those of the base, others are the user's.
BaseTold(o) == IF o.told \in {Unsaid, o.size} THEN baseSize ELSE o.told

\* The base, on the grid.
SampleBase ==
    /\ phase = "base"
    /\ IF \E a \in Axis : order.size[a] = 0 \/ order.size[a] % order.grid # 0
       THEN Refuse("grid") /\ UNCHANGED sampled
       ELSE /\ sampled' = <<[size |-> baseSize, told |-> BaseTold(order), steps |-> order.steps]>>
            /\ phase' = IF stages = <<>> THEN "publish" ELSE "refine"
            /\ UNCHANGED refusal
    /\ UNCHANGED <<order, baseSize, stages, schedule>>

\* _run_hires_pass(): the last image is scaled to the size of the stage and refined; no
\* executed step, or an image of another size, is an error.
RefinePass ==
    /\ phase = "refine"
    /\ LET size == stages[Len(sampled)] IN
       /\ sampled' = Append(sampled, [size |-> size, told |-> size, steps |-> Executed(order, schedule)])
       /\ phase' = IF Executed(order, schedule) = 0 THEN "failed"
                   ELSE IF Len(sampled) < Len(stages) THEN "refine" ELSE "publish"
    /\ UNCHANGED <<order, baseSize, stages, schedule, refusal>>

RefinementNext ==
    \/ SkipRefinement \/ ResolveTarget \/ StartChain \/ AddStage \/ ResolveSteps
    \/ SampleBase \/ RefinePass

RefinementSpec == RefinementInit /\ [][RefinementNext]_refinementVars

-----------------------------------------------------------------------------
OnGrid(s) == \A a \in Axis : s[a] > 0 /\ s[a] % order.grid = 0
Final == sampled[Len(sampled)]

\* The sizes and the number of images fit the plan (hires_options.py:154, hires.py:220).
RefinementTypeOK ==
    /\ Len(sampled) <= Len(stages) + 1
    /\ phase = "publish" => Len(sampled) = Len(stages) + 1 /\ \A i \in DOMAIN sampled : OnGrid(sampled[i].size)

\* The published image has the size that was asked for, also on sides of which the half is
\* not on the grid, and the base is half as large to the nearest grid line, never larger
\* than the target (hires_options.py:177-191, comfyui_image_workflow.py:136-143).
TargetReached == phase = "publish" /\ order.method = "target" =>
    /\ Final.size = order.size
    /\ order.fix => \A a \in Axis :
          /\ baseSize[a] <= order.size[a]
          /\ 2 * baseSize[a] - order.size[a] \in -order.grid .. order.grid

\* No stage of a chain throws away pixels of the one before (hires_options.py:139).
ChainGrows == order.method # "target" =>
    \A i \in DOMAIN stages : Enlarges(IF i = 1 THEN order.size ELSE stages[i - 1], stages[i])

Turn(s) == <<s[2], s[1]>>
Turned  == [order EXCEPT !.size = Turn(@), !.goal = Turn(@), !.told = Turn(@)]
\* An explicit first size is kept, and a chain treats its axes alike: a request turned by 90
\* degrees has the turned stages (hires_options.py:139-160).
AxesAlike == order.method # "target" =>
    \A i \in DOMAIN stages :
        /\ i > 1 => stages[i] = Turn(After(Turned, Turn(stages[i - 1])))
        /\ i = 1 => \A a \in Axis : order.goal[a] \in {0, stages[1][a]}

ChainOf(o) == LET f[n \in 1..Passes(o)] == IF n = 1 THEN First(o) ELSE After(o, f[n - 1]) IN f
\* "Growth never shrinks under a fixed positive multiplier" (hires_options.py:142): a request
\* on the grid that is refused at the first stage would have passed the limit at the last.
RefusedForItsSize == refusal = "passes" /\ OnGrid(order.size) =>
    \E n \in 1..Passes(order), a \in Axis : ChainOf(order)[n][a] > MaxSide

\* What resolved does not fail for an empty schedule after the base has been sampled
\* (hires_options.py:236, comfyui_image_workflow.py:131, hires.py:50).
ResolvedRefines == phase # "failed"

\* Without --hires-steps a target is refused for no strength, and SDXL keeps ten steps
\* (hires_options.py:206).
DefaultsKeepSteps == order.hiresSteps = 0 /\ order.fix =>
    /\ order.method = "target" => refusal # "steps"
    /\ phase = "publish" /\ order.front = "diffusers" /\ order.family = "sdxl-base" => Final.steps >= 10

\* SDXL is told the size it samples, in every stage, unless the user gave sizes for the base
\* (hires_options.py:268, 298).
ToldItsSize == \A i \in DOMAIN sampled : i > 1 \/ order.told = Unsaid => sampled[i].told = sampled[i].size

\* The stages are those that were asked for, in size and in length, and what resolves can be run.
StagesAsAsked ==
    /\ RefinementTypeOK /\ TargetReached /\ ChainGrows /\ AxesAlike /\ ToldItsSize
    /\ RefusedForItsSize /\ ResolvedRefines /\ DefaultsKeepSteps
=============================================================================
