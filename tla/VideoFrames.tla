---------------------------- MODULE VideoFrames ----------------------------
(***************************************************************************)
(* From a storyboard to the frames of a video.  Its shots are planned on   *)
(* one timeline, an LTX model or an endpoint samples some frames of each,  *)
(* and the interpolator makes the ones between them (video_options.py,     *)
(* video_runtime.py, remote_generation.py, video_interpolator.py).  Other  *)
(* programs replace the model and the keyframes meanwhile.                 *)
(*                                                                         *)
(* A file's content is the number of times it was replaced.  A sampled     *)
(* frame is the shot and the position in what was sampled for it.          *)
(***************************************************************************)
EXTENDS Integers, Sequences, SequencesExt, FiniteSets

CONSTANTS
    Storyboards,  \* sets of requests: fps, factor, and the shots with what they say
    Pictures,     \* image files that may be keyframes
    NotSaid,      \* a field that is not given
    FewestFrames, MostFrames,  \* _frame_count()'s 2 and 4097
    SourceRate,   \* LTX_SOURCE_FPS
    MaxReplaced   \* bound: replacements of one file

\* The files of a model that load_tokenizer() reads, and those that from_pretrained() reads.
LtxFiles   == {"tokenizer", "weights"}
VideoFiles == Pictures \cup LtxFiles
VideoStages == {"plan", "keyframes", "list", "verify", "render", "interpolate", "done", "refused", "failed"}
ReadSteps == {"none", "stamped", "hashed", "read", "loaded"}

\* A request; a shot says only what it has of its own.
Shots == [frames : Int \cup {NotSaid}, duration : Int \cup {NotSaid}, continues : BOOLEAN,
          first : Pictures \cup {NotSaid}, last : Pictures \cup {NotSaid},
          conditions : Seq([image : Pictures, frame : Int])]
IsBoard(b) ==
    /\ b.fps \in Nat \ {0} /\ b.factor \in Nat \ {0} /\ b.remote \in BOOLEAN
    /\ {b.first, b.last} \subseteq Pictures \cup {NotSaid}
    /\ b.shots \in Seq(Shots)

ASSUME VideoAssumption ==
    /\ LtxFiles \cap Pictures = {} /\ NotSaid \notin Int \cup Pictures
    /\ \A boards \in Storyboards : \A b \in boards : IsBoard(b)
    /\ SourceRate \in Nat \ {0} /\ MaxReplaced \in Nat
    /\ FewestFrames \in Nat /\ MostFrames \in Nat /\ 2 <= FewestFrames

VARIABLES
    board,    \* the request
    stage,    \* where the command is
    plan,     \* the shots planned: start, frames, positions, conditions
    content,  \* file -> its content
    keyframe, \* image -> how far it is read, and the contents it was hashed and decoded with
    ltx,      \* model file -> how far it is listed, and its content at its stamp, digest and use
    rendered, \* for each shot rendered: the frames sampled, and the images it was conditioned on
    frames    \* the records of the video's frames

videoVars == <<board, stage, plan, content, keyframe, ltx, rendered, frames>>

Given(x, otherwise) == IF x = NotSaid THEN otherwise ELSE x

VideoInit ==
    /\ \E boards \in Storyboards : board \in boards
    /\ stage = "plan" /\ plan = <<>>
    /\ content = [f \in VideoFiles |-> 0]
    /\ keyframe = [i \in Pictures |-> [step |-> "none", digest |-> 0, pixels |-> 0]]
    /\ ltx = [f \in LtxFiles |-> [step |-> "none", stamp |-> 0, digest |-> 0, used |-> 0]]
    /\ rendered = <<>> /\ frames = <<>>

-----------------------------------------------------------------------------
(* The plan. *)

Interpolated == board.fps > 12

\* effective_interpolation_factor: the grid of an LTX model has SourceRate frames a second.
Spacing == IF ~Interpolated THEN 1
           ELSE LET slower == (board.fps + SourceRate - 1) \div SourceRate IN
                IF slower > board.factor THEN slower ELSE board.factor

\* _frame_count() of a shot that says one of the two, or of the command's; a duration is in
\* tenths of a second, 50 if nothing is said.
Said(shot) ==
    LET n == IF shot.frames # NotSaid THEN shot.frames ELSE IF shot.duration # NotSaid THEN NotSaid ELSE board.frames
        d == IF shot.duration # NotSaid THEN shot.duration ELSE IF shot.frames # NotSaid THEN NotSaid ELSE board.duration
    IN  [frames |-> n, duration |-> d]

CountOf(said) == IF said.frames # NotSaid THEN said.frames ELSE (2 * Given(said.duration, 50) * board.fps + 10) \div 20

\* First and last frame, then the other keyframes.
ConditionsOf(shot, n) ==
    LET first == Given(shot.first, board.first)  last == Given(shot.last, board.last) IN
    (IF first = NotSaid THEN <<>> ELSE <<[image |-> first, frame |-> 0]>>)
    \o (IF last = NotSaid THEN <<>> ELSE <<[image |-> last, frame |-> n - 1]>>) \o shot.conditions

FramesOf(conditions) == {conditions[i].frame : i \in DOMAIN conditions}

\* What plan_shots() refuses of a shot.
Unplannable(shot, first) ==
    LET said == Said(shot)  n == CountOf(said)  cs == ConditionsOf(shot, n) IN
    \/ said.frames # NotSaid /\ said.duration # NotSaid
    \/ n \notin FewestFrames..MostFrames
    \/ shot.continues /\ first
    \/ ~(FramesOf(shot.conditions) \subseteq 0..n - 1)
    \/ Cardinality(FramesOf(cs)) # Len(cs)
    \/ shot.continues /\ 0 \in FramesOf(cs)

\* The frames that are sampled: a grid, the last frame, and every keyframe.
Positions(n, conditions) == {p \in 0..n - 1 : p % Spacing = 0} \cup {n - 1} \cup FramesOf(conditions)

\* positions.index(p)
IndexOf(positions, p) == Cardinality({q \in positions : q < p})

End(shots) == IF shots = <<>> THEN 0 ELSE Last(shots).start + Last(shots).frames

\* A sample has a multiple of eight frames and one.
SampleLength(n) == ((n - 1 + 7) \div 8) * 8 + 1

PlanShot ==
    LET shot == board.shots[Len(plan) + 1]
        n == CountOf(Said(shot))
        cs == ConditionsOf(shot, n)
        positions == Positions(n, cs)
    IN  /\ stage = "plan" /\ Len(plan) < Len(board.shots)
        /\ \/ /\ Unplannable(shot, plan = <<>>) /\ stage' = "refused" /\ UNCHANGED plan
           \/ /\ ~Unplannable(shot, plan = <<>>)
              /\ plan' = Append(plan, [start |-> End(plan), frames |-> n, positions |-> positions,
                                       samples |-> SampleLength(Cardinality(positions)), continues |-> shot.continues,
                                       conditions |-> {[image |-> cs[i].image, source |-> IndexOf(positions, cs[i].frame)] :
                                                           i \in DOMAIN cs}])
              /\ UNCHANGED stage
        /\ UNCHANGED <<board, content, keyframe, ltx, rendered, frames>>

\* All shots are planned.  Without the weights here, neither keyframes nor continuity.
AcceptPlan ==
    /\ stage = "plan" /\ Len(plan) = Len(board.shots)
    /\ stage' = IF ~board.remote THEN "keyframes"
                ELSE IF \E k \in DOMAIN plan : plan[k].conditions # {} \/ plan[k].continues THEN "refused"
                ELSE "render"
    /\ UNCHANGED <<board, plan, content, keyframe, ltx, rendered, frames>>

-----------------------------------------------------------------------------
(* Keyframes and model. *)

Keyframes == UNION {{c.image : c \in plan[k].conditions} : k \in DOMAIN plan}
AreAt(step) == {i \in Keyframes : keyframe[i].step = step}

\* load_keyframes(): the digest, then the pixels, then the digest again, of each file once.
HashKeyframe(i) ==
    /\ stage = "keyframes" /\ i \in AreAt("none") /\ AreAt("hashed") \cup AreAt("read") = {}
    /\ keyframe' = [keyframe EXCEPT ![i].step = "hashed", ![i].digest = content[i]]
    /\ UNCHANGED <<board, stage, plan, content, ltx, rendered, frames>>

ReadKeyframe(i) ==
    /\ stage = "keyframes" /\ i \in AreAt("hashed")
    /\ keyframe' = [keyframe EXCEPT ![i].step = "read", ![i].pixels = content[i]]
    /\ UNCHANGED <<board, stage, plan, content, ltx, rendered, frames>>

CheckKeyframe(i) ==
    /\ stage = "keyframes" /\ i \in AreAt("read")
    /\ IF content[i] = keyframe[i].digest
       THEN keyframe' = [keyframe EXCEPT ![i].step = "loaded"] /\ UNCHANGED stage
       ELSE stage' = "failed" /\ UNCHANGED keyframe
    /\ UNCHANGED <<board, plan, content, ltx, rendered, frames>>

\* load_pipeline(): first the tokenizer, whose files nobody has looked at yet.
LoadTokenizer ==
    /\ stage = "keyframes" /\ AreAt("loaded") = Keyframes
    /\ stage' = "list" /\ ltx' = [ltx EXCEPT !["tokenizer"].used = content["tokenizer"]]
    /\ UNCHANGED <<board, plan, content, keyframe, rendered, frames>>

\* Of one file after the other, size and mtime, then the digest.
StampLtx(f) ==
    /\ stage = "list" /\ ltx[f].step = "none" /\ \A g \in LtxFiles : ltx[g].step # "stamped"
    /\ ltx' = [ltx EXCEPT ![f].step = "stamped", ![f].stamp = content[f]]
    /\ UNCHANGED <<board, stage, plan, content, keyframe, rendered, frames>>

HashLtx(f) ==
    /\ stage = "list" /\ ltx[f].step = "stamped"
    /\ ltx' = [ltx EXCEPT ![f].step = "hashed", ![f].digest = content[f]]
    /\ UNCHANGED <<board, stage, plan, content, keyframe, rendered, frames>>

\* The weights, when all files are listed.
LoadLtx ==
    /\ stage = "list" /\ \A f \in LtxFiles : ltx[f].step = "hashed"
    /\ stage' = "verify" /\ ltx' = [ltx EXCEPT !["weights"].used = content["weights"]]
    /\ UNCHANGED <<board, plan, content, keyframe, rendered, frames>>

\* verify_model_files(); an endpoint's model is not looked at.
ModelStill == board.remote \/ \A f \in LtxFiles : content[f] = ltx[f].stamp

VerifyLtx ==
    /\ stage = "verify"
    /\ stage' = IF ModelStill THEN "render" ELSE "failed"
    /\ UNCHANGED <<board, plan, content, keyframe, ltx, rendered, frames>>

-----------------------------------------------------------------------------
(* The frames. *)

\* The position in shot k's sample of each frame that is sampled.
Sample(k) == [p \in plan[k].positions |-> <<k, IndexOf(plan[k].positions, p)>>]

\* Mutant: the last image of the sample of the shot before, which may be longer than its frames.
PreviousMutant(k) == <<k - 1, plan[k - 1].samples - 1>>

\* The last image that was taken from the sample of the shot before.
Previous(k) == <<k - 1, Cardinality(plan[k - 1].positions) - 1>>

\* render_shots(), or an endpoint's clip decoded by _decode_source().
RenderShot ==
    LET k == Len(rendered) + 1 IN
    /\ stage = "render" /\ k <= Len(plan)
    /\ rendered' = Append(rendered,
          [frames |-> Sample(k),
           images |-> {<<c.image, c.source>> : c \in plan[k].conditions}
                      \cup (IF plan[k].continues THEN {<<Previous(k), 0>>} ELSE {})])
    /\ UNCHANGED <<board, stage, plan, content, keyframe, ltx, frames>>

\* A frame of shot k that was sampled.
Anchor(k, l) == [index |-> plan[k].start + l, shot |-> k, pixels |-> rendered[k].frames[l],
                 sources |-> {plan[k].start + l}, fraction |-> <<0, 1>>]

\* positions[i]
PositionAt(positions, i) == CHOOSE p \in positions : IndexOf(positions, p) = i

\* A frame between two that were sampled: bisect_right() among the positions.
Between(k, l) ==
    LET right == Cardinality({p \in plan[k].positions : p <= l})
        lo == PositionAt(plan[k].positions, right - 1)
        hi == PositionAt(plan[k].positions, right)
    IN  [index |-> plan[k].start + l, shot |-> k, pixels |-> NotSaid,
         sources |-> {plan[k].start + lo, plan[k].start + hi}, fraction |-> <<l - lo, hi - lo>>]

Record(k, l) == IF l \in plan[k].positions THEN Anchor(k, l) ELSE Between(k, l)

ShotFrames(k) == [i \in 1..plan[k].frames |-> Record(k, i - 1)]

\* The samples are the frames, or the interpolator's input.
EndRendering ==
    /\ stage = "render" /\ Len(rendered) = Len(plan)
    /\ stage' = IF ModelStill THEN "interpolate" ELSE "failed"
    /\ frames' = IF Interpolated THEN <<>> ELSE FlattenSeq([k \in DOMAIN plan |-> ShotFrames(k)])
    /\ UNCHANGED <<board, plan, content, keyframe, ltx, rendered>>

\* interpolate_video() of one shot.
InterpolateShot ==
    /\ stage = "interpolate" /\ Interpolated
    /\ \E k \in DOMAIN plan : plan[k].start = Len(frames) /\ frames' = frames \o ShotFrames(k)
    /\ UNCHANGED <<board, stage, plan, content, keyframe, ltx, rendered>>

\* The report names the model, and the frames make the video.
EndVideo ==
    /\ stage = "interpolate" /\ Len(frames) = End(plan)
    /\ stage' = IF ModelStill THEN "done" ELSE "failed"
    /\ UNCHANGED <<board, plan, content, keyframe, ltx, rendered, frames>>

Replace(f) ==
    /\ content[f] < MaxReplaced /\ stage \notin {"done", "refused", "failed"}
    /\ content' = [content EXCEPT ![f] = @ + 1]
    /\ UNCHANGED <<board, stage, plan, keyframe, ltx, rendered, frames>>

VideoNext ==
    \/ PlanShot \/ AcceptPlan \/ LoadTokenizer \/ LoadLtx \/ VerifyLtx
    \/ \E f \in LtxFiles : StampLtx(f) \/ HashLtx(f)
    \/ \E i \in Pictures : HashKeyframe(i) \/ ReadKeyframe(i) \/ CheckKeyframe(i)
    \/ RenderShot \/ EndRendering \/ InterpolateShot \/ EndVideo
    \/ \E f \in VideoFiles : Replace(f)

VideoSpec == VideoInit /\ [][VideoNext]_videoVars

-----------------------------------------------------------------------------
\* Every variable keeps its type (video_options.py:193-212).
VideoTypeOK ==
    /\ stage \in VideoStages
    /\ \A k \in DOMAIN plan : plan[k].frames \in FewestFrames..MostFrames /\ plan[k].start \in Nat
    /\ content \in [VideoFiles -> 0..MaxReplaced]
    /\ keyframe \in [Pictures -> [step : ReadSteps, digest : Nat, pixels : Nat]]
    /\ ltx \in [LtxFiles -> [step : ReadSteps, stamp : Nat, digest : Nat, used : Nat]]
    /\ Len(rendered) <= Len(plan) /\ Len(frames) <= End(plan)

FrameAt(i) == frames[i + 1]

\* The video has every frame of the plan once and in order.  What was sampled is at the frame it
\* was sampled for; every other frame is between two samples of its own shot that are next to
\* each other, no further apart than the grid (video_interpolator.py:76-105).
TimelineIsWhole == stage = "done" =>
    /\ Len(frames) = End(plan) /\ \A i \in DOMAIN frames : frames[i].index = i - 1
    /\ \A i \in DOMAIN frames : LET f == frames[i]  shot == plan[f.shot] IN
        /\ f.sources \subseteq shot.start..shot.start + shot.frames - 1
        /\ \A s \in f.sources : FrameAt(s).sources = {s} /\ FrameAt(s).pixels = <<f.shot, IndexOf(shot.positions, s - shot.start)>>
        /\ f.sources # {f.index} => \E lo, hi \in f.sources :
               /\ lo < f.index /\ f.index < hi /\ f.sources = {lo, hi} /\ hi - lo <= Spacing
               /\ f.fraction = <<f.index - lo, hi - lo>>
               /\ \A s \in lo + 1..hi - 1 : FrameAt(s).sources # {s}

\* A keyframe conditions the sample that becomes the frame it was given for, and no other image
\* does; a shot that continues starts from the last frame of the shot before it, as the video has
\* it (video_options.py:191-199, video_runtime.py:200-203).
KeyframesAtTheirFrames == stage = "done" => \A k \in DOMAIN plan :
    LET cs == ConditionsOf(board.shots[k], plan[k].frames)
        Conditioning(f) == {c[1] : c \in {c \in rendered[k].images : FrameAt(plan[k].start + f).pixels = <<k, c[2]>>}}
    IN  /\ \A i \in DOMAIN cs : Conditioning(cs[i].frame) = {cs[i].image}
        /\ board.shots[k].continues => Conditioning(0) = {FrameAt(plan[k].start - 1).pixels}
        /\ Cardinality(rendered[k].images) = Len(cs) + (IF board.shots[k].continues THEN 1 ELSE 0)

\* A sample is as long as the model can make one, and no shorter than what is taken from it
\* (video_options.py:205).
SamplesSuffice == \A k \in DOMAIN plan :
    LET needed == Cardinality(plan[k].positions) IN
    plan[k].samples % 8 = 1 /\ plan[k].samples \in needed..needed + 7

\* The keyframes and weights that are reported are those that were used, and all model files that
\* are reported are there as reported when the video is made, whenever they are replaced.  Of the
\* tokenizer it is not said that it was used: it is loaded before its files are listed
\* (video_runtime.py:85-104, 112-143, 296-310).
VideoOfItsFiles == stage = "done" /\ ~board.remote =>
    /\ ltx["weights"].used = ltx["weights"].digest
    /\ \A f \in LtxFiles : ltx[f].digest = content[f]
    /\ \A i \in Keyframes : keyframe[i].pixels = keyframe[i].digest

\* A video is what its storyboard says, of the keyframes and weights its report names.
VideoAsPlanned == VideoTypeOK /\ TimelineIsWhole /\ KeyframesAtTheirFrames /\ SamplesSuffice /\ VideoOfItsFiles
=============================================================================
