------------------------------ MODULE MCModels ------------------------------
(***************************************************************************)
(* Small instances, for TLC, of what the Python commands do with models:   *)
(* a worker keeps them in its session, a merge makes a new one, a run of   *)
(* any pipeline draws with one.  The modules share no state; a behaviour is one of one of them, the others   *)
(* stay in an initial state.                                               *)
(***************************************************************************)
EXTENDS MCInferenceSession, WeightedMerge, Projection, UnifiedMerge, Adapter,
        GenericGeneration, TLC

CONSTANTS nan, g1, g2

VARIABLE stepping   \* the module whose behaviour it is

NotThis(s) == stepping # s

-----------------------------------------------------------------------------
(* Weighted merges: every pair of materials whose tensor "b" is held in one *)
(* of these ways; every way to fit; sources that change and a rival.        *)

MCTensors == <<"a", "b">>
Cell(state, x, y) == [state |-> state, at |-> <<x, y>>]
PlainCell   == Cell("there", 3, 1)
Half    == Cell("there", nan, 1)
NoCells == {Cell("absent", 0, 0), Cell("unreadable", 0, 0)}
InCheckpoint == {PlainCell, Half, Cell("there", nan, nan), Cell("quantized", 5, 5)} \cup NoCells
InAdapter    == {PlainCell, Half, Cell("there", 0, 0)} \cup NoCells
Material(kind, fit, cells) ==
    {[kind |-> kind, fit |-> fit, holds |-> ("a" :> PlainCell @@ "b" :> cell)] : cell \in cells}
BasePlain == [type |-> "float", at |-> <<3, 1>>]
BaseFar   == [type |-> "float", at |-> <<1, 5>>]
BasesOf(bs) == {"a" :> BasePlain @@ "b" :> b : b \in bs}
Merging(modes, policies, ratios, bases, materials, restless, rivals) ==
    [mode : modes, policy : policies, weights : ratios, base : BasesOf(bases),
     materials : materials, restless : restless, rival : rivals]

MergeModes == {"sum", "difference"}
Fitting  == UNION {Material(kind, way, {PlainCell}) : kind \in {"checkpoint", "lora"}, way \in Ways}
Holding  == Material("checkpoint", "fits", InCheckpoint) \cup Material("lora", "fits", InAdapter)
TwoPlain == Material("checkpoint", "fits", {PlainCell})

\* What tensors hold, with a base that is plain, not finite, of broken quantization, or state.
Numbers   == Merging(MergeModes, Policies, {<<>>, <<1, 2>>, <<3, 2>>, <<4, 0>>},
                    {BaseFar, [type |-> "float", at |-> <<nan, 1>>],
                     [type |-> "broken scale", at |-> <<1, nan>>], [type |-> "buffer", at |-> <<3, 1>>]},
                    Holding \X Holding, {{}}, {"none"})
Selection == Merging(MergeModes, Policies, {<<>>, <<1, 2>>, <<3, 2>>}, {BaseFar}, Fitting \X Fitting, {{}}, {"none"})
Disturbed == Merging({"sum"}, {"strict", "common-layer"}, {<<1, 1>>}, {BaseFar},
                    TwoPlain \X (TwoPlain \cup Material("lora", "foreign", {PlainCell})),
                    {{0}, {1}, {2}}, {"none", "before", "during"})
MCMergeOrders == <<Numbers, Selection, Disturbed>>
AnyMerge == CHOOSE order \in Disturbed : order.rival = "none"

-----------------------------------------------------------------------------
(* Layouts: stacks of blocks of every depth, shapes, and names that may be  *)
(* taken for one another.                                                   *)

Named1(component, prefix, name, group, role, kind, shape, learned) ==
    [component |-> component, prefix |-> prefix, name |-> name, group |-> group, role |-> role,
     kind |-> kind, depth |-> 0, shape |-> shape, learned |-> learned]
Block(style, i, shape) ==
    [Named1(".", "", style \o ToString(i), "denoiser", "q", "weight", shape, TRUE) EXCEPT !.depth = 2 * i]
Stack(style, shapes) == [i \in DOMAIN shapes |-> Block(style, i, shapes[i])]
Stacks(style, shapes, n) == {Stack(style, f) : f \in UNION {[1..m -> shapes] : m \in 1..n}}
Even(style, n) == {Stack(style, [i \in 1..m |-> shape]) : m \in 1..n, shape \in {<<2, 3>>, <<3>>}}
Facing(bases, sources, forces) == [base : bases, source : sources, force : forces]

OneShape == {<<a>> : a \in 1..6} \cup {<<a, b>> : a, b \in 1..4}
OneBlock == {<<Block("q", 1, shape)>> : shape \in OneShape}
Pool == <<Named1(".", "", "q", "denoiser", "q", "weight", <<2, 2>>, TRUE),
          Named1(".", "model.", "q", "denoiser", "q", "weight", <<2, 2>>, TRUE),
          Named1(".", "net.", "q", "denoiser", "q", "weight", <<3, 2>>, TRUE),
          Named1(".", "", "sigmas", "denoiser", "other", "other", <<3>>, FALSE),
          Named1(".", "", "clip.q", "text", "q", "weight", <<2, 2>>, TRUE),
          Named1("text_encoder", "", "clip.q", "text", "q", "weight", <<2, 2>>, TRUE),
          Named1("text_encoder_2", "", "clip.q", "text", "q", "weight", <<4, 4>>, TRUE),
          Named1("unet", "", "q", "denoiser", "q", "bias", <<2>>, TRUE)>>
Layouts(n) == {[k \in 1..Cardinality(S) |-> Pool[SetToSortSeq(S, <)[k]]] :
                  S \in {S \in SUBSET DOMAIN Pool : Cardinality(S) \in 1..n}}

MCPairings == <<Facing(Even("to_q", 4), Even("wq", 4), {FALSE}),
               Facing(Stacks("to_q", {<<2, 3>>, <<3>>}, 3), Stacks("wq", {<<2, 3>>, <<3>>, <<4, 4>>}, 3), {FALSE}),
               Facing(OneBlock, OneBlock, {FALSE}),
               Facing(Layouts(2), Layouts(3), BOOLEAN)>>
AnyPairing == [base |-> <<Pool[1]>>, source |-> <<Pool[1]>>, force |-> FALSE]

-----------------------------------------------------------------------------
(* Cascades of three materials, and of four where the plan is hardest.      *)

Checkpoint(fit) == [kind |-> "checkpoint", fit |-> fit, matches |-> {}]
Lora(matches)   == [kind |-> "lora", fit |-> "fits", matches |-> matches]
Consistent(ms)  == \A i \in DOMAIN ms : \A j \in ms[i].matches : j = 0 \/ ms[j].kind = "checkpoint"

OfThree == {Checkpoint(fit) : fit \in {"fits", "foreign", "unusable", "directory"}} \cup {Lora(s) : s \in SUBSET (0..3)}
OfFour  == {Checkpoint("fits")} \cup {Lora(s) : s \in SUBSET {0, 1, 3}}
Threes  == {ms \in OfThree \X OfThree \X OfThree : Consistent(ms)}
Fours   == {ms \in {Checkpoint("fits")} \X OfFour \X OfFour \X OfFour : Consistent(ms)}
Quiet   == [materials : Threes \cup Fours, weights : {<<>>, <<1, 2, 25, 4>>}, restless : {{}}, rival : {"none"}]
Crowded == [materials : {<<Checkpoint("fits"), Lora({0, 1}), Lora({0})>>, <<Lora({0}), Checkpoint("fits"), Checkpoint("foreign")>>},
            weights : {<<>>}, restless : SUBSET {0, 1, 3}, rival : {"none", "before", "during"}]
MCCascades == <<Quiet, Crowded>>
AnyCascade == CHOOSE c \in Crowded : c.rival = "none"

-----------------------------------------------------------------------------
(* Adapters that name a projection twice, in part or whole of a fused one.  *)

Rows(tensor, rows) == [tensor |-> tensor, rows |-> rows]
Side(in, side, value) == [module |-> in, side |-> side, value |-> value]
Twice    == {<<Side("to_q", "down", v), Side("lora_unet_q", "up", w), Side("to_q", "up", w), Side("lora_unet_q", "down", x)>> :
               v, w, x \in {1, 2}}
Thrice   == {<<Side("to_q", "down", 1), Side("to_q", "up", 1), Side("lora_unet_q", "down", v), Side("lora_unet_q", "up", 1),
               Side("to_k", "up", 1), Side("to_k", "down", v)>> : v \in {1, 2}}
Faulty   == {<<>>, <<Side("to_q", "down", 1)>>, <<Side("to_q", "down", 1), Side("to_q", "down", 1)>>}
OneOf    == {{Rows("qkv", rows)} : rows \in {{1, 2, 3}, {1}, {2}}} \cup {{Rows("out", {1, 2, 3})}}
Anywhere == OneOf \cup {{}, {Rows("qkv", {1}), Rows("qkv", {2})}}
FoundAt  == {("to_q" :> a @@ "lora_unet_q" :> b @@ "to_k" :> k) :
               a \in Anywhere, b \in Anywhere, k \in {{Rows("qkv", {1})}, {}}}
FitAt    == {("to_q" :> a @@ "lora_unet_q" :> b @@ "to_k" :> TRUE) : a, b \in BOOLEAN}
Adapted(policies, fits) ==
    [keys : Twice \cup Thrice \cup Faulty, alpha : {{}, {"to_q"}, {"to_k"}}, targets : FoundAt,
     fitting : fits, remap : {Rows("out", {1, 2, 3})}, policy : policies]
Unnamed    == {file \in Adapted({"strict"}, FitAt) : file.keys = <<>>}
MCAdapters == Adapted({"strict", "synthetic"}, FitAt)
AnyAdapter == CHOOSE file \in Unnamed : TRUE

-----------------------------------------------------------------------------
(* Runs of any pipeline: two in one directory, one whose files change, and  *)
(* one for what a pipeline may return.                                      *)

Drawn(over, ready, metadata, uses, restless, back, declared, latent, flags) ==
    [overwrite : over, preparing : ready, metadata : metadata, uses : {uses}, restless : restless,
     returned : back, declared : declared, latent : latent, flags : {flags}]
AnImage == "images" :> 1
InText  == "images" :> 1 @@ "text" :> 1
Plainly == Drawn(BOOLEAN, {FALSE}, {FALSE}, {}, {{}}, {AnImage, InText}, {<<>>}, {FALSE}, Nothing)
           \cup Drawn(BOOLEAN, {FALSE}, {FALSE}, {}, {{}}, {AnImage}, {<<>>}, {FALSE}, 2)
ByOne(jobs) == {g1 :> j : j \in jobs}
Sharing   == [Drawers -> Plainly]
Restless  == {{"input"}, {"lora"}, {"vae"}, {"model"}, {"vae", "model"}}
Reading   == ByOne(Drawn({FALSE}, {FALSE}, BOOLEAN, {"lora", "vae", "input"}, Restless, {AnImage}, {<<>>}, {FALSE}, Nothing)
                   \cup Drawn({FALSE}, {TRUE}, BOOLEAN, {"lora", "vae"}, Restless \ {{"input"}}, {AnImage}, {<<>>}, {FALSE}, Nothing))
Counted   == {[n \in ns |-> 1] : ns \in SUBSET {"images", "audios", "audio", "sequences", "latents"}}
             \cup {"images" :> 0, "images" :> 2 @@ "audio" :> 2, "texts" :> 2 @@ "text" :> 1}
Returning == ByOne(Drawn({FALSE}, {FALSE}, {FALSE}, {}, {{}}, Counted, {<<>>, <<"audios">>, <<"latents", "images">>}, BOOLEAN, Nothing))
MCGenericJobs == {Sharing, Reading, Returning}
NothingThere == [n \in OutputNames |-> Nothing]
MCEarlier    == {NothingThere, [NothingThere EXCEPT ![<<"images", 1>>] = Other]}
AnyDrawn     == CHOOSE job \in Reading : ~job[g1].preparing

-----------------------------------------------------------------------------
\* First the modules that stay, in one initial state each, then the one that moves.
ModelsInit ==
    /\ stepping \in {"session", "weighted", "layout", "unified", "adapter", "generic"}
    /\ Init
    /\ IF NotThis("weighted") THEN merge = AnyMerge /\ MergeInit ELSE TRUE
    /\ IF NotThis("layout") THEN pairing = AnyPairing /\ ProjectionInit ELSE TRUE
    /\ IF NotThis("unified") THEN cascade = AnyCascade /\ CascadeInit ELSE TRUE
    /\ IF NotThis("adapter") THEN adapter = AnyAdapter /\ AdapterInit ELSE TRUE
    /\ IF NotThis("generic") THEN asked = AnyDrawn /\ place = NothingThere /\ GenericInit ELSE TRUE
    /\ CASE stepping = "weighted" -> MergeInit
         [] stepping = "layout" -> ProjectionInit
         [] stepping = "unified" -> CascadeInit
         [] stepping = "adapter" -> AdapterInit
         [] stepping = "generic" -> GenericInit
         [] OTHER -> TRUE

RestStay ==
    /\ UNCHANGED stepping
    /\ IF NotThis("session") THEN UNCHANGED vars ELSE TRUE
    /\ IF NotThis("weighted") THEN UNCHANGED mergeVars ELSE TRUE
    /\ IF NotThis("layout") THEN UNCHANGED projectionVars ELSE TRUE
    /\ IF NotThis("unified") THEN UNCHANGED cascadeVars ELSE TRUE
    /\ IF NotThis("adapter") THEN UNCHANGED adapterVars ELSE TRUE
    /\ IF NotThis("generic") THEN UNCHANGED genericVars ELSE TRUE

\* A merge comes to an end; a session does not, and must not be stuck.
Ended == NotThis("session") /\ RestStay /\ UNCHANGED <<mergeVars, projectionVars, cascadeVars, adapterVars, genericVars>>

ModelsNext ==
    \/ stepping = "session" /\ Next /\ RestStay
    \/ stepping = "weighted" /\ MergeNext /\ RestStay
    \/ stepping = "layout" /\ ProjectionNext /\ RestStay
    \/ stepping = "unified" /\ CascadeNext /\ RestStay
    \/ stepping = "adapter" /\ AdapterNext /\ RestStay
    \/ stepping = "generic" /\ GenericNext /\ RestStay
    \/ Ended

ModelsVars == <<stepping, vars, mergeVars, projectionVars, cascadeVars, adapterVars, genericVars>>
ModelsSpec == ModelsInit /\ [][ModelsNext]_ModelsVars
=============================================================================
