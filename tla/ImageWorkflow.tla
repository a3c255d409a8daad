--------------------------- MODULE ImageWorkflow ---------------------------
(***************************************************************************)
(* How a request to the managed runtime becomes a ComfyUI graph:           *)
(* resolved_request() of local_image.py decides what the files are, and    *)
(* build_workflow() of comfyui_image_workflow.py adds nodes, each linked   *)
(* to nodes before it, from the loaders to SaveImage.  Of the inputs that  *)
(* are no links a node keeps the model files it loads and the stage whose  *)
(* size it is given; loaders for GGUF files are not told from the others.  *)
(***************************************************************************)
EXTENDS Naturals, Sequences, FiniteSets

CONSTANTS Inquiries     \* requests, as a set of sets of records

TextKeys == <<"text_encoder", "text_encoder_2", "text_encoder_3", "text_encoder_4">>
Components == {"vae", "model_negative", "decoder"} \cup {TextKeys[i] : i \in 1..4}
Unsized  == 99
NoWire   == <<0, 0>>
Wires    == {"model", "clip", "vae", "positive", "negative", "latent", "image", "samples",
             "decoder", "decoderPositive", "decoderNegative", "modelNegative"}

\* _RECIPES: how many text encoders a family has; none if they come with its checkpoint only.
Encoders == [
    sd1 |-> 1, sd2 |-> 1, sdxl |-> 2, sd3 |-> 3, flux1 |-> 2, schnell |-> 2, flux2 |-> 1,
    klein |-> 1, auraflow |-> 1, chroma |-> 1, pixartalpha |-> 1, pixartsigma |-> 1,
    hunyuandit |-> 0, hidreami1 |-> 4, hidreamo1 |-> 0, qwenimage |-> 1, lumina |-> 1,
    zimage |-> 1, anima |-> 1, ernieimage |-> 1, boogu |-> 1, krea2 |-> 1, lens |-> 1,
    mageflow |-> 1, ideogram4 |-> 1, stablecascade |-> 1]

Discrete    == {"sd1", "sd2", "sdxl"}
Shifted     == {"sd3", "hidreami1", "auraflow", "chroma", "qwenimage", "lumina", "zimage", "anima", "mageflow"}
CustomSteps == {"flux2", "klein", "ideogram4"}

\* Types of the outputs of the nodes that are used, as /object_info describes them.
Outputs(class) ==
    CASE class = "Checkpoint" -> <<"MODEL", "CLIP", "VAE">>
      [] class \in {"Denoiser", "Patch", "FluxSampling"} -> <<"MODEL">>
      [] class \in {"CLIPLoader", "ClipPatch"} -> <<"CLIP">>
      [] class = "VAELoader" -> <<"VAE">>
      [] class \in {"Encode", "ZeroOut", "FluxGuidance", "StageB"} -> <<"CONDITIONING">>
      [] class = "EncodeMageFlow" -> <<"CONDITIONING", "CONDITIONING", "LATENT">>
      [] class = "EmptyCascade" -> <<"LATENT", "LATENT">>
      [] class \in {"Empty", "KSampler", "SamplerCustom", "VAEEncode"} -> <<"LATENT">>
      [] class = "Guider" -> <<"GUIDER">>
      [] class = "Scheduler" -> <<"SIGMAS">>
      [] class = "SplitSigmas" -> <<"SIGMAS", "SIGMAS">>
      [] class \in {"VAEDecode", "ImageScale"} -> <<"IMAGE">>
      [] OTHER -> <<>>

ASSUME WorkflowAssumption == \A some \in Inquiries : \A q \in some :
    /\ q.family \in DOMAIN Encoders /\ q.stages \in Nat /\ q.stages < Unsized
    /\ q.parts \subseteq Components /\ q.type \in {"auto", "checkpoint", "diffusion_model"}

VARIABLES
    inquiry,   \* the request
    building,  \* where it is
    container, \* "checkpoint" or "diffusion_model"
    nodes,     \* the graph: node -> class, links <<type, node, slot>>, stage, files
    wires,     \* the local variables that name an output of a node
    verdict    \* why the request was refused

workflowVars == <<inquiry, building, container, nodes, wires, verdict>>

Is(f)    == inquiry.family = f
Has(c)   == c \in inquiry.parts
Say(v)   == building' = "refused" /\ verdict' = v
Goto(s)  == building' = s /\ UNCHANGED verdict

Node(class, links, stage, files) == [class |-> class, links |-> links, stage |-> stage, files |-> files]
Plain(class, links) == Node(class, links, Unsized, {})
Link(type, wire)    == <<type, wire[1], wire[2]>>
Fits(graph, i)      == \A l \in graph[i].links :
    l[2] \in 1..(i - 1) /\ l[3] \in DOMAIN Outputs(graph[l[2]].class) /\ Outputs(graph[l[2]].class)[l[3]] = l[1]
Top                 == Len(nodes)

\* _Graph.add() for each of the new nodes: the server has the class, the links fit.
Add(new, changed, next) == LET graph == nodes \o new IN
    IF \E i \in DOMAIN new : new[i].class = inquiry.absent THEN Say("node") /\ UNCHANGED <<nodes, wires>>
    ELSE IF \E i \in Top + 1 .. Len(graph) : ~Fits(graph, i) THEN Say("link") /\ UNCHANGED <<nodes, wires>>
    ELSE nodes' = graph /\ wires' = changed /\ Goto(next)

WorkflowInit ==
    /\ \E some \in Inquiries : inquiry \in some
    /\ building = "resolve" /\ container = inquiry.type /\ nodes = <<>> /\ verdict = "none"
    /\ wires = [w \in Wires |-> NoWire]

\* resolved_request(): adapters are refused, the tensors agree with the base model, and what
\* is no checkpoint is a denoiser with its VAE and text encoder.  Other callers leave it out.
ResolveRequest ==
    /\ building = "resolve"
    /\ LET apart == ~inquiry.bundled /\ (inquiry.denoiser \/ (Has("vae") /\ Has("text_encoder")))
           found == IF inquiry.type # "auto" THEN inquiry.type
                    ELSE IF apart THEN "diffusion_model" ELSE "checkpoint"
       IN  IF ~inquiry.local THEN Goto("check") /\ UNCHANGED container
           ELSE IF ~inquiry.agrees THEN Say("model") /\ UNCHANGED container
           ELSE IF found = "diffusion_model" /\ ~(Has("vae") /\ Has("text_encoder"))
           THEN Say("parts") /\ UNCHANGED container
           ELSE container' = found /\ Goto("check")
    /\ UNCHANGED <<inquiry, nodes, wires>>

\* The checks of build_workflow() before it adds a node.
CheckOptions ==
    /\ building = "check"
    /\ IF \/ Is("ideogram4") /\ inquiry.negative
          \/ inquiry.guidance /\ inquiry.family \notin {"flux1", "flux2"}
          \/ inquiry.zsnr /\ ~inquiry.prediction
       THEN Say("options") ELSE Goto("model")
    /\ UNCHANGED <<inquiry, container, nodes, wires>>

\* The model, by the inventories of the server if nobody has said what it is: one of them lists it.
LoadModel ==
    /\ building = "model"
    /\ LET found == IF container # "auto" THEN container ELSE IF inquiry.denoiser THEN "diffusion_model" ELSE "checkpoint" IN
       /\ container' = found
       /\ IF container = "auto" /\ ~inquiry.listed THEN Say("model") /\ UNCHANGED <<nodes, wires>>
          ELSE IF found = "checkpoint"
          THEN Add(<<Node("Checkpoint", {}, Unsized, {"model"})>>,
                   [wires EXCEPT !["model"] = <<1, 1>>, !["clip"] = <<1, 2>>, !["vae"] = <<1, 3>>], "text")
          ELSE IF Encoders[inquiry.family] = 0 \/ ~Has("vae") \/ ~Has("text_encoder")
          THEN Say("parts") /\ UNCHANGED <<nodes, wires>>
          ELSE Add(<<Node("Denoiser", {}, Unsized, {"model"})>>, [wires EXCEPT !["model"] = <<1, 1>>], "text")
    /\ UNCHANGED inquiry

Supplied == {i \in 1..4 : Has(TextKeys[i])}
Counts   == IF Is("sd3") THEN 1..3 ELSE IF Is("hidreami1") THEN {1, 2, 4} ELSE {Encoders[inquiry.family]}

\* Mutant: the text encoders may leave a gap, and those after it are not loaded.
LoadTextMutant ==
    /\ building = "text"
    /\ IF Supplied = {} THEN Goto("vae") /\ UNCHANGED <<nodes, wires>>
       ELSE \E n \in 1..4 : n \in Counts /\ 1..n \subseteq Supplied
            /\ Add(<<Node("CLIPLoader", {}, Unsized, {TextKeys[i] : i \in 1..n})>>,
                   [wires EXCEPT !["clip"] = <<Top + 1, 1>>], "vae")
    /\ UNCHANGED <<inquiry, container>>

\* _text_loader(): as many as the family has, one after the other.
LoadText ==
    /\ building = "text"
    /\ IF Supplied = {} THEN Goto("vae") /\ UNCHANGED <<nodes, wires>>
       ELSE IF Encoders[inquiry.family] = 0 \/ ~\E n \in Counts : Supplied = 1..n
       THEN Say("encoders") /\ UNCHANGED <<nodes, wires>>
       ELSE Add(<<Node("CLIPLoader", {}, Unsized, {TextKeys[i] : i \in Supplied})>>,
                [wires EXCEPT !["clip"] = <<Top + 1, 1>>], "vae")
    /\ UNCHANGED <<inquiry, container>>

\* The VAE, and whether the other components are the family's.
LoadVae ==
    /\ building = "vae"
    /\ IF (Has("model_negative") /\ ~Is("ideogram4")) \/ (Has("decoder") /\ ~Is("stablecascade"))
       THEN Say("parts") /\ UNCHANGED <<nodes, wires>>
       ELSE IF Has("vae")
       THEN Add(<<Node("VAELoader", {}, Unsized, {"vae"})>>, [wires EXCEPT !["vae"] = <<Top + 1, 1>>], "patch")
       ELSE Goto("patch") /\ UNCHANGED <<nodes, wires>>
    /\ UNCHANGED <<inquiry, container>>

If(condition, class)  == IF condition THEN <<class>> ELSE <<>>
Sized(class)          == IF class = "FluxSampling" THEN 0 ELSE Unsized
ChainEnd(wire, n, at) == IF n = 0 THEN wire ELSE <<at + n, 1>>

\* Classes, one after the other, behind the wire of this type; the graph has so many nodes.
Chain(classes, type, wire, at) == [i \in DOMAIN classes |->
    Node(classes[i], {Link(type, ChainEnd(wire, i - 1, at))}, Sized(classes[i]), {})]

\* Options that patch the model or the text encoder.
PatchModel ==
    /\ building = "patch"
    /\ LET clips  == If(inquiry.clipSkip, "ClipPatch") \o If(Is("chroma"), "ClipPatch")
           models == If(inquiry.prediction \/ inquiry.lcm, "Patch")
                     \o If(inquiry.shift \/ inquiry.family \in {"qwenimage", "chroma"}, "Patch")
                     \o (IF Is("lens") THEN <<"FluxSampling", "Patch">> ELSE <<>>)
       IN  IF \/ (inquiry.clipSkip \/ inquiry.prediction) /\ inquiry.family \notin Discrete
              \/ inquiry.shift /\ inquiry.family \notin Shifted
           THEN Say("options") /\ UNCHANGED <<nodes, wires>>
           ELSE Add(Chain(clips, "CLIP", wires["clip"], Top) \o Chain(models, "MODEL", wires["model"], Top + Len(clips)),
                    [wires EXCEPT !["clip"]  = ChainEnd(@, Len(clips), Top),
                                  !["model"] = ChainEnd(@, Len(models), Top + Len(clips))], "encode")
    /\ UNCHANGED <<inquiry, container>>

\* encode(): PixArt alpha is told a size.
Encoded(stage) == Node("Encode", {Link("CLIP", wires["clip"])}, IF Is("pixartalpha") THEN stage ELSE Unsized, {})

\* Prompts and the empty latents; MageFlow makes all three at once.
EncodePrompts ==
    /\ building = "encode"
    /\ IF Is("mageflow")
       THEN Add(<<Plain("EncodeMageFlow", {Link("CLIP", wires["clip"]), Link("VAE", wires["vae"])})>>,
                [wires EXCEPT !["positive"] = <<Top + 1, 1>>, !["negative"] = <<Top + 1, 2>>,
                              !["latent"] = <<Top + 1, 3>>], "sample")
       ELSE LET latent == IF Is("stablecascade") THEN "EmptyCascade" ELSE "Empty"
                more   == IF Is("ideogram4") THEN <<Plain("ZeroOut", {<<"CONDITIONING", Top + 1, 1>>})>>
                          ELSE IF inquiry.family \in {"flux1", "flux2"}
                          THEN <<Plain("FluxGuidance", {<<"CONDITIONING", Top + 1, 1>>})>> ELSE <<>>
            IN  Add(<<Encoded(0), Encoded(0), Node(latent, {}, 0, {})>> \o more,
                    [wires EXCEPT !["positive"] = <<IF inquiry.family \in {"flux1", "flux2"} THEN Top + 4 ELSE Top + 1, 1>>,
                                  !["negative"] = <<IF Is("ideogram4") THEN Top + 4 ELSE Top + 2, 1>>,
                                  !["latent"] = <<Top + 3, 1>>], "sample")
    /\ UNCHANGED <<inquiry, container>>

\* CFGGuider, or DualModelGuider.
Guider(w) == Plain("Guider", {Link("MODEL", w["model"]), Link("CONDITIONING", w["positive"]),
                              Link("CONDITIONING", w["negative"])}
                             \cup (IF Is("ideogram4") THEN {Link("MODEL", w["modelNegative"])} ELSE {}))
KSampler(w) == Plain("KSampler", {Link("MODEL", w["model"]), Link("CONDITIONING", w["positive"]),
                                  Link("CONDITIONING", w["negative"]), Link("LATENT", w["latent"])})

\* The base: a custom sampler with its guider and schedule, or a KSampler.
SampleLatents ==
    /\ building = "sample"
    /\ IF Is("ideogram4") /\ ~Has("model_negative") THEN Say("parts") /\ UNCHANGED <<nodes, wires>>
       ELSE IF inquiry.family \in CustomSteps
       THEN LET own == If(Is("ideogram4"), Node("Denoiser", {}, Unsized, {"model_negative"}))
                w   == [wires EXCEPT !["modelNegative"] = <<Top + 1, 1>>, !["samples"] = <<Top + Len(own) + 3, 1>>]
            IN  Add(own \o <<Guider(w), Node("Scheduler", {}, 0, {}),
                             Plain("SamplerCustom", {<<"GUIDER", Top + Len(own) + 1, 1>>,
                                   <<"SIGMAS", Top + Len(own) + 2, 1>>, Link("LATENT", w["latent"])})>>, w, "decoder")
       ELSE Add(<<KSampler(wires)>>, [wires EXCEPT !["samples"] = <<Top + 1, 1>>], "decoder")
    /\ UNCHANGED <<inquiry, container>>

\* The second sampler of Stable Cascade.
SampleDecoder ==
    /\ building = "decoder"
    /\ IF ~Is("stablecascade") THEN Goto("decode") /\ UNCHANGED <<nodes, wires>>
       ELSE IF ~Has("decoder") THEN Say("parts") /\ UNCHANGED <<nodes, wires>>
       ELSE LET b == [wires EXCEPT !["decoder"] = <<Top + 1, 1>>, !["decoderPositive"] = <<Top + 2, 1>>,
                                   !["decoderNegative"] = <<Top + 3, 1>>, !["samples"] = <<Top + 4, 1>>]
            IN  Add(<<Node("Denoiser", {}, Unsized, {"decoder"}),
                      Plain("StageB", {Link("CONDITIONING", wires["positive"]), Link("LATENT", wires["samples"])}),
                      Plain("ZeroOut", {Link("CONDITIONING", wires["negative"])}),
                      KSampler([wires EXCEPT !["model"] = b["decoder"], !["positive"] = b["decoderPositive"],
                                             !["negative"] = b["decoderNegative"],
                                             !["latent"] = <<wires["latent"][1], 2>>])>>, b, "decode")
    /\ UNCHANGED <<inquiry, container>>

\* VAEDecode; the number of images so far is the stage of the next one.
Decode ==
    /\ building = "decode"
    /\ Add(<<Plain("VAEDecode", {Link("LATENT", wires["samples"]), Link("VAE", wires["vae"])})>>,
           [wires EXCEPT !["image"] = <<Top + 1, 1>>], "stage")
    /\ UNCHANGED <<inquiry, container>>

Made == Cardinality({i \in DOMAIN nodes : nodes[i].class = "VAEDecode"})

\* What a refinement samples with: stage B of a cascade, conditioning or sampling of its own size.
Refiner(stage) ==
    CASE Is("stablecascade") -> [w |-> [wires EXCEPT !["model"] = wires["decoder"], !["positive"] = wires["decoderPositive"],
                                                     !["negative"] = wires["decoderNegative"]], new |-> <<>>]
      [] Is("pixartalpha")   -> [w |-> [wires EXCEPT !["positive"] = <<Top + 3, 1>>, !["negative"] = <<Top + 4, 1>>],
                                 new |-> <<Encoded(stage), Encoded(stage)>>]
      [] Is("lens")          -> [w |-> [wires EXCEPT !["model"] = <<Top + 3, 1>>],
                                 new |-> <<Node("FluxSampling", {Link("MODEL", wires["model"])}, stage, {})>>]
      [] OTHER               -> [w |-> wires, new |-> <<>>]

\* The image a stage starts from.
Scaled == wires["image"]

\* One iteration of the loop over the stages, up to the VAEDecode; or SaveImage.
AddRefinement ==
    /\ building = "stage" /\ Made <= inquiry.stages
    /\ LET r    == Refiner(Made)
           from == Top + 2 + Len(r.new)
           flow == IF inquiry.family \in CustomSteps THEN {} ELSE {Link("MODEL", r.w["model"])}
       IN  Add(<<Node("ImageScale", {Link("IMAGE", Scaled)}, Made, {}),
                 Node("VAEEncode", {<<"IMAGE", Top + 1, 1>>, Link("VAE", wires["vae"])}, Made, {})>> \o r.new \o
               <<Guider(r.w), Node("Scheduler", flow, Made, {}), Plain("SplitSigmas", {<<"SIGMAS", from + 2, 1>>}),
                 Plain("SamplerCustom", {<<"GUIDER", from + 1, 1>>, <<"SIGMAS", from + 3, 2>>, <<"LATENT", Top + 2, 1>>})>>,
               [wires EXCEPT !["samples"] = <<from + 4, 1>>], "decode")
    /\ UNCHANGED <<inquiry, container>>

SaveImage ==
    /\ building = "stage" /\ Made > inquiry.stages
    /\ Add(<<Plain("SaveImage", {Link("IMAGE", wires["image"])})>>, wires, "built")
    /\ UNCHANGED <<inquiry, container>>

WorkflowNext ==
    \/ ResolveRequest \/ CheckOptions \/ LoadModel \/ LoadText \/ LoadVae \/ PatchModel
    \/ EncodePrompts \/ SampleLatents \/ SampleDecoder \/ Decode \/ AddRefinement \/ SaveImage

WorkflowSpec == WorkflowInit /\ [][WorkflowNext]_workflowVars

-----------------------------------------------------------------------------
Inputs(i) == {l[2] : l \in nodes[i].links}
Samplers  == {i \in DOMAIN nodes : nodes[i].class \in {"KSampler", "SamplerCustom"}}

\* The node and what so many steps back from it lead to, if steps start at these nodes only.
Reach(i, open, steps) ==
    LET f[n \in 0..steps] == IF n = 0 THEN {i}
                             ELSE LET known == f[n - 1] IN known \cup UNION {Inputs(j) : j \in known \cap open}
    IN  f[steps]

\* Every node that the image of this node is made from, and the node.  Links lead back.
Cone(i) == Reach(i, DOMAIN nodes, Len(nodes))

\* Nodes whose size reaches a sampler: not behind another sampler, nor another size.
Near(i) == Reach(i, {i} \cup {k \in DOMAIN nodes \ Samplers : nodes[k].stage = Unsized}, 6)

\* A graph that is complete ends in the image it saves (comfyui_image_workflow.py:474).
WorkflowTypeOK ==
    /\ container \in {"auto", "checkpoint", "diffusion_model"} /\ DOMAIN wires = Wires
    /\ building = "built" => nodes[Top].class = "SaveImage" /\ Made = inquiry.stages + 1

\* The saved image is made with the model and with every component the user supplied: none
\* is loaded in vain or left out (comfyui_image_workflow.py:287-292).
ComponentsUsed == building = "built" =>
    UNION {nodes[i].files : i \in Cone(Top)} = {"model"} \cup inquiry.parts

\* Explicit components replace those of a checkpoint everywhere.
ComponentsReplace == building = "built" => \A i \in Cone(Top) :
    /\ Has("vae") => \A l \in nodes[i].links : l[1] = "VAE" => nodes[l[2]].class = "VAELoader"
    /\ Supplied # {} => \A l \in nodes[i].links :
          l[1] = "CLIP" => nodes[l[2]].class \in {"CLIPLoader", "ClipPatch"}

\* Every stage is refined, from the image of the stage before (436-473).
StagesFollow == building = "built" => \A s \in 1..inquiry.stages :
    \E i \in Cone(Top) :
        /\ nodes[i].class = "ImageScale" /\ nodes[i].stage = s
        /\ {nodes[j].stage : j \in {k \in Cone(i) : nodes[k].class = "ImageScale"}} = 1..s

\* A sampler's latents, conditioning, model sampling and schedule are of one size (381, 449-454).
SizesAgree == building = "built" => \A i \in Samplers \cap Cone(Top) :
    \A j, k \in Near(i) : nodes[j].stage # Unsized /\ nodes[k].stage # Unsized => nodes[j].stage = nodes[k].stage

\* With all nodes installed no accepted request fails for a link that does not fit, whatever
\* the family (comfyui_image_workflow.py:213-224).
LinksFit == verdict # "link"

\* A graph that is built makes the image that was asked for: of all components and no other, by
\* links that fit, through every stage and in its size.
GraphAsAsked ==
    /\ WorkflowTypeOK /\ LinksFit
    /\ ComponentsUsed /\ ComponentsReplace /\ StagesFollow /\ SizesAgree
=============================================================================
