----------------------------- MODULE Inspections -----------------------------
(***************************************************************************)
(* What the native engine remembers of the models it has looked into, and  *)
(* what it mounts by it (NativeDiffusion.cpp, nativeImage): the decoder    *)
(* and the text encoder a model lacks are taken from the request or from   *)
(* the shared resources, validated once per model, and mounted; so is the  *)
(* decoder of the refiner.  One request at a time holds the engine, which  *)
(* is what module NativeEngine shows; here requests follow one another.    *)
(* EngineCache::reset() ends the contexts and forgets no inspection.       *)
(***************************************************************************)
EXTENDS FiniteSets

CONSTANTS
    Holds,         \* of each file that can be asked for: family, vae ("embedded", "lacking", "unsupported"), llm
    SuitsVae,      \* of each family with a known decoder, the decoders that fit its tensors
    SharedVae,     \* of each such family, the decoder of the shared resources, or NoPart
    GoodEncoders,  \* the encoders that fit Krea2, the shared one among them
    SharedEncoder,
    Asking,        \* the requests [model, vae, llm, refiner]
    NoPart

Files == DOMAIN Holds
PartNames == {NoPart, SharedEncoder} \cup {q.vae : q \in Asking} \cup {q.llm : q \in Asking}
             \cup {SharedVae[f] : f \in DOMAIN SharedVae}
Contexts == [model : Files, vae : PartNames, llm : PartNames]
Refiners == [model : Files, vae : PartNames, of : Contexts]

\* The resources have a catalog of decoders and an encoder; of every model whose decoder is found
\* to be lacking the family is known.  NoPart stands for what is absent, and is none of these.
ASSUME InspectionsAssumption ==
    /\ Asking \subseteq [model : Files, vae : PartNames, llm : PartNames, refiner : Files \cup {NoPart}]
    /\ SharedEncoder # NoPart /\ NoPart \notin Files
    /\ {"sdxl-base"} \cup {IF Holds[c].family = "sdxl-refiner" THEN "sdxl-base" ELSE Holds[c].family :
                           c \in {x \in Files : Holds[x].vae = "lacking"}} \subseteq DOMAIN SharedVae
    /\ NoPart \notin DOMAIN SharedVae
    /\ NoPart \notin Contexts /\ NoPart \notin Refiners

VARIABLES
    asked,         \* the request that is served, or NoPart
    at,            \* where it is
    inspected,     \* the model whose inspection is remembered
    vaeInfo,       \* its family and the state of its decoder
    missing,       \* the family whose decoder it lacks, or NoPart
    validatedVae,  \* the decoder that was validated for it
    embeddedLlm,   \* whether it brings its text encoder
    validatedLlm,  \* the encoder that was validated for it
    inspectedRefiner, refinerInfo,   \* the same of the refiner
    chosen,        \* the decoder and the encoder of this request
    base, second   \* what the two contexts were made of, or NoPart

inspectionVars == <<asked, at, inspected, vaeInfo, missing, validatedVae, embeddedLlm, validatedLlm,
                    inspectedRefiner, refinerInfo, chosen, base, second>>
remembered     == <<inspected, vaeInfo, missing, validatedVae, embeddedLlm, validatedLlm>>
ofRefiner      == <<inspectedRefiner, refinerInfo>>

Nothing   == [family |-> "other", vae |-> "unsupported"]
InfoOf(c) == [family |-> Holds[c].family, vae |-> Holds[c].vae]
NoChoice  == [vae |-> NoPart, llm |-> NoPart]

\* The refiner shares the decoder of its base family.
VaeFamily(family) == IF family = "sdxl-refiner" THEN "sdxl-base" ELSE family
FitsVae(c, v) == /\ Holds[c].vae # "unsupported"
                 /\ v \in SuitsVae[VaeFamily(Holds[c].family)]

InspectionsInit ==
    /\ asked = NoPart /\ at = "idle"
    /\ inspected = NoPart /\ vaeInfo = Nothing /\ missing = NoPart
    /\ validatedVae = NoPart /\ embeddedLlm = FALSE /\ validatedLlm = NoPart
    /\ inspectedRefiner = NoPart /\ refinerInfo = Nothing
    /\ chosen = NoChoice
    /\ base = NoPart /\ second = NoPart

Ask ==
    /\ at = "idle"
    /\ asked' \in Asking
    /\ at' = "inspect"
    /\ chosen' = NoChoice
    /\ UNCHANGED <<remembered, ofRefiner, base, second>>

\* The request fails: the contexts end, what was looked into stays.
Abandon == asked' = NoPart /\ at' = "idle" /\ base' = NoPart /\ second' = NoPart

GoOn(to) == at' = to /\ UNCHANGED <<asked, base, second>>

-----------------------------------------------------------------------------
(* The model. *)

\* Mutant: the validation of the model before it is kept.
RevalidatesMutant == UNCHANGED <<validatedVae, validatedLlm>>

Revalidates == validatedVae' = NoPart /\ validatedLlm' = NoPart

LearnModel(c) ==
    /\ inspected' = c
    /\ vaeInfo' = InfoOf(c)
    /\ missing' = IF Holds[c].vae = "lacking" THEN VaeFamily(Holds[c].family) ELSE NoPart
    /\ Revalidates

\* The file cannot be read: nothing is remembered of it.
InspectionFails ==
    /\ at = "inspect" /\ inspected # asked.model
    /\ Abandon
    /\ UNCHANGED <<remembered, ofRefiner, chosen>>

\* A second look, for the encoder of Krea2, may fail when the first one is remembered.
InspectModel ==
    /\ at = "inspect"
    /\ IF inspected = asked.model
       THEN GoOn("vae") /\ UNCHANGED remembered
       ELSE /\ LearnModel(asked.model)
            /\ \/ embeddedLlm' = (Holds[asked.model].family = "krea2" /\ Holds[asked.model].llm) /\ GoOn("vae")
               \/ Holds[asked.model].family = "krea2" /\ embeddedLlm' = FALSE /\ Abandon
    /\ UNCHANGED <<ofRefiner, chosen>>

\* The request's own, or the shared one of the family that is missing; NoPart also where the
\* resources have none for it.
WantedVae == IF asked.vae # NoPart THEN asked.vae
             ELSE IF missing # NoPart THEN SharedVae[missing] ELSE NoPart

ChooseVae ==
    /\ at = "vae"
    /\ IF \/ asked.vae = NoPart /\ missing # NoPart /\ WantedVae = NoPart
          \/ /\ WantedVae \notin {NoPart, validatedVae}
             /\ vaeInfo.vae # "unsupported" /\ ~FitsVae(asked.model, WantedVae)
       THEN Abandon /\ UNCHANGED <<validatedVae, chosen>>
       ELSE /\ GoOn("llm")
            /\ validatedVae' = IF WantedVae = NoPart THEN validatedVae ELSE WantedVae
            /\ chosen' = [chosen EXCEPT !.vae = WantedVae]
    /\ UNCHANGED <<inspected, vaeInfo, missing, embeddedLlm, validatedLlm, ofRefiner>>

ChecksLlm(e) == e # NoPart /\ vaeInfo.family = "krea2" /\ e # validatedLlm

ChooseLlm ==
    LET wanted == IF asked.llm # NoPart THEN asked.llm
                  ELSE IF vaeInfo.family = "krea2" /\ ~embeddedLlm THEN SharedEncoder ELSE NoPart
    IN /\ at = "llm"
       /\ IF ChecksLlm(wanted) /\ wanted \notin GoodEncoders
          THEN Abandon /\ UNCHANGED <<validatedLlm, chosen>>
          ELSE /\ GoOn("mount")
               /\ validatedLlm' = IF ChecksLlm(wanted) THEN wanted ELSE validatedLlm
               /\ chosen' = [chosen EXCEPT !.llm = wanted]
       /\ UNCHANGED <<inspected, vaeInfo, missing, validatedVae, embeddedLlm, ofRefiner>>

\* The context is kept where it was made of the same files; a new one may fail.
Mount ==
    LET parts == [model |-> asked.model, vae |-> chosen.vae, llm |-> chosen.llm]
    IN /\ at = "mount"
       /\ \/ Abandon
          \/ /\ base' = parts
             /\ second' = IF base = parts THEN second ELSE NoPart
             /\ at' = IF asked.refiner = NoPart THEN "run" ELSE "look"
             /\ UNCHANGED asked
       /\ UNCHANGED <<remembered, ofRefiner, chosen>>

-----------------------------------------------------------------------------
(* The refiner. *)

IsRefiner(r) == Holds[r].family = "sdxl-refiner"

RemembersRefiner(r) == IsRefiner(r)

\* It is looked into in place: what a file that cannot be read or is no refiner leaves behind is
\* kept beside the name of the one before it.
InspectRefiner ==
    LET r == asked.refiner
    IN /\ at = "look"
       /\ IF Holds[base.model].family # "sdxl-base" THEN Abandon /\ UNCHANGED ofRefiner
          ELSE IF inspectedRefiner = r THEN GoOn("second") /\ UNCHANGED ofRefiner
          ELSE \/ Abandon /\ refinerInfo' = Nothing /\ UNCHANGED inspectedRefiner
               \/ /\ refinerInfo' = InfoOf(r)
                  /\ inspectedRefiner' = IF RemembersRefiner(r) THEN r ELSE inspectedRefiner
                  /\ IF IsRefiner(r) THEN GoOn("second") ELSE Abandon
       /\ UNCHANGED <<remembered, chosen>>

\* The base's decoder, or the shared one where the refiner is not known to have one; a context
\* of the same files is kept.
MountRefiner ==
    LET vae   == IF chosen.vae # NoPart THEN chosen.vae
                 ELSE IF refinerInfo.vae # "embedded" THEN SharedVae["sdxl-base"] ELSE NoPart
        parts == [model |-> asked.refiner, vae |-> vae, of |-> base]
    IN /\ at = "second"
       /\ \/ Abandon
          \/ /\ second = parts \/ (vae # NoPart => FitsVae(asked.refiner, vae))
             /\ second' = parts
             /\ at' = "run"
             /\ UNCHANGED <<asked, base>>
       /\ UNCHANGED <<remembered, ofRefiner, chosen>>

-----------------------------------------------------------------------------
\* The request ends well and its contexts stay for the next, or it fails.
Finish ==
    /\ at = "run"
    /\ \/ Abandon
       \/ asked' = NoPart /\ at' = "idle" /\ UNCHANGED <<base, second>>
    /\ UNCHANGED <<remembered, ofRefiner, chosen>>

\* releaseNativeDiffusionCache() between two requests.
Release ==
    /\ at = "idle"
    /\ base' = NoPart /\ second' = NoPart
    /\ UNCHANGED <<asked, at, remembered, ofRefiner, chosen>>

InspectionsNext ==
    \/ Ask \/ InspectionFails \/ InspectModel \/ ChooseVae \/ ChooseLlm \/ Mount
    \/ InspectRefiner \/ MountRefiner \/ Finish \/ Release

InspectionsSpec == InspectionsInit /\ [][InspectionsNext]_inspectionVars

-----------------------------------------------------------------------------
(* What is mounted. *)

\* A model runs with the decoder the request brings, else with its own when it has one and with
\* the shared one of its family when it lacks it, whatever was asked for before: what was found
\* out of another model, or of a file that could not be read, is never used for it
\* (NativeDiffusion.cpp:543-563).
DecoderOfTheModel ==
    at = "run" =>
        base.vae = IF asked.vae # NoPart THEN asked.vae
                   ELSE IF Holds[base.model].vae = "lacking" THEN SharedVae[VaeFamily(Holds[base.model].family)]
                   ELSE NoPart

\* Whatever was mounted before, a mounted decoder has been found to fit the model it is mounted
\* for, and a mounted encoder to fit Krea2, though each is validated only when it is not the one
\* validated last (NativeDiffusion.cpp:551-552, 564-571, 582-587).
MountedPartsFit ==
    base # NoPart =>
        /\ base.vae # NoPart /\ Holds[base.model].vae # "unsupported" => FitsVae(base.model, base.vae)
        /\ Holds[base.model].family = "krea2" =>
              /\ base.llm # NoPart => base.llm \in GoodEncoders
              /\ ~Holds[base.model].llm => base.llm # NoPart

\* The refiner is one, stands beside the base it was made for, and a decoder that is mounted for
\* it fits it (NativeDiffusion.cpp:719-757).
RefinerFitsItsBase ==
    at = "run" /\ asked.refiner # NoPart =>
        /\ second # NoPart /\ second.model = asked.refiner /\ second.of = base
        /\ Holds[second.model].family = "sdxl-refiner" /\ Holds[base.model].family = "sdxl-base"
        /\ second.vae # NoPart => FitsVae(second.model, second.vae)

\* "If there is a complete embedded SDXL VAE its weights are used, if it is absent the default
\* SDXL VAE is chosen" (docs/generation-defaults.md:78), of the refiner.
RefinerHasItsDecoder ==
    at = "run" /\ asked.refiner # NoPart /\ asked.vae = NoPart /\ base.vae = NoPart =>
        (second.vae = NoPart) = (Holds[second.model].vae = "embedded")

\* What is mounted belongs together, whatever was asked for, looked into and refused before.
MountedPartsBelong == DecoderOfTheModel /\ MountedPartsFit /\ RefinerFitsItsBase
=============================================================================
