--------------------------- MODULE ServiceProofs ----------------------------
(***************************************************************************)
(* Proofs about what runs draw on and draw.                                *)
(*                                                                         *)
(* Inspections: for any files, parts, families and requests, what is mounted *)
(* belongs together, though most of it was found out for an earlier request. *)
(*                                                                         *)
(* LocalRuntime: for any number of runs, ports, directories and artifacts, *)
(* runs that share them do not get into each other's way, and what a run   *)
(* reports is of the job it queued.                                        *)
(*                                                                         *)
(* WorkflowCheck: for any set of nodes and links, a graph is accepted only *)
(* if it is whole and has no cycle.                                        *)
(*                                                                         *)
(* VideoFrames: for any storyboards, of any number of shots and conditions, *)
(* each frame of a video is of its shot and its time.                      *)
(*                                                                         *)
(* Refinement: for any sizes, ratios, strengths and passes on any grid, a  *)
(* request is refined to what it asked for or is refused.                  *)
(***************************************************************************)
EXTENDS Inspections, LocalRuntime, WorkflowCheck, VideoFrames, Refinement, SequenceTheorems, DataLemmas

-----------------------------------------------------------------------------
(* Inspections *)

Places   == {"idle", "inspect", "vae", "llm", "mount", "look", "second", "run"}

\* What a decoder that is mounted with a model has been found to be.
SuitsIt(c, v) == v # NoPart /\ Holds[c].vae # "unsupported" => FitsVae(c, v)

\* What is remembered is of the model it is remembered with, what was validated fits that model.
Remembers ==
    /\ inspected \in Files \cup {NoPart}
    /\ inspected # NoPart =>
        /\ vaeInfo = InfoOf(inspected)
        /\ missing = IF Holds[inspected].vae = "lacking" THEN VaeFamily(Holds[inspected].family) ELSE NoPart
        /\ SuitsIt(inspected, validatedVae)
        /\ embeddedLlm => Holds[inspected].llm
        /\ Holds[inspected].family = "krea2" /\ validatedLlm # NoPart => validatedLlm \in GoodEncoders
    /\ inspectedRefiner # NoPart => inspectedRefiner \in Files /\ IsRefiner(inspectedRefiner)

\* The request that is served, and from its inspection on the model that is remembered.
Serves ==
    /\ at \in Places
    /\ at # "idle" => asked \in Asking
    /\ at \notin {"idle", "inspect"} => inspected = asked.model
    /\ at \in {"look", "second"} => asked.refiner # NoPart
    /\ at = "second" => IsRefiner(asked.refiner)

\* The parts that are chosen fit the model they are chosen for.
Chooses ==
    /\ chosen \in [vae : PartNames, llm : PartNames]
    /\ at \in {"llm", "mount", "look", "second", "run"} =>
        chosen.vae = WantedVae /\ SuitsIt(asked.model, chosen.vae)
    /\ at \in {"mount", "look", "second", "run"} /\ Holds[asked.model].family = "krea2" =>
        /\ chosen.llm # NoPart => chosen.llm \in GoodEncoders
        /\ ~Holds[asked.model].llm => chosen.llm # NoPart

\* The contexts are of parts that fit, and of this request once they are mounted for it.
Mounts ==
    /\ base # NoPart => base \in Contexts /\ MountedPartsFit
    /\ second # NoPart => second \in Refiners /\ (second.vae # NoPart => FitsVae(second.model, second.vae))
    /\ at \in {"look", "second", "run"} =>
        base # NoPart /\ base = [model |-> asked.model, vae |-> chosen.vae, llm |-> chosen.llm]
    /\ at = "second" => Holds[base.model].family = "sdxl-base"
    /\ at = "run" => RefinerFitsItsBase

MountInv == Remembers /\ Serves /\ Chooses /\ Mounts

-----------------------------------------------------------------------------
\* Where a family's decoder is looked up, one is kept; what the resources hold is a part.
LEMMA CatalogIsOfParts ==
    /\ \A c \in Files : Holds[c].vae = "lacking" => VaeFamily(Holds[c].family) \in DOMAIN SharedVae
    /\ \A f \in DOMAIN SharedVae : f # NoPart /\ SharedVae[f] \in PartNames
    /\ SharedVae["sdxl-base"] \in PartNames /\ NoPart \in PartNames /\ SharedEncoder \in PartNames
BY InspectionsAssumption DEF VaeFamily, PartNames

\* What a request names are files and parts.
LEMMA RequestParts ==
    ASSUME NEW q \in Asking
    PROVE  /\ q.model \in Files /\ q.model # NoPart /\ q.vae \in PartNames /\ q.llm \in PartNames
           /\ q.refiner \in Files \cup {NoPart}
BY InspectionsAssumption

\* The decoder that is wanted is a part, and is the one the model calls for.
LEMMA WantedIsRight ==
    ASSUME Remembers, asked \in Asking, inspected = asked.model
    PROVE  /\ WantedVae \in PartNames
           /\ WantedVae = IF asked.vae # NoPart THEN asked.vae
                          ELSE IF Holds[asked.model].vae = "lacking"
                               THEN SharedVae[VaeFamily(Holds[asked.model].family)] ELSE NoPart
<1>1. asked.model \in Files /\ asked.model # NoPart /\ asked.vae \in PartNames
  BY RequestParts
<1>2. missing = IF Holds[asked.model].vae = "lacking" THEN VaeFamily(Holds[asked.model].family) ELSE NoPart
  BY <1>1 DEF Remembers
<1>3. Holds[asked.model].vae = "lacking" =>
         /\ VaeFamily(Holds[asked.model].family) # NoPart
         /\ SharedVae[VaeFamily(Holds[asked.model].family)] \in PartNames
  BY <1>1, CatalogIsOfParts
<1>4. QED
  BY <1>1, <1>2, <1>3, CatalogIsOfParts DEF WantedVae

\* Nothing is remembered and nothing is mounted at first.
LEMMA InitMount == InspectionsInit => MountInv
<1> SUFFICES ASSUME InspectionsInit PROVE MountInv
  OBVIOUS
<1>1. Remembers /\ Serves
  BY DEF InspectionsInit, Remembers, Serves, Places
<1>2. Chooses /\ Mounts
  BY CatalogIsOfParts DEF InspectionsInit, Chooses, Mounts, NoChoice
<1>3. QED
  BY <1>1, <1>2 DEF MountInv

\* A request that fails keeps what is remembered and mounts nothing.
LEMMA AbandonKeeps ==
    ASSUME MountInv, Abandon, Remembers', UNCHANGED chosen
    PROVE  MountInv'
<1>1. at' = "idle" /\ base' = NoPart /\ second' = NoPart /\ chosen' = chosen
  BY DEF Abandon
<1>2. Serves' /\ Chooses' /\ Mounts'
  BY <1>1 DEF MountInv, Serves, Places, Chooses, Mounts
<1>3. QED
  BY <1>2 DEF MountInv

\* What is remembered stays true while none of it changes.
LEMMA SameRemembers ==
    ASSUME Remembers, UNCHANGED <<remembered, ofRefiner>>
    PROVE  Remembers'
BY DEF Remembers, remembered, ofRefiner, SuitsIt, FitsVae, InfoOf, IsRefiner

\* The contexts that were made go on fitting while none is made.
LEMMA SameMounts ==
    ASSUME Mounts, UNCHANGED <<base, second>>, at' \notin {"look", "second", "run"}
    PROVE  Mounts'
BY DEF Mounts, MountedPartsFit

\* A request that is taken chooses nothing yet.
LEMMA AskKeeps == MountInv /\ Ask => MountInv'
<1> SUFFICES ASSUME MountInv, Ask PROVE MountInv'
  OBVIOUS
<1>1. Remembers' /\ Mounts'
  BY SameRemembers, SameMounts DEF MountInv, Ask
<1>2. Serves' /\ Chooses'
  BY CatalogIsOfParts DEF Ask, MountInv, Serves, Places, Chooses, NoChoice
<1>3. QED
  BY <1>1, <1>2 DEF MountInv

\* A model that is looked into for the first time, or again after another one.
LEMMA InspectKeeps == MountInv /\ InspectModel => MountInv'
<1> SUFFICES ASSUME MountInv, InspectModel PROVE MountInv'
  OBVIOUS
<1>1. /\ at = "inspect" /\ UNCHANGED <<inspectedRefiner, refinerInfo, chosen>>
      /\ asked \in Asking /\ asked.model \in Files /\ asked.model # NoPart
  BY RequestParts DEF InspectModel, ofRefiner, MountInv, Serves
<1>2. Remembers' /\ (at' = "vae" => inspected' = asked.model)
  <2>1. CASE inspected = asked.model
    BY <2>1, <1>1, SameRemembers DEF InspectModel, ofRefiner, remembered, MountInv
  <2>2. CASE inspected # asked.model
    <3>1. LearnModel(asked.model) /\ (embeddedLlm' => Holds[asked.model].llm)
      BY <2>2 DEF InspectModel
    <3>2. /\ inspected' = asked.model /\ vaeInfo' = InfoOf(asked.model)
          /\ missing' = IF Holds[asked.model].vae = "lacking"
                        THEN VaeFamily(Holds[asked.model].family) ELSE NoPart
          /\ validatedVae' = NoPart /\ validatedLlm' = NoPart
      BY <3>1 DEF LearnModel, Revalidates
    <3>3. inspectedRefiner' # NoPart => inspectedRefiner' \in Files /\ IsRefiner(inspectedRefiner')
      BY <1>1 DEF MountInv, Remembers
    <3>4. QED
      BY <1>1, <3>1, <3>2, <3>3 DEF Remembers, SuitsIt, InfoOf, IsRefiner
  <2>3. QED
    BY <2>1, <2>2
<1>3. CASE Abandon
  BY <1>1, <1>2, <1>3, AbandonKeeps
<1>4. CASE GoOn("vae")
  <2>1. at' = "vae" /\ UNCHANGED <<asked, base, second>>
    BY <1>4 DEF GoOn
  <2>2. Serves' /\ Chooses'
    BY <1>1, <1>2, <2>1 DEF MountInv, Serves, Places, Chooses
  <2>3. Mounts'
    BY <2>1, SameMounts DEF MountInv
  <2>4. QED
    BY <1>2, <2>2, <2>3 DEF MountInv
<1>5. QED
  BY <1>3, <1>4 DEF InspectModel

\* The decoder was validated for the model that is mounted: what was validated for another one
\* was forgotten with it.
LEMMA ChooseVaeKeeps == MountInv /\ ChooseVae => MountInv'
<1> SUFFICES ASSUME MountInv, ChooseVae PROVE MountInv'
  OBVIOUS
<1>1. /\ at = "vae" /\ UNCHANGED <<inspected, vaeInfo, missing, embeddedLlm, validatedLlm>>
      /\ UNCHANGED <<inspectedRefiner, refinerInfo>>
      /\ asked \in Asking /\ asked.model \in Files /\ inspected = asked.model /\ asked.model # NoPart
  BY RequestParts DEF ChooseVae, ofRefiner, MountInv, Serves
<1>2. WantedVae \in PartNames
  BY <1>1, WantedIsRight DEF MountInv
<1>3. vaeInfo = InfoOf(asked.model) /\ SuitsIt(asked.model, validatedVae)
  BY <1>1 DEF MountInv, Remembers
<1>4. CASE Abandon /\ UNCHANGED <<validatedVae, chosen>>
  <2>1. Remembers'
    BY <1>1, <1>4, SameRemembers DEF MountInv, remembered, ofRefiner
  <2>2. QED
    BY <1>4, <2>1, AbandonKeeps
<1>5. CASE /\ GoOn("llm")
           /\ WantedVae \notin {NoPart, validatedVae} /\ vaeInfo.vae # "unsupported" => FitsVae(asked.model, WantedVae)
           /\ validatedVae' = IF WantedVae = NoPart THEN validatedVae ELSE WantedVae
           /\ chosen' = [chosen EXCEPT !.vae = WantedVae]
  <2>1. SuitsIt(asked.model, WantedVae) /\ SuitsIt(asked.model, validatedVae')
    BY <1>3, <1>5 DEF SuitsIt, InfoOf
  <2>2. at' = "llm" /\ UNCHANGED <<asked, base, second>>
    BY <1>5 DEF GoOn
  <2>3. Remembers'
    BY <1>1, <2>1 DEF MountInv, Remembers, IsRefiner
  <2>4. WantedVae' = WantedVae
    BY <1>1, <2>2 DEF WantedVae
  <2>5. Serves' /\ Chooses'
    BY <1>1, <1>2, <1>5, <2>1, <2>2, <2>4 DEF MountInv, Serves, Places, Chooses
  <2>6. Mounts'
    BY <2>2, SameMounts DEF MountInv
  <2>7. QED
    BY <2>3, <2>5, <2>6 DEF MountInv
<1>6. QED
  BY <1>4, <1>5 DEF ChooseVae

\* An encoder is checked for Krea2 unless it is the one that was, and one is there if it is lacking.
LEMMA ChooseLlmKeeps == MountInv /\ ChooseLlm => MountInv'
<1> DEFINE wanted == IF asked.llm # NoPart THEN asked.llm
                     ELSE IF vaeInfo.family = "krea2" /\ ~embeddedLlm THEN SharedEncoder ELSE NoPart
<1> SUFFICES ASSUME MountInv, ChooseLlm PROVE MountInv'
  OBVIOUS
<1>1. /\ at = "llm" /\ UNCHANGED <<inspected, vaeInfo, missing, embeddedLlm, validatedVae>>
      /\ UNCHANGED <<inspectedRefiner, refinerInfo>>
      /\ asked \in Asking /\ asked.model \in Files /\ inspected = asked.model /\ asked.model # NoPart
      /\ asked.llm \in PartNames
  BY RequestParts DEF ChooseLlm, ofRefiner, MountInv, Serves
<1>2. /\ vaeInfo.family = Holds[asked.model].family
      /\ embeddedLlm => Holds[asked.model].llm
      /\ Holds[asked.model].family = "krea2" /\ validatedLlm # NoPart => validatedLlm \in GoodEncoders
  BY <1>1 DEF MountInv, Remembers, InfoOf
<1>3. wanted \in PartNames
  BY <1>1, CatalogIsOfParts
<1>4. \/ Abandon /\ UNCHANGED <<validatedLlm, chosen>>
      \/ /\ GoOn("mount") /\ (ChecksLlm(wanted) => wanted \in GoodEncoders)
         /\ validatedLlm' = IF ChecksLlm(wanted) THEN wanted ELSE validatedLlm
         /\ chosen' = [chosen EXCEPT !.llm = wanted]
  BY DEF ChooseLlm
<1>5. CASE Abandon /\ UNCHANGED <<validatedLlm, chosen>>
  <2>1. Remembers'
    BY <1>1, <1>5, SameRemembers DEF MountInv, remembered, ofRefiner
  <2>2. QED
    BY <1>5, <2>1, AbandonKeeps
<1>6. CASE /\ GoOn("mount") /\ (ChecksLlm(wanted) => wanted \in GoodEncoders)
           /\ validatedLlm' = IF ChecksLlm(wanted) THEN wanted ELSE validatedLlm
           /\ chosen' = [chosen EXCEPT !.llm = wanted]
  <2>1. Holds[asked.model].family = "krea2" =>
           /\ wanted # NoPart => wanted \in GoodEncoders
           /\ ~Holds[asked.model].llm => wanted # NoPart
           /\ validatedLlm' # NoPart => validatedLlm' \in GoodEncoders
    BY <1>2, <1>6, InspectionsAssumption DEF ChecksLlm
  <2>2. at' = "mount" /\ UNCHANGED <<asked, base, second>>
    BY <1>6 DEF GoOn
  <2>3. Remembers'
    BY <1>1, <2>1 DEF MountInv, Remembers, IsRefiner, SuitsIt, FitsVae
  <2>4. WantedVae' = WantedVae
    BY <1>1, <2>2 DEF WantedVae
  <2> HIDE DEF wanted
  <2>5. chosen' \in [vae : PartNames, llm : PartNames] /\ chosen'.vae = chosen.vae /\ chosen'.llm = wanted
    BY <1>3, <1>6 DEF MountInv, Chooses
  <2>6. Serves' /\ Chooses'
    BY <1>1, <2>1, <2>2, <2>4, <2>5 DEF MountInv, Serves, Places, Chooses
  <2>7. Mounts'
    BY <2>2, SameMounts DEF MountInv
  <2>8. QED
    BY <2>3, <2>6, <2>7 DEF MountInv
<1>7. QED
  BY <1>4, <1>5, <1>6

\* The context that is made, or kept because it was made of the same files, is of parts that fit.
LEMMA MountKeeps == MountInv /\ Mount => MountInv'
<1> DEFINE parts == [model |-> asked.model, vae |-> chosen.vae, llm |-> chosen.llm]
<1> SUFFICES ASSUME MountInv, Mount PROVE MountInv'
  OBVIOUS
<1>1. /\ at = "mount" /\ UNCHANGED <<remembered, ofRefiner, chosen>>
      /\ asked \in Asking /\ asked.model \in Files
  BY RequestParts DEF Mount, MountInv, Serves
<1>2. Remembers'
  BY <1>1, SameRemembers DEF MountInv
<1>3. CASE Abandon
  BY <1>1, <1>2, <1>3, AbandonKeeps
<1>4. CASE /\ base' = parts /\ second' = (IF base = parts THEN second ELSE NoPart)
           /\ at' = (IF asked.refiner = NoPart THEN "run" ELSE "look")
           /\ asked' = asked
  <2>1. parts \in Contexts /\ parts # NoPart
    BY <1>1, InspectionsAssumption DEF MountInv, Chooses, Contexts
  <2>2. Serves' /\ Chooses'
    BY <1>1, <1>4 DEF MountInv, Serves, Places, Chooses, remembered, WantedVae
  <2>3. MountedPartsFit'
    BY <1>1, <1>4 DEF MountInv, Chooses, SuitsIt, MountedPartsFit
  <2>4. QED
    BY <1>1, <1>2, <1>4, <2>1, <2>2, <2>3 DEF MountInv, Mounts, RefinerFitsItsBase
<1>5. QED
  BY <1>3, <1>4 DEF Mount

\* A refiner that was looked into, now or for an earlier request, is one.
LEMMA InspectRefinerKeeps == MountInv /\ InspectRefiner => MountInv'
<1> SUFFICES ASSUME MountInv, InspectRefiner PROVE MountInv'
  OBVIOUS
<1>1. /\ at = "look" /\ UNCHANGED <<inspected, vaeInfo, missing, validatedVae, embeddedLlm, validatedLlm, chosen>>
      /\ asked \in Asking /\ asked.refiner \in Files /\ asked.refiner # NoPart
  BY RequestParts DEF InspectRefiner, remembered, MountInv, Serves
<1>2. /\ Abandon \/ (GoOn("second") /\ IsRefiner(asked.refiner) /\ Holds[base.model].family = "sdxl-base")
      /\ inspectedRefiner' = inspectedRefiner \/ (inspectedRefiner' = asked.refiner /\ IsRefiner(asked.refiner))
  BY <1>1 DEF InspectRefiner, ofRefiner, RemembersRefiner, MountInv, Remembers
<1>3. Remembers'
  BY <1>1, <1>2 DEF MountInv, Remembers, IsRefiner, SuitsIt, FitsVae, InfoOf
<1>4. CASE Abandon
  BY <1>1, <1>3, <1>4, AbandonKeeps
<1>5. CASE GoOn("second") /\ IsRefiner(asked.refiner) /\ Holds[base.model].family = "sdxl-base"
  <2>1. at' = "second" /\ UNCHANGED <<asked, base, second>>
    BY <1>5 DEF GoOn
  <2>2. Serves' /\ Chooses'
    BY <1>1, <1>5, <2>1 DEF MountInv, Serves, Places, Chooses, IsRefiner, WantedVae
  <2>3. Mounts'
    BY <1>1, <1>5, <2>1 DEF MountInv, Mounts, MountedPartsFit
  <2>4. QED
    BY <1>3, <2>2, <2>3 DEF MountInv
<1>6. QED
  BY <1>2, <1>4, <1>5

\* The refiner's context is of this base, and its decoder was found to fit when it was made.
LEMMA MountRefinerKeeps == MountInv /\ MountRefiner => MountInv'
<1> DEFINE vae   == IF chosen.vae # NoPart THEN chosen.vae
                    ELSE IF refinerInfo.vae # "embedded" THEN SharedVae["sdxl-base"] ELSE NoPart
           parts == [model |-> asked.refiner, vae |-> vae, of |-> base]
<1> SUFFICES ASSUME MountInv, MountRefiner PROVE MountInv'
  OBVIOUS
<1>1. /\ at = "second" /\ UNCHANGED <<remembered, ofRefiner, chosen>>
      /\ asked \in Asking /\ asked.refiner \in Files /\ asked.refiner # NoPart
  BY RequestParts DEF MountRefiner, MountInv, Serves
<1>2. Remembers'
  BY <1>1, SameRemembers DEF MountInv
<1>3. CASE Abandon
  BY <1>1, <1>2, <1>3, AbandonKeeps
<1>4. CASE /\ second = parts \/ (vae # NoPart => FitsVae(asked.refiner, vae))
           /\ second' = parts /\ at' = "run" /\ UNCHANGED <<asked, base>>
  <2>1. vae \in PartNames
    BY CatalogIsOfParts DEF MountInv, Chooses
  <2>2. base \in Contexts /\ base # NoPart
    BY <1>1 DEF MountInv, Mounts
  <2>3. parts \in Refiners /\ parts.model = asked.refiner /\ parts.of = base /\ parts.vae = vae
    BY <1>1, <2>1, <2>2 DEF Refiners
  <2> HIDE DEF vae, parts
  <2>4. parts # NoPart
    BY <2>3, InspectionsAssumption DEF Refiners, Contexts
  <2>5. parts.vae # NoPart => FitsVae(parts.model, parts.vae)
    BY <1>4, <2>3, <2>4 DEF MountInv, Mounts
  <2>6. IsRefiner(asked.refiner) /\ Holds[base.model].family = "sdxl-base"
    BY <1>1 DEF MountInv, Serves, Mounts
  <2>7. Serves' /\ Chooses'
    BY <1>1, <1>4 DEF MountInv, Serves, Places, Chooses, remembered, WantedVae
  <2>8. RefinerFitsItsBase'
    BY <1>4, <2>3, <2>4, <2>5, <2>6 DEF RefinerFitsItsBase, IsRefiner
  <2>9. Mounts'
    BY <1>1, <1>4, <2>3, <2>5, <2>8 DEF MountInv, Mounts, MountedPartsFit
  <2>10. QED
    BY <1>2, <2>7, <2>9 DEF MountInv
<1>5. QED
  BY <1>3, <1>4 DEF MountRefiner

\* Between two requests, and when a file cannot be read, nothing is found out.
LEMMA OthersKeep == MountInv /\ (InspectionFails \/ Finish \/ Release \/ UNCHANGED inspectionVars) => MountInv'
<1> SUFFICES ASSUME MountInv, InspectionFails \/ Finish \/ Release \/ UNCHANGED inspectionVars PROVE MountInv'
  OBVIOUS
<1>1. UNCHANGED <<remembered, ofRefiner, chosen>>
  BY DEF InspectionFails, Finish, Release, inspectionVars, remembered, ofRefiner
<1>2. Remembers'
  BY <1>1, SameRemembers DEF MountInv
<1>3. CASE Abandon
  BY <1>1, <1>2, <1>3, AbandonKeeps
<1>4. CASE at' = "idle" /\ (UNCHANGED <<base, second>> \/ (base' = NoPart /\ second' = NoPart))
  <2>1. Serves' /\ Chooses'
    BY <1>1, <1>4 DEF MountInv, Serves, Places, Chooses
  <2>2. Mounts'
    BY <1>4 DEF MountInv, Mounts, MountedPartsFit
  <2>3. QED
    BY <1>2, <2>1, <2>2 DEF MountInv
<1>5. CASE UNCHANGED inspectionVars
  <2>1. Serves' /\ Chooses'
    BY <1>5 DEF inspectionVars, MountInv, Serves, Chooses, WantedVae, SuitsIt, FitsVae
  <2>2. Mounts'
    BY <1>5 DEF inspectionVars, MountInv, Mounts, MountedPartsFit, RefinerFitsItsBase
  <2>3. QED
    BY <1>2, <2>1, <2>2 DEF MountInv
<1>6. QED
  <2>1. Release => at' = "idle"
    BY DEF Release
  <2>2. QED
    BY <1>3, <1>4, <1>5, <2>1 DEF InspectionFails, Finish, Release

\* Every step keeps the invariant.
LEMMA NextMount == MountInv /\ [InspectionsNext]_inspectionVars => MountInv'
BY AskKeeps, InspectKeeps, ChooseVaeKeeps, ChooseLlmKeeps, MountKeeps, InspectRefinerKeeps,
   MountRefinerKeeps, OthersKeep DEF InspectionsNext

\* What the invariant says of what is mounted.
LEMMA MountedBelong == MountInv => MountedPartsBelong
<1> SUFFICES ASSUME MountInv PROVE MountedPartsBelong
  OBVIOUS
<1>1. ASSUME at = "run" PROVE DecoderOfTheModel
  <2>1. asked \in Asking /\ inspected = asked.model
    BY <1>1 DEF MountInv, Serves
  <2>2. base.model = asked.model /\ base.vae = WantedVae
    BY <1>1 DEF MountInv, Chooses, Mounts
  <2>3. QED
    BY <2>1, <2>2, WantedIsRight DEF MountInv, DecoderOfTheModel
<1>2. MountedPartsFit
  BY DEF MountInv, Mounts, MountedPartsFit
<1>3. RefinerFitsItsBase
  BY DEF MountInv, Mounts, RefinerFitsItsBase
<1>4. QED
  BY <1>1, <1>2, <1>3 DEF MountedPartsBelong, DecoderOfTheModel

\* Whatever was asked for, looked into and refused before, a model runs with the decoder it calls
\* for, and decoder, encoder and refiner fit the model they are mounted for
\* (NativeDiffusion.cpp:543-587, 719-757).
THEOREM MountedTogether == InspectionsSpec => []MountedPartsBelong
BY InitMount, NextMount, MountedBelong, PTL DEF InspectionsSpec
-----------------------------------------------------------------------------
(* LocalRuntime and WorkflowCheck *)

Names == Artifacts \cup {"submission", "generation", "local"}

\* The files of a run in a directory.
Has(d, n, c) == <<n, c>> \in published[d]

FieldsOK ==
    /\ mode \in [Commands -> Modes] /\ outDir \in [Commands -> OutDirs]
    /\ spot \in [Commands -> Spots]
    /\ why \in [Commands -> {"ok", "error", "timeout"}] /\ port \in [Commands -> Ports \cup {UserPort}]
    /\ child \in [Commands -> {"none", "starting", "up", "dead"}]
    /\ listener \in [Ports \cup {UserPort} -> Commands \cup {UserPort, Nobody}]
    /\ expired \in [Commands -> BOOLEAN]
    /\ model \in [Commands -> 1..MaxEdit] /\ staged \in [Commands -> 0..MaxEdit]

JobsOK ==
    queued \in [Commands -> [state : {"none", "queued", "success", "error"},
                             on : Commands \cup {UserPort, Nobody}, version : 0..MaxEdit]]

DirsOK == published \in [OutDirs -> SUBSET (Names \X Commands)]

\* Only a server that is up listens, on the port its run was handed; a run that has ended by
\* itself, or is about to, has none.
ServersOK ==
    /\ \A p \in Ports \cup {UserPort} : listener[p] \in Commands =>
          p \in Ports /\ port[listener[p]] = p /\ child[listener[p]] = "up"
    /\ \A p \in Ports : listener[p] # UserPort
    /\ \A c \in Commands :
        /\ child[c] # "none" => port[c] \in Ports
        /\ mode[c] = "external" => child[c] = "none"
        /\ spot[c] \in {"start", "probe"} => child[c] = "none"
        /\ spot[c] \in {"verify", "publish", "done", "failed"} => child[c] \in {"none", "dead"}

\* Where a run can be, by its mode, by what has failed and by what it has queued.
FlowOf(c) ==
    /\ spot[c] \notin {"stop", "failed", "killed"} => why[c] = "ok"
    /\ mode[c] = "external" => spot[c] \notin {"probe", "startup", "stop", "verify", "publish"}
    /\ mode[c] = "validate" => queued[c].state = "none"
          /\ spot[c] \notin {"post", "record", "wait", "download"}
    /\ mode[c] # "external" /\ spot[c] \notin {"start", "probe", "failed", "killed"} =>
          child[c] # "none"
    /\ queued[c].state = "none" => queued[c].on = Nobody
    /\ queued[c].state # "none" => queued[c].on # Nobody
          /\ spot[c] \notin {"start", "probe", "startup", "check", "post"}
    /\ spot[c] \in {"record", "wait"} => queued[c].state # "none"

\* Whoever has a file in a directory was told to use it, and has its submission there; nobody
\* else has one.
FilesOK ==
    /\ \A d \in OutDirs, c \in Commands, n \in Names : Has(d, n, c) =>
          /\ d = outDir[c] /\ Has(d, "submission", c)
          /\ spot[c] \notin {"start", "probe", "startup", "check", "post", "record"}
    /\ \A d \in OutDirs, c \in Commands, e \in Commands :
          Has(d, "submission", c) /\ Has(d, "submission", e) => c = e

\* How far a run is tells what it has published and what became of its job.
ProgressOf(c) ==
    /\ spot[c] \in {"wait", "download"} => Has(outDir[c], "submission", c)
    /\ spot[c] = "download" => queued[c].state = "success"
    /\ spot[c] \in {"stop", "verify", "publish"} /\ why[c] = "ok" /\ mode[c] # "validate" =>
          Has(outDir[c], "generation", c)

\* GenerationMeansArtifacts, of one run and in its own directory.
ArtifactsOf(c) ==
    Has(outDir[c], "generation", c) =>
        queued[c].state = "success" /\ \A a \in Artifacts : Has(outDir[c], a, c)

\* A server's own run lent it the model: what it read is not older than what was staged, nor
\* newer than what is there, until the run has compared the two.
VersionsOf(c) ==
    /\ staged[c] <= model[c]
    /\ queued[c].state = "success" /\ queued[c].on = c =>
          staged[c] <= queued[c].version /\ queued[c].version <= model[c]
    /\ spot[c] = "publish" /\ queued[c].on = c => queued[c].version = staged[c]
    /\ Has(outDir[c], "local", c) => spot[c] = "done"
          /\ (queued[c].on = c => queued[c].version = staged[c])

\* TimeoutIsRecorded, of one run.
TimeoutOf(c) ==
    why[c] = "timeout" /\ queued[c].state # "none" => Has(outDir[c], "submission", c)

RunOK(c) == FlowOf(c) /\ ProgressOf(c) /\ ArtifactsOf(c) /\ VersionsOf(c) /\ TimeoutOf(c)

\* The inductive invariant.
RuntimeInv ==
    /\ FieldsOK /\ JobsOK /\ DirsOK /\ ServersOK /\ FilesOK
    /\ \A c \in Commands : RunOK(c)

-----------------------------------------------------------------------------
(* What a step does, and to whom. *)

ClientStep(c) ==
    \/ RunStep(c) \/ RunFails(c) \/ KillRun(c) \/ BindPort(c) \/ PassDeadline(c)
    \/ Execute(c) \/ EditModel(c)

\* A step of a run changes nothing of another run but the server that crashes under it, and no
\* run changes what it was asked for.
LEMMA OthersStay ==
    ASSUME FieldsOK, JobsOK, NEW c \in Commands, ClientStep(c)
    PROVE  /\ mode' = mode /\ outDir' = outDir
           /\ \A e \in Commands \ {c} :
                 /\ spot'[e] = spot[e] /\ why'[e] = why[e]
                 /\ port'[e] = port[e] /\ child'[e] = child[e]
                 /\ queued'[e] = queued[e] /\ model'[e] = model[e] /\ staged'[e] = staged[e]
<1> USE DEF FieldsOK, JobsOK, At, To
<1>1. CASE StageModels(c)
  BY <1>1 DEF StageModels
<1>2. CASE StartServer(c)
  BY <1>2 DEF StartServer
<1>3. CASE BindPort(c)
  BY <1>3 DEF BindPort
<1>4. CASE PollStartup(c)
  BY <1>4 DEF PollStartup, GiveUp
<1>5. CASE CheckRequest(c)
  BY <1>5 DEF CheckRequest, GiveUp
<1>6. CASE PostPrompt(c)
  BY <1>6 DEF PostPrompt, GiveUp
<1>7. CASE RecordSubmission(c)
  BY <1>7 DEF RecordSubmission, GiveUp
<1>8. CASE PollHistory(c)
  BY <1>8 DEF PollHistory, GiveUp
<1>9. CASE \E a \in Artifacts : Download(c, a)
  BY <1>9 DEF Download, GiveUp
<1>10. CASE WriteGeneration(c)
  BY <1>10 DEF WriteGeneration, GiveUp
<1>11. CASE StopServer(c)
  BY <1>11 DEF StopServer
<1>12. CASE VerifyStaged(c)
  BY <1>12 DEF VerifyStaged
<1>13. CASE WriteLocalReport(c)
  BY <1>13 DEF WriteLocalReport
<1>14. CASE RunFails(c)
  BY <1>14 DEF RunFails, GiveUp
<1>15. CASE KillRun(c)
  BY <1>15 DEF KillRun
<1>16. CASE PassDeadline(c)
  BY <1>16 DEF PassDeadline
<1>17. CASE Execute(c)
  BY <1>17 DEF Execute
<1>18. CASE EditModel(c)
  BY <1>18 DEF EditModel
<1>19. QED
  BY <1>1, <1>2, <1>3, <1>4, <1>5, <1>6, <1>7, <1>8, <1>9, <1>10, <1>11, <1>12, <1>13, <1>14,
     <1>15, <1>16, <1>17, <1>18 DEF ClientStep, RunStep

\* What one entry more means for each of the directories.
LEMMA Publishing ==
    ASSUME FieldsOK, DirsOK, NEW c \in Commands, NEW n \in Names,
           published' = [published EXCEPT ![outDir[c]] = published[outDir[c]] \cup {<<n, c>>}]
    PROVE  /\ DirsOK'
           /\ \A d \in OutDirs, m \in Names, e \in Commands :
                 Has(d, m, e)' <=> Has(d, m, e) \/ (d = outDir[c] /\ m = n /\ e = c)
<1>1. outDir[c] \in OutDirs
  BY DEF FieldsOK
<1>2. \A d \in OutDirs : published'[d] = IF d = outDir[c] THEN published[d] \cup {<<n, c>>} ELSE published[d]
  BY <1>1 DEF DirsOK
<1>3. \A d \in OutDirs : published[d] \cup {<<n, c>>} \subseteq Names \X Commands
  BY DEF DirsOK
<1>4. DirsOK'
  BY <1>1, <1>3 DEF DirsOK
<1>5. ASSUME NEW d \in OutDirs, NEW m \in Names, NEW e \in Commands
      PROVE  Has(d, m, e)' <=> Has(d, m, e) \/ (d = outDir[c] /\ m = n /\ e = c)
  <2>1. <<m, e>> = <<n, c>> <=> m = n /\ e = c
    OBVIOUS
  <2>2. QED
    BY <1>2, <2>1 DEF Has
<1>6. QED
  BY <1>4, <1>5

\* When a run publishes a file, and which.
Publishes(c, n) ==
    \/ /\ n = "submission" /\ spot[c] = "record" /\ spot'[c] = "wait"
       /\ \A e \in Commands : ~Has(outDir[c], "submission", e)
    \/ n \in Artifacts /\ spot[c] = "download" /\ spot'[c] = "download"
    \/ /\ n = "generation" /\ spot[c] = "download" /\ spot'[c] \in {"done", "stop"}
       /\ \A a \in Artifacts : Has(outDir[c], a, c)
    \/ n = "local" /\ spot[c] = "publish" /\ spot'[c] = "done" /\ mode[c] # "validate"

\* A step publishes nothing, or one file of its run.
LEMMA Publications ==
    ASSUME FieldsOK, DirsOK, NEW c \in Commands, ClientStep(c)
    PROVE  \/ published' = published
           \/ \E n \in Names :
                 /\ published' = [published EXCEPT ![outDir[c]] = published[outDir[c]] \cup {<<n, c>>}]
                 /\ Publishes(c, n)
<1> USE DEF FieldsOK, DirsOK, At, To, Publishes, Names, Written, Has
<1>1. CASE StageModels(c)
  BY <1>1 DEF StageModels
<1>2. CASE StartServer(c)
  BY <1>2 DEF StartServer
<1>3. CASE BindPort(c)
  BY <1>3 DEF BindPort
<1>4. CASE PollStartup(c)
  BY <1>4 DEF PollStartup, GiveUp
<1>5. CASE CheckRequest(c)
  BY <1>5 DEF CheckRequest, GiveUp
<1>6. CASE PostPrompt(c)
  BY <1>6 DEF PostPrompt, GiveUp
<1>7. CASE RecordSubmission(c)
  BY <1>7 DEF RecordSubmission, GiveUp, Publish
<1>8. CASE PollHistory(c)
  BY <1>8 DEF PollHistory, GiveUp
<1>9. CASE \E a \in Artifacts : Download(c, a)
  BY <1>9 DEF Download, GiveUp, Publish
<1>10. CASE WriteGeneration(c)
  BY <1>10 DEF WriteGeneration, GiveUp, Publish
<1>11. CASE StopServer(c)
  BY <1>11 DEF StopServer
<1>12. CASE VerifyStaged(c)
  BY <1>12 DEF VerifyStaged
<1>13. CASE WriteLocalReport(c)
  BY <1>13 DEF WriteLocalReport, Publish
<1>14. CASE RunFails(c)
  BY <1>14 DEF RunFails, GiveUp
<1>15. CASE KillRun(c)
  BY <1>15 DEF KillRun
<1>16. CASE PassDeadline(c)
  BY <1>16 DEF PassDeadline
<1>17. CASE Execute(c)
  BY <1>17 DEF Execute
<1>18. CASE EditModel(c)
  BY <1>18 DEF EditModel
<1>19. QED
  BY <1>1, <1>2, <1>3, <1>4, <1>5, <1>6, <1>7, <1>8, <1>9, <1>10, <1>11, <1>12, <1>13, <1>14,
     <1>15, <1>16, <1>17, <1>18 DEF ClientStep, RunStep

\* What becomes of the files of all runs with a step of one of them.
LEMMA FilesAfter ==
    ASSUME FieldsOK, DirsOK, NEW c \in Commands, ClientStep(c)
    PROVE  /\ DirsOK'
           /\ \/ \A d \in OutDirs, m \in Names, e \in Commands : Has(d, m, e)' <=> Has(d, m, e)
              \/ \E n \in Names :
                    /\ \A d \in OutDirs, m \in Names, e \in Commands :
                          Has(d, m, e)' <=> Has(d, m, e) \/ (d = outDir[c] /\ m = n /\ e = c)
                    /\ Publishes(c, n)
<1>1. CASE published' = published
  BY <1>1 DEF DirsOK, Has
<1>2. ASSUME NEW n \in Names, Publishes(c, n),
             published' = [published EXCEPT ![outDir[c]] = published[outDir[c]] \cup {<<n, c>>}]
      PROVE  /\ DirsOK'
             /\ \A d \in OutDirs, m \in Names, e \in Commands :
                   Has(d, m, e)' <=> Has(d, m, e) \/ (d = outDir[c] /\ m = n /\ e = c)
  BY <1>2, Publishing
<1>3. QED
  BY <1>1, <1>2, Publications

\* A job is queued once, and executed once.
LEMMA JobAfter ==
    ASSUME FieldsOK, JobsOK, NEW c \in Commands, FlowOf(c), ClientStep(c)
    PROVE  /\ JobsOK'
           /\ \/ queued'[c] = queued[c] /\ ~(spot[c] = "post" /\ spot'[c] = "record")
              \/ /\ spot[c] = "post" /\ spot'[c] \in {"record", "stop", "failed"}
                 /\ queued'[c].state = "queued" /\ queued'[c].on # Nobody
              \/ /\ queued[c].state = "queued" /\ queued'[c].state \in {"success", "error"}
                 /\ queued'[c].on = queued[c].on /\ spot'[c] = spot[c]
                 /\ spot[c] \notin Finals /\ published' = published
                 /\ why'[c] = why[c] /\ model'[c] = model[c] /\ staged'[c] = staged[c]
                 /\ queued[c].on = c => queued'[c].version = model[c]
<1> USE RuntimeAssumption DEF FieldsOK, JobsOK, At, To, Owner
<1>1. CASE StageModels(c)
  BY <1>1 DEF StageModels
<1>2. CASE StartServer(c)
  BY <1>2 DEF StartServer
<1>3. CASE BindPort(c)
  BY <1>3 DEF BindPort
<1>4. CASE PollStartup(c)
  BY <1>4 DEF PollStartup, GiveUp
<1>5. CASE CheckRequest(c)
  BY <1>5 DEF CheckRequest, GiveUp
<1>6. CASE PostPrompt(c)
  <2>1. queued[c] \in [state : {"none", "queued", "success", "error"},
                      on : Commands \cup {UserPort, Nobody}, version : 0..MaxEdit]
    BY DEF JobsOK
  <2>2. Owner(c) \in Commands \cup {UserPort, Nobody} /\ Owner(c) # Nobody
    BY <1>6 DEF PostPrompt
  <2>3. queued' = [queued EXCEPT ![c] = [queued[c] EXCEPT !.state = "queued", !.on = Owner(c)]]
    BY <1>6 DEF PostPrompt
  <2>4. queued'[c] = [queued[c] EXCEPT !.state = "queued", !.on = Owner(c)]
    BY <2>3 DEF JobsOK
  <2>5. spot[c] = "post" /\ spot'[c] \in {"record", "stop", "failed"}
    BY <1>6 DEF PostPrompt, GiveUp
  <2>6. QED
    BY <2>1, <2>2, <2>3, <2>4, <2>5 DEF JobsOK
<1>7. CASE RecordSubmission(c)
  BY <1>7 DEF RecordSubmission, GiveUp
<1>8. CASE PollHistory(c)
  BY <1>8 DEF PollHistory, GiveUp
<1>9. CASE \E a \in Artifacts : Download(c, a)
  BY <1>9 DEF Download, GiveUp
<1>10. CASE WriteGeneration(c)
  BY <1>10 DEF WriteGeneration, GiveUp
<1>11. CASE StopServer(c)
  BY <1>11 DEF StopServer
<1>12. CASE VerifyStaged(c)
  BY <1>12 DEF VerifyStaged
<1>13. CASE WriteLocalReport(c)
  BY <1>13 DEF WriteLocalReport
<1>14. CASE RunFails(c)
  BY <1>14 DEF RunFails, GiveUp
<1>15. CASE KillRun(c)
  BY <1>15 DEF KillRun
<1>16. CASE PassDeadline(c)
  BY <1>16 DEF PassDeadline
<1>17. CASE Execute(c)
  <2>1. PICK result \in {"success", "error"} :
           queued' = [queued EXCEPT ![c] = [queued[c] EXCEPT !.state = result, !.version =
                         IF queued[c].on = UserPort THEN model[c] ELSE model[queued[c].on]]]
    BY <1>17 DEF Execute
  <2> DEFINE read == IF queued[c].on = UserPort THEN model[c] ELSE model[queued[c].on]
  <2>2. queued[c] \in [state : {"none", "queued", "success", "error"},
                      on : Commands \cup {UserPort, Nobody}, version : 0..MaxEdit]
    BY DEF JobsOK
  <2>3. queued[c].state = "queued" /\ queued[c].on # Nobody /\ spot[c] \notin Finals
    BY <1>17, FlowOf(c) DEF Execute, FlowOf
  <2>4. read \in 0..MaxEdit /\ (queued[c].on = c => read = model[c])
    <3>1. queued[c].on \in Commands \cup {UserPort}
      BY <2>2, <2>3
    <3>2. QED
      BY <3>1
  <2>5. queued'[c] = [queued[c] EXCEPT !.state = result, !.version = read]
    BY <2>1 DEF JobsOK
  <2>6. JobsOK'
    <3> HIDE DEF read
    <3>1. [queued[c] EXCEPT !.state = result, !.version = read] \in
             [state : {"none", "queued", "success", "error"},
              on : Commands \cup {UserPort, Nobody}, version : 0..MaxEdit]
      BY <2>2, <2>4
    <3>2. queued' = [queued EXCEPT ![c] = [queued[c] EXCEPT !.state = result, !.version = read]]
      BY <2>1 DEF read
    <3>3. QED
      BY <3>1, <3>2 DEF JobsOK
  <2>7. queued'[c].state = result /\ queued'[c].on = queued[c].on /\ queued'[c].version = read
    <3> HIDE DEF read
    <3> QED
      BY <2>2, <2>5
  <2>8. spot' = spot /\ why' = why /\ model' = model /\ staged' = staged /\ published' = published
    BY ONLY <1>17 DEF Execute
  <2>9. QED
    BY <2>3, <2>4, <2>6, <2>7, <2>8
<1>18. CASE EditModel(c)
  BY <1>18 DEF EditModel
<1>19. QED
  BY <1>1, <1>2, <1>3, <1>4, <1>5, <1>6, <1>7, <1>8, <1>9, <1>10, <1>11, <1>12, <1>13, <1>14,
     <1>15, <1>16, <1>17, <1>18 DEF ClientStep, RunStep

\* Where a run goes from where it is.
Goes(c, from, to) == spot[c] = from /\ spot'[c] = to /\ why'[c] = why[c]

Moves(c) ==
    \/ spot'[c] = spot[c] /\ why'[c] = why[c]
    \/ spot[c] \notin Finals /\ spot'[c] = "killed" /\ why'[c] = why[c]
    \/ /\ spot[c] \notin {"stop", "done", "failed", "killed"}     \* it gives up
       /\ spot'[c] = IF child[c] = "none" THEN "failed" ELSE "stop"
       /\ why'[c] \in {"error", "timeout"} /\ (why'[c] = "timeout" => spot[c] \in {"startup", "wait"})
    \/ Goes(c, "start", "check") /\ mode[c] = "external"
    \/ Goes(c, "start", "probe") /\ mode[c] # "external"
    \/ Goes(c, "probe", "startup") \/ Goes(c, "startup", "check")
    \/ Goes(c, "check", "stop") /\ mode[c] = "validate"
    \/ Goes(c, "check", "post") /\ mode[c] # "validate"
    \/ Goes(c, "post", "record")
    \/ Goes(c, "record", "wait") /\ Has(outDir[c], "submission", c)'
    \/ Goes(c, "wait", "download") /\ queued[c].state = "success"
    \/ /\ \/ Goes(c, "download", "done") /\ mode[c] = "external"
          \/ Goes(c, "download", "stop") /\ mode[c] # "external"
       /\ Has(outDir[c], "generation", c)'
    \/ Goes(c, "stop", "verify") /\ why[c] = "ok"
    \/ Goes(c, "stop", "failed") /\ why[c] # "ok"
    \/ Goes(c, "verify", "publish") /\ staged[c] = model[c]
    \/ Goes(c, "verify", "failed")
    \/ Goes(c, "publish", "done")

\* A step of a run takes it from where it is to a next place (comfyui_runtime.py:241-315).
LEMMA RunMoves ==
    ASSUME FieldsOK, DirsOK, NEW c \in Commands, ClientStep(c)
    PROVE  Moves(c)
<1> USE DEF FieldsOK, At, To, Moves, Goes, Finals
<1>1. CASE StageModels(c)
  BY <1>1 DEF StageModels
<1>2. CASE StartServer(c)
  BY <1>2 DEF StartServer
<1>3. CASE BindPort(c)
  BY <1>3 DEF BindPort
<1>4. CASE PollStartup(c)
  BY <1>4 DEF PollStartup, GiveUp
<1>5. CASE CheckRequest(c)
  BY <1>5 DEF CheckRequest, GiveUp
<1>6. CASE PostPrompt(c)
  BY <1>6 DEF PostPrompt, GiveUp
<1>7. CASE RecordSubmission(c)
  <2>1. "submission" \in Names /\ outDir[c] \in OutDirs /\ outDir' = outDir
    BY <1>7 DEF RecordSubmission, Names
  <2>2. CASE /\ published' = [published EXCEPT ![outDir[c]] = published[outDir[c]] \cup {<<"submission", c>>}]
             /\ To(c, "wait") /\ why' = why
    <3>1. Has(outDir[c], "submission", c)'
      BY <2>1, <2>2, Publishing
    <3>2. QED
      BY <1>7, <2>2, <3>1 DEF RecordSubmission
  <2>3. CASE GiveUp(c, "error")
    BY <1>7, <2>3 DEF RecordSubmission, GiveUp
  <2>4. QED
    BY <1>7, <2>2, <2>3 DEF RecordSubmission, Publish
<1>8. CASE PollHistory(c)
  BY <1>8 DEF PollHistory, GiveUp
<1>9. CASE \E a \in Artifacts : Download(c, a)
  BY <1>9 DEF Download, GiveUp
<1>10. CASE WriteGeneration(c)
  <2>1. "generation" \in Names /\ outDir[c] \in OutDirs /\ outDir' = outDir
    BY <1>10 DEF WriteGeneration, Names
  <2>2. CASE /\ published' = [published EXCEPT ![outDir[c]] = published[outDir[c]] \cup {<<"generation", c>>}]
             /\ To(c, IF mode[c] = "external" THEN "done" ELSE "stop") /\ why' = why
    <3>1. Has(outDir[c], "generation", c)'
      BY <2>1, <2>2, Publishing
    <3>2. QED
      BY <1>10, <2>2, <3>1 DEF WriteGeneration
  <2>3. CASE GiveUp(c, "error")
    BY <1>10, <2>3 DEF WriteGeneration, GiveUp
  <2>4. QED
    BY <1>10, <2>2, <2>3 DEF WriteGeneration, Publish
<1>11. CASE StopServer(c)
  BY <1>11 DEF StopServer
<1>12. CASE VerifyStaged(c)
  BY <1>12 DEF VerifyStaged
<1>13. CASE WriteLocalReport(c)
  BY <1>13 DEF WriteLocalReport
<1>14. CASE RunFails(c)
  BY <1>14 DEF RunFails, GiveUp
<1>15. CASE KillRun(c)
  BY <1>15 DEF KillRun
<1>16. CASE PassDeadline(c)
  BY <1>16 DEF PassDeadline
<1>17. CASE Execute(c)
  BY <1>17 DEF Execute
<1>18. CASE EditModel(c)
  BY <1>18 DEF EditModel
<1>19. QED
  BY <1>1, <1>2, <1>3, <1>4, <1>5, <1>6, <1>7, <1>8, <1>9, <1>10, <1>11, <1>12, <1>13, <1>14,
     <1>15, <1>16, <1>17, <1>18 DEF ClientStep, RunStep

\* Every variable keeps its type.
LEMMA FieldsKept ==
    ASSUME FieldsOK, NEW c \in Commands, ClientStep(c)
    PROVE  FieldsOK'
<1> USE RuntimeAssumption DEF FieldsOK, At, To, Spots, Modes, Finals, Owner
<1>1. CASE StageModels(c)
  BY <1>1 DEF StageModels
<1>2. CASE StartServer(c)
  BY <1>2 DEF StartServer
<1>3. CASE BindPort(c)
  <2>1. port[c] \in Ports \cup {UserPort}
    OBVIOUS
  <2>2. UNCHANGED <<mode, outDir, spot, why, port, expired, model, staged>>
    BY <1>3 DEF BindPort
  <2>3. child' \in [Commands -> {"none", "starting", "up", "dead"}]
    BY ONLY <1>3, child \in [Commands -> {"none", "starting", "up", "dead"}] DEF BindPort
  <2>4. listener' \in [Ports \cup {UserPort} -> Commands \cup {UserPort, Nobody}]
    BY <1>3, <2>1 DEF BindPort
  <2>5. QED
    BY <2>2, <2>3, <2>4
<1>4. CASE PollStartup(c)
  BY <1>4 DEF PollStartup, GiveUp
<1>5. CASE CheckRequest(c)
  BY <1>5 DEF CheckRequest, GiveUp
<1>6. CASE PostPrompt(c)
  BY <1>6 DEF PostPrompt, GiveUp
<1>7. CASE RecordSubmission(c)
  BY <1>7 DEF RecordSubmission, GiveUp
<1>8. CASE PollHistory(c)
  BY <1>8 DEF PollHistory, GiveUp
<1>9. CASE \E a \in Artifacts : Download(c, a)
  BY <1>9 DEF Download, GiveUp
<1>10. CASE WriteGeneration(c)
  BY <1>10 DEF WriteGeneration, GiveUp
<1>11. CASE StopServer(c)
  BY <1>11 DEF StopServer
<1>12. CASE VerifyStaged(c)
  BY <1>12 DEF VerifyStaged
<1>13. CASE WriteLocalReport(c)
  BY <1>13 DEF WriteLocalReport
<1>14. CASE RunFails(c)
  BY <1>14 DEF RunFails, GiveUp
<1>15. CASE KillRun(c)
  BY <1>15 DEF KillRun
<1>16. CASE PassDeadline(c)
  BY <1>16 DEF PassDeadline
<1>17. CASE Execute(c)
  <2>1. UNCHANGED <<mode, outDir, spot, why, port, child, listener, expired, model, staged>>
    BY <1>17 DEF Execute
  <2>2. QED
    BY <2>1
<1>18. CASE EditModel(c)
  BY <1>18 DEF EditModel
<1>19. QED
  BY <1>1, <1>2, <1>3, <1>4, <1>5, <1>6, <1>7, <1>8, <1>9, <1>10, <1>11, <1>12, <1>13, <1>14,
     <1>15, <1>16, <1>17, <1>18 DEF ClientStep, RunStep

\* A server has one owner and one port.
LEMMA ServersKept ==
    ASSUME FieldsOK, ServersOK, NEW c \in Commands, FlowOf(c), ClientStep(c)
    PROVE  ServersOK'
<1> USE RuntimeAssumption DEF FieldsOK, ServersOK, FlowOf, At, To, Owner, Modes, Finals
<1>1. CASE StageModels(c)
  BY <1>1 DEF StageModels
<1>2. CASE StartServer(c)
  BY <1>2 DEF StartServer
<1>3. CASE BindPort(c)
  BY <1>3 DEF BindPort
<1>4. CASE PollStartup(c)
  BY <1>4 DEF PollStartup, GiveUp
<1>5. CASE CheckRequest(c)
  BY <1>5 DEF CheckRequest, GiveUp
<1>6. CASE PostPrompt(c)
  BY <1>6 DEF PostPrompt, GiveUp
<1>7. CASE RecordSubmission(c)
  BY <1>7 DEF RecordSubmission, GiveUp
<1>8. CASE PollHistory(c)
  BY <1>8 DEF PollHistory, GiveUp
<1>9. CASE \E a \in Artifacts : Download(c, a)
  BY <1>9 DEF Download, GiveUp
<1>10. CASE WriteGeneration(c)
  BY <1>10 DEF WriteGeneration, GiveUp
<1>11. CASE StopServer(c)
  BY <1>11 DEF StopServer
<1>12. CASE VerifyStaged(c)
  BY <1>12 DEF VerifyStaged
<1>13. CASE WriteLocalReport(c)
  BY <1>13 DEF WriteLocalReport
<1>14. CASE RunFails(c)
  BY <1>14 DEF RunFails, GiveUp
<1>15. CASE KillRun(c)
  BY <1>15 DEF KillRun
<1>16. CASE PassDeadline(c)
  BY <1>16 DEF PassDeadline
<1>17. CASE Execute(c)
  BY <1>17 DEF Execute
<1>18. CASE EditModel(c)
  BY <1>18 DEF EditModel
<1>19. QED
  BY <1>1, <1>2, <1>3, <1>4, <1>5, <1>6, <1>7, <1>8, <1>9, <1>10, <1>11, <1>12, <1>13, <1>14,
     <1>15, <1>16, <1>17, <1>18 DEF ClientStep, RunStep

\* A run that has a server keeps its process, and has one once it was started.
LEMMA ChildAfter ==
    ASSUME FieldsOK, NEW c \in Commands, ClientStep(c)
    PROVE  /\ child'[c] = "none" => child[c] = "none"
           /\ spot[c] = "probe" /\ spot'[c] = "startup" => child'[c] # "none"
<1> USE DEF FieldsOK, At, To
<1>1. CASE StageModels(c)
  BY <1>1 DEF StageModels
<1>2. CASE StartServer(c)
  BY <1>2 DEF StartServer
<1>3. CASE BindPort(c)
  BY <1>3 DEF BindPort
<1>4. CASE PollStartup(c)
  BY <1>4 DEF PollStartup, GiveUp
<1>5. CASE CheckRequest(c)
  BY <1>5 DEF CheckRequest, GiveUp
<1>6. CASE PostPrompt(c)
  BY <1>6 DEF PostPrompt, GiveUp
<1>7. CASE RecordSubmission(c)
  BY <1>7 DEF RecordSubmission, GiveUp
<1>8. CASE PollHistory(c)
  BY <1>8 DEF PollHistory, GiveUp
<1>9. CASE \E a \in Artifacts : Download(c, a)
  BY <1>9 DEF Download, GiveUp
<1>10. CASE WriteGeneration(c)
  BY <1>10 DEF WriteGeneration, GiveUp
<1>11. CASE StopServer(c)
  BY <1>11 DEF StopServer
<1>12. CASE VerifyStaged(c)
  BY <1>12 DEF VerifyStaged
<1>13. CASE WriteLocalReport(c)
  BY <1>13 DEF WriteLocalReport
<1>14. CASE RunFails(c)
  BY <1>14 DEF RunFails, GiveUp
<1>15. CASE KillRun(c)
  BY <1>15 DEF KillRun
<1>16. CASE PassDeadline(c)
  BY <1>16 DEF PassDeadline
<1>17. CASE Execute(c)
  BY <1>17 DEF Execute
<1>18. CASE EditModel(c)
  BY <1>18 DEF EditModel
<1>19. QED
  BY <1>1, <1>2, <1>3, <1>4, <1>5, <1>6, <1>7, <1>8, <1>9, <1>10, <1>11, <1>12, <1>13, <1>14,
     <1>15, <1>16, <1>17, <1>18 DEF ClientStep, RunStep

\* A run goes the way of its mode.
LEMMA FlowKept ==
    ASSUME FieldsOK, FieldsOK', JobsOK, ServersOK, ServersOK', NEW c \in Commands, FlowOf(c), ClientStep(c), Moves(c)
    PROVE  FlowOf(c)'
<1>1. mode'[c] = mode[c] /\ mode[c] \in Modes
  BY OthersStay DEF FieldsOK
<1>2. /\ spot'[c] \notin {"stop", "failed", "killed"} => why'[c] = "ok"
      /\ mode[c] = "external" => spot'[c] \notin {"probe", "startup", "stop", "verify", "publish"}
      /\ mode[c] = "validate" => spot'[c] \notin {"post", "record", "wait", "download"}
  BY DEF Moves, Goes, Finals, FlowOf, ServersOK
<1>3. child'[c] = "none" => child[c] = "none" /\ ~Goes(c, "probe", "startup")
  BY ChildAfter DEF Goes
<1>4. mode[c] # "external" /\ spot'[c] \notin {"start", "probe", "failed", "killed"} => child'[c] # "none"
  BY <1>3 DEF Moves, Goes, Finals, FlowOf
<1>5. CASE queued'[c] = queued[c] /\ ~(spot[c] = "post" /\ spot'[c] = "record")
  <2>1. queued[c].state = "none" => queued[c].on = Nobody
    BY DEF FlowOf
  <2>2. queued[c].state # "none" => queued[c].on # Nobody
           /\ spot'[c] \notin {"start", "probe", "startup", "check", "post"}
    BY DEF Moves, Goes, Finals, FlowOf
  <2>3. spot'[c] \in {"record", "wait"} => queued[c].state # "none"
    BY <1>5 DEF Moves, Goes, Finals, FlowOf
  <2>4. mode[c] = "validate" => queued[c].state = "none"
    BY DEF FlowOf
  <2>5. QED
    BY <1>1, <1>2, <1>4, <1>5, <2>1, <2>2, <2>3, <2>4 DEF FlowOf
<1>6. CASE ~(queued'[c] = queued[c] /\ ~(spot[c] = "post" /\ spot'[c] = "record"))
  BY <1>1, <1>2, <1>4, <1>6, JobAfter DEF Moves, Goes, Finals, FlowOf
<1>7. QED
  BY <1>5, <1>6

\* What a run has published says how far it is.
LEMMA ProgressKept ==
    ASSUME FieldsOK, JobsOK, DirsOK, NEW c \in Commands, FlowOf(c), ProgressOf(c), ClientStep(c), Moves(c)
    PROVE  ProgressOf(c)'
<1>1. mode' = mode /\ outDir' = outDir /\ outDir[c] \in OutDirs
  BY OthersStay DEF FieldsOK
<1>2. \A n \in Names : Has(outDir[c], n, c) => Has(outDir[c], n, c)'
  BY <1>1, FilesAfter
<1>3. Has(outDir[c], "submission", c) => Has(outDir[c], "submission", c)'
  BY <1>2 DEF Names
<1>4. Has(outDir[c], "generation", c) => Has(outDir[c], "generation", c)'
  BY <1>2 DEF Names
<1>5. spot'[c] \in {"wait", "download"} => Has(outDir[c], "submission", c)'
  BY <1>3 DEF Moves, Goes, Finals, ProgressOf
<1>6. spot'[c] = "download" => queued[c].state = "success"
  BY DEF Moves, Goes, Finals, ProgressOf
<1>7. spot'[c] = "download" => queued'[c].state = "success"
  BY <1>6, JobAfter
<1>8. spot'[c] \in {"stop", "verify", "publish"} /\ why'[c] = "ok" /\ mode[c] # "validate" =>
         Has(outDir[c], "generation", c)'
  BY <1>4 DEF Moves, Goes, Finals, ProgressOf
<1>9. QED
  BY <1>1, <1>5, <1>7, <1>8 DEF ProgressOf

\* generation.json comes after the artifacts, which stay.
LEMMA ArtifactsKept ==
    ASSUME FieldsOK, JobsOK, DirsOK, NEW c \in Commands, FlowOf(c), ProgressOf(c), ArtifactsOf(c), FilesOK,
           ClientStep(c)
    PROVE  ArtifactsOf(c)'
<1>1. /\ outDir' = outDir /\ outDir[c] \in OutDirs
      /\ "generation" \in Names /\ Artifacts \subseteq Names
  BY OthersStay DEF FieldsOK, Names
<1>2. \A n \in Names : Has(outDir[c], n, c) => Has(outDir[c], n, c)'
  BY <1>1, FilesAfter
<1>3. CASE Has(outDir[c], "generation", c)
  <2>1. queued[c].state = "success" /\ \A a \in Artifacts : Has(outDir[c], a, c)
    BY <1>3 DEF ArtifactsOf
  <2>2. spot[c] # "post"
    BY <1>1, <1>3 DEF FilesOK
  <2>3. queued'[c].state = "success" /\ \A a \in Artifacts : Has(outDir[c], a, c)'
    BY <1>1, <1>2, <2>1, <2>2, JobAfter
  <2>4. QED
    BY <1>1, <2>3 DEF ArtifactsOf
<1>4. CASE ~Has(outDir[c], "generation", c) /\ Has(outDir[c], "generation", c)'
  <2>1. Publishes(c, "generation")
    BY <1>1, <1>4, FilesAfter
  <2>2. spot[c] = "download" /\ \A a \in Artifacts : Has(outDir[c], a, c)
    BY <2>1, RuntimeAssumption DEF Publishes
  <2>3. queued'[c].state = "success" /\ \A a \in Artifacts : Has(outDir[c], a, c)'
    BY <1>1, <1>2, <2>2, JobAfter DEF ProgressOf
  <2>4. QED
    BY <1>1, <2>3 DEF ArtifactsOf
<1>5. QED
  BY <1>1, <1>3, <1>4 DEF ArtifactsOf

\* A run that gave up on time had recorded its job.
LEMMA TimeoutKept ==
    ASSUME FieldsOK, JobsOK, DirsOK, NEW c \in Commands, FlowOf(c), ProgressOf(c), TimeoutOf(c),
           ClientStep(c), Moves(c)
    PROVE  TimeoutOf(c)'
<1>1. outDir' = outDir /\ outDir[c] \in OutDirs /\ "submission" \in Names
  BY OthersStay DEF FieldsOK, Names
<1>2. Has(outDir[c], "submission", c) => Has(outDir[c], "submission", c)'
  BY <1>1, FilesAfter
<1>3. why'[c] = "timeout" => why[c] = "timeout" \/ spot[c] \in {"startup", "wait"}
  BY DEF Moves, Goes, Finals
<1>4. why'[c] = "timeout" /\ queued'[c].state # "none" => Has(outDir[c], "submission", c)
  BY <1>3, JobAfter DEF TimeoutOf, ProgressOf, FlowOf
<1>5. QED
  BY <1>1, <1>2, <1>4 DEF TimeoutOf

\* What the server read lies between what was staged and what is there.
LEMMA VersionsKept ==
    ASSUME FieldsOK, JobsOK, DirsOK, FilesOK, NEW c \in Commands, FlowOf(c), ProgressOf(c), ArtifactsOf(c),
           VersionsOf(c), ClientStep(c), Moves(c)
    PROVE  VersionsOf(c)'
<1>1. outDir' = outDir /\ mode' = mode /\ outDir[c] \in OutDirs /\ {"local", "generation"} \subseteq Names
  BY OthersStay DEF FieldsOK, Names
<1>2. /\ model[c] \in Nat /\ model'[c] \in Nat /\ staged[c] \in Nat /\ staged'[c] \in Nat
      /\ queued[c].version \in Nat /\ mode[c] \in Modes
  BY FieldsKept, RuntimeAssumption DEF FieldsOK, JobsOK
<1>3. /\ model[c] <= model'[c]
      /\ \/ staged'[c] = staged[c]
         \/ spot[c] = "start" /\ staged'[c] = model[c] /\ model'[c] = model[c]
  <2> USE DEF FieldsOK, At
  <2>1. CASE StageModels(c)
    BY <2>1 DEF StageModels
  <2>2. CASE StartServer(c)
    BY <2>2 DEF StartServer
  <2>3. CASE BindPort(c)
    BY <2>3 DEF BindPort
  <2>4. CASE PollStartup(c)
    BY <2>4 DEF PollStartup, GiveUp
  <2>5. CASE CheckRequest(c)
    BY <2>5 DEF CheckRequest, GiveUp
  <2>6. CASE PostPrompt(c)
    BY <2>6 DEF PostPrompt, GiveUp
  <2>7. CASE RecordSubmission(c)
    BY <2>7 DEF RecordSubmission, GiveUp
  <2>8. CASE PollHistory(c)
    BY <2>8 DEF PollHistory, GiveUp
  <2>9. CASE \E a \in Artifacts : Download(c, a)
    BY <2>9 DEF Download, GiveUp
  <2>10. CASE WriteGeneration(c)
    BY <2>10 DEF WriteGeneration, GiveUp
  <2>11. CASE StopServer(c)
    BY <2>11 DEF StopServer
  <2>12. CASE VerifyStaged(c)
    BY <2>12 DEF VerifyStaged
  <2>13. CASE WriteLocalReport(c)
    BY <2>13 DEF WriteLocalReport
  <2>14. CASE RunFails(c)
    BY <2>14 DEF RunFails, GiveUp
  <2>15. CASE KillRun(c)
    BY <2>15 DEF KillRun
  <2>16. CASE PassDeadline(c)
    BY <2>16 DEF PassDeadline
  <2>17. CASE Execute(c)
    BY <2>17 DEF Execute
  <2>18. CASE EditModel(c)
    BY <2>18 DEF EditModel
  <2>19. QED
    BY <2>1, <2>2, <2>3, <2>4, <2>5, <2>6, <2>7, <2>8, <2>9, <2>10, <2>11, <2>12, <2>13, <2>14,
       <2>15, <2>16, <2>17, <2>18 DEF ClientStep, RunStep
<1>4. staged'[c] <= model'[c]
  BY <1>2, <1>3 DEF VersionsOf
<1>5. queued'[c].state = "success" /\ queued'[c].on = c =>
         staged'[c] <= queued'[c].version /\ queued'[c].version <= model'[c]
  BY <1>2, <1>3, JobAfter DEF VersionsOf, FlowOf
<1>6. spot[c] \in {"verify", "publish", "done"} => queued'[c] = queued[c] /\ staged'[c] = staged[c]
  <2>1. CASE spot[c] \in {"verify", "publish"}
    <3>1. queued[c].state \in {"none", "success"}
      BY <2>1, <1>2 DEF FlowOf, ProgressOf, ArtifactsOf
    <3>2. QED
      BY <2>1, <3>1, <1>3, JobAfter
  <2>2. CASE spot[c] = "done"
    BY <2>2, <1>3, JobAfter DEF Finals
  <2>3. QED
    BY <2>1, <2>2
<1>7. spot'[c] = "publish" /\ queued'[c].on = c => queued'[c].version = staged'[c]
  <2>1. CASE spot[c] = "publish"
    BY <1>6, <2>1 DEF VersionsOf
  <2>2. CASE spot[c] = "verify" /\ spot'[c] = "publish"
    <3>1. staged[c] = model[c]
      BY <2>2 DEF Moves, Goes, Finals
    <3>2. queued[c].on = c => queued[c].state = "success"
      BY <2>2, <1>2, RuntimeAssumption DEF FlowOf, ProgressOf, ArtifactsOf
    <3>3. QED
      BY <1>2, <1>6, <2>2, <3>1, <3>2 DEF VersionsOf
  <2>3. QED
    BY <2>1, <2>2 DEF Moves, Goes, Finals
<1>8. Has(outDir[c], "local", c) => Has(outDir[c], "local", c)'
  BY <1>1, FilesAfter
<1>9. Has(outDir[c], "local", c)' => Has(outDir[c], "local", c) \/ (spot[c] = "publish" /\ spot'[c] = "done")
  BY <1>1, FilesAfter, RuntimeAssumption DEF Publishes
<1>10. Has(outDir[c], "local", c)' => spot'[c] = "done" /\ (queued'[c].on = c => queued'[c].version = staged'[c])
  BY <1>6, <1>9 DEF VersionsOf, Moves, Goes, Finals
<1>11. QED
  BY <1>1, <1>4, <1>5, <1>7, <1>10 DEF VersionsOf, Has

\* A directory has the files of one run: submission.json is published once.
LEMMA FilesKept ==
    ASSUME FieldsOK, JobsOK, DirsOK, FilesOK, NEW c \in Commands, FlowOf(c), ProgressOf(c), ClientStep(c), Moves(c)
    PROVE  FilesOK'
<1>1. outDir' = outDir /\ outDir[c] \in OutDirs /\ {"submission", "generation"} \subseteq Names
      /\ \A e \in Commands \ {c} : spot'[e] = spot[e]
  BY OthersStay DEF FieldsOK, Names
<1> DEFINE Before == {"start", "probe", "startup", "check", "post", "record"}
<1>2. spot[c] \notin Before => spot'[c] \notin Before
  BY DEF Moves, Goes, Finals
<1>3. CASE \A d \in OutDirs, m \in Names, e \in Commands : Has(d, m, e)' <=> Has(d, m, e)
  <2>1. ASSUME NEW d \in OutDirs, NEW e \in Commands, NEW m \in Names, Has(d, m, e)'
        PROVE  d = outDir'[e] /\ Has(d, "submission", e)' /\ spot'[e] \notin Before
    BY <1>1, <1>2, <1>3, <2>1 DEF FilesOK
  <2>2. QED
    BY <1>1, <1>3, <2>1 DEF FilesOK, Has
<1>4. ASSUME NEW n \in Names, Publishes(c, n),
             \A d \in OutDirs, m \in Names, e \in Commands :
                 Has(d, m, e)' <=> Has(d, m, e) \/ (d = outDir[c] /\ m = n /\ e = c)
      PROVE  FilesOK'
  <2>1. /\ spot'[c] \notin Before /\ Has(outDir[c], "submission", c)'
        /\ n = "submission" => \A e \in Commands : ~Has(outDir[c], "submission", e)
    <3>1. Has(outDir[c], "submission", c) => Has(outDir[c], "submission", c)'
      BY <1>1, <1>4
    <3>2. n = "submission" => Has(outDir[c], "submission", c)'
      BY <1>1, <1>4
    <3>3. spot[c] \in {"download", "publish"} /\ mode[c] # "validate" => Has(outDir[c], "submission", c)
      BY <1>1 DEF FlowOf, ProgressOf, FilesOK
    <3>4. spot[c] = "download" => mode[c] # "validate"
      BY DEF FlowOf
    <3>5. QED
      BY <1>4, <3>1, <3>2, <3>3, <3>4, RuntimeAssumption DEF Publishes
  <2>2. ASSUME NEW d \in OutDirs, NEW e \in Commands, NEW m \in Names, Has(d, m, e)'
        PROVE  d = outDir'[e] /\ Has(d, "submission", e)' /\ spot'[e] \notin Before
    BY <1>1, <1>2, <1>4, <2>1, <2>2 DEF FilesOK
  <2>3. ASSUME NEW d \in OutDirs, NEW e \in Commands, NEW f \in Commands,
               Has(d, "submission", e)', Has(d, "submission", f)'
        PROVE  e = f
    BY <1>1, <1>4, <2>1, <2>3 DEF FilesOK
  <2>4. QED
    BY <2>2, <2>3 DEF FilesOK, Has
<1>5. QED
  BY <1>3, <1>4, FilesAfter

\* A step of a run leaves what is known of another one.
LEMMA OthersOK ==
    ASSUME FieldsOK, JobsOK, DirsOK, FilesOK, NEW c \in Commands, ClientStep(c), NEW e \in Commands \ {c}, RunOK(e)
    PROVE  RunOK(e)'
<1>1. /\ mode' = mode /\ outDir' = outDir /\ outDir[e] \in OutDirs
      /\ {"submission", "generation", "local"} \cup Artifacts \subseteq Names
  BY OthersStay DEF FieldsOK, Names
<1>2. /\ spot'[e] = spot[e] /\ why'[e] = why[e] /\ child'[e] = child[e]
      /\ queued'[e] = queued[e] /\ model'[e] = model[e] /\ staged'[e] = staged[e]
  BY OthersStay
<1>3. \A n \in Names : Has(outDir[e], n, e)' <=> Has(outDir[e], n, e)
  BY <1>1, FilesAfter
<1>4. FlowOf(e)' /\ ProgressOf(e)' /\ TimeoutOf(e)'
  BY <1>1, <1>2, <1>3 DEF RunOK, FlowOf, ProgressOf, TimeoutOf, Has
<1>5. ArtifactsOf(e)'
  BY <1>1, <1>2, <1>3 DEF RunOK, ArtifactsOf, Has
<1>6. VersionsOf(e)'
  BY <1>1, <1>2, <1>3 DEF RunOK, VersionsOf, Has
<1>7. QED
  BY <1>4, <1>5, <1>6 DEF RunOK

-----------------------------------------------------------------------------
(* The invariant. *)

\* No run has done anything yet.
LEMMA InitInv ==
    RuntimeInit => RuntimeInv
<1> SUFFICES ASSUME RuntimeInit
             PROVE  RuntimeInv
  OBVIOUS
<1>1. FieldsOK
  <2>1. PICK r \in Requests : /\ mode = [c \in Commands |-> r[c].mode]
                              /\ outDir = [c \in Commands |-> r[c].dir]
    BY DEF RuntimeInit
  <2>2. mode \in [Commands -> Modes] /\ outDir \in [Commands -> OutDirs]
    BY <2>1, RuntimeAssumption
  <2>3. QED
    BY <2>2, RuntimeAssumption DEF RuntimeInit, FieldsOK, Spots
<1>2. JobsOK
  BY RuntimeAssumption DEF RuntimeInit, JobsOK, NoJob
<1>3. DirsOK /\ FilesOK
  BY DEF RuntimeInit, DirsOK, FilesOK, Has
<1>4. ServersOK
  BY RuntimeAssumption DEF RuntimeInit, ServersOK
<1>5. ASSUME NEW c \in Commands
      PROVE  RunOK(c)
  <2>1. outDir[c] \in OutDirs /\ \A n \in Names : ~Has(outDir[c], n, c)
    BY <1>1 DEF FieldsOK, RuntimeInit, Has
  <2>2. queued[c] = NoJob /\ spot[c] = "start" /\ why[c] = "ok" /\ staged[c] = 0 /\ model[c] = 1
    BY DEF RuntimeInit
  <2>3. QED
    BY <2>1, <2>2 DEF RunOK, FlowOf, ProgressOf, ArtifactsOf, VersionsOf, TimeoutOf, NoJob, Names
<1>6. QED
  BY <1>1, <1>2, <1>3, <1>4, <1>5 DEF RuntimeInv

\* A server that crashes takes its listener and its process with it, and nothing else.
LEMMA CrashKeeps ==
    ASSUME RuntimeInv, NEW p \in Ports \cup {UserPort}, CrashServer(p)
    PROVE  RuntimeInv'
<1>1. UNCHANGED <<mode, outDir, spot, why, port, expired, queued, model, staged, published>>
  BY DEF CrashServer
<1>2. FieldsOK' /\ JobsOK' /\ DirsOK' /\ FilesOK'
  <2>1. listener[p] \in Commands \cup {UserPort}
    BY DEF CrashServer, RuntimeInv, FieldsOK
  <2>2. listener' \in [Ports \cup {UserPort} -> Commands \cup {UserPort, Nobody}]
    BY DEF CrashServer, RuntimeInv, FieldsOK
  <2>3. child' \in [Commands -> {"none", "starting", "up", "dead"}]
    BY <2>1 DEF CrashServer, RuntimeInv, FieldsOK
  <2>4. QED
    BY <1>1, <2>2, <2>3 DEF RuntimeInv, FieldsOK, JobsOK, DirsOK, FilesOK, Has
<1>3. \A c \in Commands : child'[c] = child[c] \/ (child[c] = "up" /\ child'[c] = "dead")
  BY RuntimeAssumption DEF CrashServer, RuntimeInv, FieldsOK, ServersOK
<1>4. ServersOK'
  BY <1>1, <1>3, RuntimeAssumption DEF CrashServer, RuntimeInv, FieldsOK, ServersOK
<1>5. ASSUME NEW c \in Commands
      PROVE  RunOK(c)'
  <2>1. child'[c] = "none" <=> child[c] = "none"
    BY <1>3
  <2>2. RunOK(c)
    BY DEF RuntimeInv
  <2>3. QED
    BY <1>1, <2>1, <2>2 DEF RunOK, FlowOf, ProgressOf, ArtifactsOf, VersionsOf, TimeoutOf, Has
<1>6. QED
  BY <1>2, <1>4, <1>5 DEF RuntimeInv

\* Every step keeps the invariant.
LEMMA NextInv ==
    RuntimeInv /\ [RuntimeNext]_runtimeVars => RuntimeInv'
<1> SUFFICES ASSUME RuntimeInv, [RuntimeNext]_runtimeVars
             PROVE  RuntimeInv'
  OBVIOUS
<1>1. ASSUME NEW c \in Commands, ClientStep(c)
      PROVE  RuntimeInv'
  <2>1. FieldsOK /\ JobsOK /\ DirsOK /\ ServersOK /\ FilesOK /\ \A e \in Commands : RunOK(e)
    BY DEF RuntimeInv
  <2>2. FlowOf(c) /\ ProgressOf(c) /\ ArtifactsOf(c) /\ VersionsOf(c) /\ TimeoutOf(c)
    BY <2>1 DEF RunOK
  <2>3. FieldsOK' /\ JobsOK' /\ DirsOK' /\ ServersOK'
    BY <1>1, <2>1, <2>2, FieldsKept, JobAfter, FilesAfter, ServersKept
  <2>4. Moves(c)
    BY <1>1, <2>1, RunMoves
  <2>5. FilesOK'
    BY <1>1, <2>1, <2>2, <2>4, FilesKept
  <2>6. RunOK(c)'
    <3>1. FlowOf(c)'
      BY <1>1, <2>1, <2>2, <2>3, <2>4, FlowKept
    <3>2. ProgressOf(c)' /\ TimeoutOf(c)'
      BY <1>1, <2>1, <2>2, <2>4, ProgressKept, TimeoutKept
    <3>3. ArtifactsOf(c)' /\ VersionsOf(c)'
      BY <1>1, <2>1, <2>2, <2>4, ArtifactsKept, VersionsKept
    <3>4. QED
      BY <3>1, <3>2, <3>3 DEF RunOK
  <2>7. \A e \in Commands \ {c} : RunOK(e)'
    BY <1>1, <2>1, OthersOK
  <2>8. QED
    BY <2>3, <2>5, <2>6, <2>7 DEF RuntimeInv
<1>2. CASE UNCHANGED runtimeVars
  BY <1>2 DEF runtimeVars, RuntimeInv, FieldsOK, JobsOK, DirsOK, ServersOK, FilesOK, RunOK,
     FlowOf, ProgressOf,
     ArtifactsOf, VersionsOf, TimeoutOf, Has
<1>3. QED
  BY <1>1, <1>2, CrashKeeps DEF RuntimeNext, ClientStep

-----------------------------------------------------------------------------
(* What it says of the runs. *)

\* The invariant has the types the model states of itself.
LEMMA Types ==
    RuntimeInv => RuntimeTypeOK
BY RuntimeAssumption DEF RuntimeInv, FieldsOK, ServersOK, RunOK, FlowOf, RuntimeTypeOK

\* All files of a directory are of the run whose submission is there.
LEMMA OneRun ==
    RuntimeInv => OneRunPerDirectory
<1> SUFFICES ASSUME RuntimeInv, NEW d \in OutDirs
             PROVE  Cardinality({f[2] : f \in published[d]}) <= 1
  BY DEF OneRunPerDirectory
<1> DEFINE owners == {f[2] : f \in published[d]}
<1>1. \A o \in owners : o \in Commands /\ Has(d, "submission", o)
  <2>1. ASSUME NEW f \in published[d]
        PROVE  f[2] \in Commands /\ Has(d, "submission", f[2])
    <3>1. f \in Names \X Commands
      BY DEF RuntimeInv, DirsOK
    <3>2. f[1] \in Names /\ f[2] \in Commands /\ f = <<f[1], f[2]>>
      BY <3>1
    <3>3. QED
      BY <3>2 DEF RuntimeInv, FilesOK, Has
  <2>2. QED
    BY <2>1
<1>2. \A o, e \in owners : o = e
  BY <1>1 DEF RuntimeInv, FilesOK
<1>3. CASE owners = {}
  BY <1>3, FS_EmptySet
<1>4. CASE \E o \in owners : TRUE
  <2>1. PICK o \in owners : TRUE
    BY <1>4
  <2>2. owners = {o}
    BY <1>2, <2>1
  <2>3. Cardinality(owners) = 1
    BY <2>2, FS_Singleton
  <2>4. QED
    BY <2>3
<1>5. QED
  BY <1>3, <1>4

\* A server that listens is up, and a run that has ended by itself has none that is.
LEMMA NoServer ==
    RuntimeInv => NoServerLeft
BY DEF RuntimeInv, ServersOK, FieldsOK, NoServerLeft

\* The reports are those of the job.
LEMMA Reports ==
    RuntimeInv => ReportsOfTheJob
<1> SUFFICES ASSUME RuntimeInv
             PROVE  ReportsOfTheJob
  OBVIOUS
<1>1. ASSUME NEW d \in OutDirs, NEW c \in Commands, NEW n \in Names, <<n, c>> \in published[d]
      PROVE  d = outDir[c] /\ Has(outDir[c], n, c)
  BY <1>1 DEF RuntimeInv, FilesOK, Has
<1>2. {"generation", "local"} \cup Artifacts \subseteq Names
  BY DEF Names
<1>3. GenerationMeansArtifacts
  BY <1>1, <1>2 DEF GenerationMeansArtifacts, RuntimeInv, RunOK, ArtifactsOf, Has
<1>4. ReportOfStagedModel
  BY <1>1, <1>2 DEF ReportOfStagedModel, RuntimeInv, RunOK, VersionsOf, Has
<1>5. TimeoutIsRecorded
  BY DEF TimeoutIsRecorded, RuntimeInv, RunOK, TimeoutOf, Has
<1>6. QED
  BY <1>3, <1>4, <1>5 DEF ReportsOfTheJob

\* Runs that share a server, a port or an output directory do not get into each other's way
\* (comfyui_runtime.py:278-293, local_image.py:207): a directory has the files of one run, and a
\* run that ends by itself leaves no server.
THEOREM RunsApart == RuntimeSpec => []RunsStayApart
<1>1. RuntimeInv => RunsStayApart
  BY Types, OneRun, NoServer DEF RunsStayApart
<1>2. QED
  BY <1>1, InitInv, NextInv, PTL DEF RuntimeSpec

\* What a run reports is of the job it queued, of all of its artifacts, and of the model it names;
\* a run that gave up on time has left the record of the job (comfyui_runtime.py:196-236, 302-313,
\* local_image.py:159-174).
THEOREM ReportsTrue == RuntimeSpec => []ReportsOfTheJob
BY InitInv, NextInv, Reports, PTL DEF RuntimeSpec

-----------------------------------------------------------------------------
(***************************************************************************)
(* The check of a graph.  What is on the path is a chain: each open visit  *)
(* is of a node the one before it depends on, so a node met again closes a *)
(* round.  What is visited is closed and has no part that goes round,      *)
(* because a node joins it only when all it depends on has.                *)
(***************************************************************************)
Verdicts == {"prepare", "rejected", "schema", "walk", "cycle", "accepted"}
Openings == [node : Ids, left : SUBSET Ids]

WalkTypes ==
    /\ workflow.present \subseteq Ids /\ workflow.overridden \subseteq Ids /\ workflow.by \subseteq Ids
    /\ workflow.links \in [Ids -> SUBSET Ids]
    /\ verdictOf \in Verdicts /\ links \in [Ids -> SUBSET Ids]
    /\ pending \subseteq Ids /\ visited \subseteq Ids /\ active \subseteq Ids
    /\ path \in Seq(Openings)

\* The graph that is walked is the one with the overrides; it is whole, and so is what is walked of it.
OfTheGraph ==
    /\ verdictOf = "prepare" => links = workflow.links
    /\ verdictOf \notin {"prepare"} => links = GivenLinks
    /\ verdictOf \in {"prepare", "schema", "rejected"} =>
          path = <<>> /\ visited = {} /\ active = {} /\ pending = {}
    /\ verdictOf \in {"walk", "cycle", "accepted"} =>
          /\ \A n \in workflow.present : links[n] \subseteq workflow.present
          /\ workflow.saving \cap workflow.present # {}
    /\ visited \cup active \cup pending \subseteq workflow.present

\* The open visits are of different nodes, each of which depends on the next, and on what is
\* visited or to come.
OpenVisits ==
    /\ active = {path[i].node : i \in 1..Len(path)}
    /\ \A i, j \in 1..Len(path) : path[i].node = path[j].node => i = j
    /\ \A i \in 1..Len(path) : path[i].left \subseteq links[path[i].node]
    /\ \A i \in 1..Len(path) : i < Len(path) => path[i + 1].node \in links[path[i].node]
    /\ \A i \in 1..Len(path) : \A m \in links[path[i].node] :
          m \in path[i].left \cup visited \/ (i < Len(path) /\ m = path[i + 1].node)

\* What is visited depends on nothing else, and no part of it goes round.
Settled ==
    /\ active \cap visited = {}
    /\ \A n \in visited : links[n] \subseteq visited
    /\ \A round \in SUBSET visited : round # {} => \E n \in round : links[n] \cap round = {}

\* The outer loop comes to every node.
Covered ==
    /\ verdictOf = "walk" => workflow.present \subseteq pending \cup visited \cup active
    /\ verdictOf = "accepted" => workflow.present \subseteq visited
    /\ verdictOf = "cycle" => Cyclic

WalkInv == WalkTypes /\ OfTheGraph /\ OpenVisits /\ Settled /\ Covered

\* Before the overrides nothing is visited and nothing is open.
LEMMA InitWalk == CheckInit => WalkInv
<1> SUFFICES ASSUME CheckInit PROVE WalkInv
  OBVIOUS
<1>1. PICK some \in Workflows : workflow \in some
  BY DEF CheckInit
<1>2. /\ verdictOf = "prepare" /\ links = workflow.links /\ Len(path) = 0
      /\ pending = {} /\ path = <<>> /\ visited = {} /\ active = {}
  BY DEF CheckInit
<1>3. WalkTypes
  BY <1>1, <1>2, WorkflowsAssumption DEF WalkTypes, Verdicts
<1>4. OfTheGraph /\ OpenVisits /\ Settled /\ Covered
  BY <1>2 DEF OfTheGraph, OpenVisits, Settled, Covered
<1>5. QED
  BY <1>3, <1>4 DEF WalkInv

\* The overrides are applied to the graph as it was exported, before anything is visited.
LEMMA PrepareKeeps == WalkInv /\ PrepareWorkflow => WalkInv'
<1> SUFFICES ASSUME WalkInv, PrepareWorkflow PROVE WalkInv'
  OBVIOUS
<1>1. /\ verdictOf = "prepare" /\ verdictOf' \in {"rejected", "schema"}
      /\ UNCHANGED <<workflow, pending, path, visited, active>>
  BY DEF PrepareWorkflow
<1>2. links' = GivenLinks
  BY DEF PrepareWorkflow, GivenLinks, WalkInv, OfTheGraph
<1>3. GivenLinks' = GivenLinks
  BY <1>1 DEF GivenLinks
<1>4. /\ path = <<>> /\ Len(path) = 0 /\ visited = {} /\ active = {} /\ pending = {}
  BY <1>1 DEF WalkInv, OfTheGraph
<1>5. WalkTypes'
  BY <1>1, <1>2 DEF WalkInv, WalkTypes, Verdicts, GivenLinks
<1>6. OfTheGraph' /\ OpenVisits' /\ Settled' /\ Covered'
  BY <1>1, <1>2, <1>3, <1>4 DEF OfTheGraph, OpenVisits, Settled, Covered
<1>7. QED
  BY <1>5, <1>6 DEF WalkInv

\* What goes on to the walk has a node for every link, and saves something.
LEMMA SchemaKeeps == WalkInv /\ CheckSchema => WalkInv'
<1> SUFFICES ASSUME WalkInv, CheckSchema PROVE WalkInv'
  OBVIOUS
<1>1. verdictOf = "schema" /\ UNCHANGED <<workflow, links, path, visited, active>>
  BY DEF CheckSchema
<1>2. /\ path = <<>> /\ Len(path) = 0 /\ visited = {} /\ active = {} /\ pending = {}
      /\ links = GivenLinks /\ GivenLinks' = GivenLinks
  BY <1>1 DEF WalkInv, OfTheGraph, GivenLinks
<1>3. \/ verdictOf' = "rejected" /\ pending' = pending
      \/ /\ verdictOf' = "walk" /\ pending' = workflow.present
         /\ \A n \in workflow.present : links[n] \subseteq workflow.present
         /\ workflow.saving \cap workflow.present # {}
  BY <1>2 DEF CheckSchema
<1>4. WalkTypes'
  BY <1>1, <1>3 DEF WalkInv, WalkTypes, Verdicts
<1>5. OfTheGraph' /\ OpenVisits' /\ Settled' /\ Covered'
  BY <1>1, <1>2, <1>3 DEF OfTheGraph, OpenVisits, Settled, Covered
<1>6. QED
  BY <1>4, <1>5 DEF WalkInv

\* A visit that is opened below the others.
LEMMA OpenKeeps ==
    ASSUME WalkInv, verdictOf = "walk", UNCHANGED <<workflow, links, visited, verdictOf>>,
           NEW n \in workflow.present, n \notin active, n \notin visited,
           NEW calls \in Seq(Openings), Len(calls) = Len(path),
           \A i \in 1..Len(path) : calls[i].node = path[i].node,
           \A i \in 1..Len(path) : i < Len(path) => calls[i].left = path[i].left,
           Len(path) > 0 => /\ n \in path[Len(path)].left
                            /\ calls[Len(path)].left = path[Len(path)].left \ {n},
           path' = Append(calls, [node |-> n, left |-> links[n]]),
           active' = active \cup {n},
           pending' \subseteq pending, pending \subseteq pending' \cup {n}
    PROVE  WalkInv'
<1> DEFINE k == Len(path)
<1>1. /\ k \in Nat /\ n \in Ids /\ links[n] \subseteq Ids
      /\ path \in Seq(Openings) /\ \A i \in 1..k : path[i] \in Openings
  BY DEF WalkInv, WalkTypes
<1>2. /\ Len(path') = k + 1
      /\ \A i \in 1..k : path'[i] = calls[i]
      /\ path'[k + 1] = [node |-> n, left |-> links[n]]
      /\ path' \in Seq(Openings)
  BY <1>1 DEF Openings
<1> HIDE DEF k
<1>3. WalkTypes'
  BY <1>1, <1>2 DEF WalkInv, WalkTypes
<1>4. GivenLinks' = GivenLinks
  BY DEF GivenLinks
<1>5. OfTheGraph'
  BY <1>4 DEF WalkInv, OfTheGraph
<1>6. \A i \in 1..k : path[i].node \in active /\ path[i].node # n
  BY DEF WalkInv, OpenVisits, k
<1>7. OpenVisits'
  <2>1. active' = {path'[i].node : i \in 1..Len(path')}
    <3>1. active = {path[i].node : i \in 1..k}
      BY DEF WalkInv, OpenVisits, k
    <3>2. 1..k + 1 = 1..k \cup {k + 1}
      BY <1>1
    <3>3. \A i \in 1..k : path'[i].node = path[i].node
      BY <1>2 DEF k
    <3>4. {path'[i].node : i \in 1..k} = active
      BY <3>1, <3>3
    <3>5. \A m : (\E i \in 1..k + 1 : m = path'[i].node) <=> m \in active \cup {n}
      <4>1. TAKE m
      <4>2. m = path'[k + 1].node <=> m = n
        BY <1>2
      <4>3. (\E i \in 1..k : m = path'[i].node) <=> m \in active
        BY <3>4
      <4>4. (\E i \in 1..k + 1 : m = path'[i].node) <=>
               (\E i \in 1..k : m = path'[i].node) \/ m = path'[k + 1].node
        <5> HIDE <1>2, <3>4
        <5> QED
          BY <1>1, <3>2
      <4>5. QED
        BY <4>2, <4>3, <4>4
    <3>6. {path'[i].node : i \in 1..k + 1} = active \cup {n}
      <4>1. \A m : m \in {path'[i].node : i \in 1..k + 1} <=> (\E i \in 1..k + 1 : m = path'[i].node)
        BY Zenon
      <4>2. \A m : m \in {path'[i].node : i \in 1..k + 1} <=> m \in active \cup {n}
        BY <3>5, <4>1
      <4>3. QED
        BY <4>2, Zenon
    <3>7. QED
      BY <1>2, <3>6
  <2>2. ASSUME NEW i \in 1..Len(path'), NEW j \in 1..Len(path'), path'[i].node = path'[j].node
        PROVE  i = j
    <3>1. \A a \in 1..k : path'[a].node = path[a].node /\ path'[a].node # n
      BY <1>2, <1>6 DEF k
    <3>2. \A a, b \in 1..k : path[a].node = path[b].node => a = b
      BY DEF WalkInv, OpenVisits, k
    <3>3. path'[k + 1].node = n
      BY <1>2
    <3>4. i \in 1..k \/ i = k + 1
      BY <1>1, <1>2
    <3>5. j \in 1..k \/ j = k + 1
      BY <1>1, <1>2
    <3>6. QED
      BY <2>2, <3>1, <3>2, <3>3, <3>4, <3>5
  <2>3. \A i \in 1..Len(path') : path'[i].left \subseteq links'[path'[i].node]
    BY <1>1, <1>2 DEF WalkInv, OpenVisits, k
  <2>4. \A i \in 1..Len(path') : i < Len(path') => path'[i + 1].node \in links'[path'[i].node]
    BY <1>1, <1>2 DEF WalkInv, OpenVisits, k
  <2>5. ASSUME NEW i \in 1..Len(path'), NEW m \in links'[path'[i].node]
        PROVE  m \in path'[i].left \cup visited' \/ (i < Len(path') /\ m = path'[i + 1].node)
    <3>1. CASE i = k + 1
      BY <1>2, <3>1
    <3>2. CASE i \in 1..k
      <4>1. m \in links[path[i].node]
        BY <1>2, <3>2 DEF k
      <4>2. m \in path[i].left \cup visited \/ (i < k /\ m = path[i + 1].node)
        BY <4>1, <3>2 DEF WalkInv, OpenVisits, k
      <4>3. CASE i < k
        <5>1. i + 1 \in 1..k /\ path'[i + 1].node = path[i + 1].node /\ path'[i].left = path[i].left
          BY <1>1, <1>2, <3>2, <4>3 DEF k
        <5>2. QED
          BY <1>1, <1>2, <4>2, <4>3, <5>1
      <4>4. CASE i = k
        <5>1. path'[i].left = path[i].left \ {n} /\ path'[i + 1].node = n
          BY <1>1, <1>2, <3>2, <4>4 DEF k
        <5>2. QED
          BY <1>1, <1>2, <4>2, <4>4, <5>1
      <4>5. QED
        BY <1>1, <3>2, <4>3, <4>4
    <3>3. QED
      BY <1>1, <1>2, <3>1, <3>2
  <2>6. QED
    BY <2>1, <2>2, <2>3, <2>4, <2>5 DEF OpenVisits
<1>8. Settled'
  BY DEF WalkInv, Settled
<1>9. Covered'
  BY DEF WalkInv, Covered
<1>10. QED
  BY <1>3, <1>5, <1>7, <1>8, <1>9 DEF WalkInv

\* A node that is visited is passed over.
LEMMA PassKeeps ==
    ASSUME WalkInv, verdictOf = "walk", UNCHANGED <<workflow, links, visited, verdictOf, active>>,
           NEW n \in visited,
           path' \in Seq(Openings), Len(path') = Len(path),
           \A i \in 1..Len(path) : path'[i].node = path[i].node,
           \A i \in 1..Len(path) : path'[i].left \subseteq path[i].left
                                   /\ path[i].left \subseteq path'[i].left \cup {n},
           pending' \subseteq pending, pending \subseteq pending' \cup {n}
    PROVE  WalkInv'
<1>1. WalkTypes'
  BY DEF WalkInv, WalkTypes
<1>2. GivenLinks' = GivenLinks
  BY DEF GivenLinks
<1>3. OfTheGraph'
  BY <1>2 DEF WalkInv, OfTheGraph
<1>4. OpenVisits'
  <2>1. active' = {path'[i].node : i \in 1..Len(path')}
    BY DEF WalkInv, OpenVisits
  <2>2. \A i \in 1..Len(path') : \A m \in links'[path'[i].node] :
          m \in path'[i].left \cup visited' \/ (i < Len(path') /\ m = path'[i + 1].node)
    <3>1. SUFFICES ASSUME NEW i \in 1..Len(path), NEW m \in links[path[i].node]
                   PROVE  m \in path'[i].left \cup visited \/ (i < Len(path) /\ m = path'[i + 1].node)
      OBVIOUS
    <3>2. m \in path[i].left \cup visited \/ (i < Len(path) /\ m = path[i + 1].node)
      BY DEF WalkInv, OpenVisits
    <3>3. Len(path) \in Nat
      BY DEF WalkInv, WalkTypes
    <3>4. i < Len(path) => path'[i + 1].node = path[i + 1].node
      BY <3>3
    <3>5. QED
      BY <3>2, <3>4
  <2>3. \A i \in 1..Len(path') : i < Len(path') => path'[i + 1].node \in links'[path'[i].node]
    <3>1. Len(path) \in Nat
      BY DEF WalkInv, WalkTypes
    <3>2. QED
      BY <3>1 DEF WalkInv, OpenVisits
  <2>4. QED
    BY <2>1, <2>2, <2>3 DEF WalkInv, OpenVisits
<1>5. Settled' /\ Covered'
  BY DEF WalkInv, Settled, Covered
<1>6. QED
  BY <1>1, <1>3, <1>4, <1>5 DEF WalkInv

\* A node that is on the path closes a round.
LEMMA CycleKeeps ==
    ASSUME WalkInv, verdictOf = "walk", verdictOf' = "cycle",
           UNCHANGED <<workflow, links, pending, visited, path, active>>,
           NEW n \in active, Len(path) > 0, n \in path[Len(path)].left
    PROVE  WalkInv'
<1>1. Len(path) \in Nat /\ GivenLinks' = GivenLinks
  BY DEF WalkInv, WalkTypes, GivenLinks
<1>2. PICK k \in 1..Len(path) : path[k].node = n
  BY DEF WalkInv, OpenVisits
<1> DEFINE round == {path[i].node : i \in k..Len(path)}
<1>3. round \subseteq workflow.present /\ round # {}
  BY <1>1, <1>2 DEF WalkInv, OpenVisits, OfTheGraph
<1>4. ASSUME NEW m \in round PROVE links[m] \cap round # {}
  <2>1. PICK i \in k..Len(path) : path[i].node = m
    OBVIOUS
  <2>2. CASE i = Len(path)
    BY <1>1, <1>2, <2>1, <2>2 DEF WalkInv, OpenVisits
  <2>3. CASE i < Len(path)
    <3>1. path[i + 1].node \in links[m] /\ i + 1 \in k..Len(path)
      BY <1>1, <1>2, <2>1, <2>3 DEF WalkInv, OpenVisits
    <3>2. QED
      BY <3>1
  <2>4. QED
    BY <1>1, <1>2, <2>1, <2>2, <2>3
<1>5. Cyclic'
  BY <1>3, <1>4 DEF Cyclic
<1>6. WalkTypes' /\ OfTheGraph' /\ OpenVisits' /\ Settled'
  BY <1>1 DEF WalkInv, WalkTypes, Verdicts, OfTheGraph, OpenVisits, Settled
<1>7. QED
  BY <1>5, <1>6 DEF WalkInv, Covered

\* The outer loop opens a visit, or passes over a node that is visited.
LEMMA RootKeeps == ASSUME WalkInv, NEW n \in Ids, NextRoot(n) PROVE WalkInv'
<1>1. /\ verdictOf = "walk" /\ path = <<>> /\ Len(path) = 0 /\ n \in pending
      /\ pending' = pending \ {n} /\ UNCHANGED <<workflow, links, visited>>
  BY DEF NextRoot
<1>2. active = {} /\ n \in workflow.present
  BY <1>1 DEF WalkInv, OpenVisits, OfTheGraph
<1>3. CASE n \in visited
  <2>1. path' = <<>> /\ UNCHANGED <<verdictOf, active>>
    BY <1>2, <1>3 DEF NextRoot, Visit
  <2>2. QED
    BY <1>1, <1>3, <2>1, PassKeeps
<1>4. CASE n \notin visited
  <2>1. /\ path' = Append(<<>>, [node |-> n, left |-> links[n]])
        /\ active' = active \cup {n} /\ UNCHANGED verdictOf
    BY <1>2, <1>4 DEF NextRoot, Visit
  <2>2. <<>> \in Seq(Openings) /\ Len(<<>>) = 0
    OBVIOUS
  <2>3. /\ \A i \in 1..Len(path) : <<>>[i].node = path[i].node
        /\ \A i \in 1..Len(path) : i < Len(path) => <<>>[i].left = path[i].left
        /\ ~(Len(path) > 0)
    BY <1>1
  <2>4. /\ pending' \subseteq pending /\ pending \subseteq pending' \cup {n}
        /\ Len(<<>>) = Len(path) /\ n \notin active
    BY <1>1, <1>2, <2>2
  <2>5. QED
    BY <1>1, <1>2, <1>4, <2>1, <2>2, <2>3, <2>4, OpenKeeps
<1>5. QED
  BY <1>3, <1>4

\* The innermost visit opens one, passes over a node that is visited, or finds a round.
LEMMA FollowKeeps == ASSUME WalkInv, NEW n \in Ids, Follow(n) PROVE WalkInv'
<1> DEFINE k == Len(path)
           calls == [path EXCEPT ![k].left = @ \ {n}]
<1>1. /\ verdictOf = "walk" /\ path # <<>> /\ n \in path[k].left
      /\ UNCHANGED <<workflow, links, pending, visited>> /\ Visit(n, calls)
  BY DEF Follow, Visiting, Innermost
<1>2. path \in Seq(Openings) /\ k \in Nat /\ k > 0 /\ \A i \in 1..k : path[i] \in Openings
  BY <1>1 DEF WalkInv, WalkTypes
<1>3. /\ calls \in Seq(Openings) /\ Len(calls) = k
      /\ \A i \in 1..k : calls[i].node = path[i].node
      /\ \A i \in 1..k : i < k => calls[i].left = path[i].left
      /\ calls[k].left = path[k].left \ {n}
  BY <1>2 DEF Openings
<1>4. n \in workflow.present
  BY <1>1, <1>2 DEF WalkInv, OfTheGraph, OpenVisits
<1> HIDE DEF calls
<1>5. CASE n \in active
  BY <1>1, <1>2, <1>5, CycleKeeps DEF Visit
<1>6. CASE n \notin active /\ n \in visited
  <2>1. path' = calls /\ UNCHANGED <<verdictOf, active>>
    BY <1>1, <1>6 DEF Visit
  <2>2. \A i \in 1..k : calls[i].left \subseteq path[i].left /\ path[i].left \subseteq calls[i].left \cup {n}
    BY <1>2, <1>3
  <2>3. QED
    BY <1>1, <1>3, <1>6, <2>1, <2>2, PassKeeps
<1>7. CASE n \notin active /\ n \notin visited
  <2>1. /\ path' = Append(calls, [node |-> n, left |-> links[n]])
        /\ active' = active \cup {n} /\ UNCHANGED verdictOf
    BY <1>1, <1>7 DEF Visit
  <2>2. QED
    BY <1>1, <1>3, <1>4, <1>7, <2>1, OpenKeeps
<1>8. QED
  BY <1>5, <1>6, <1>7

\* A visit ends when all its node depends on is visited: the node closes no round.
LEMMA LeaveKeeps == ASSUME WalkInv, Leave PROVE WalkInv'
<1> DEFINE k == Len(path)
           x == path[k].node
<1>1. /\ verdictOf = "walk" /\ path # <<>> /\ path[k].left = {}
      /\ active' = active \ {x} /\ visited' = visited \cup {x}
      /\ path' = SubSeq(path, 1, k - 1)
      /\ UNCHANGED <<workflow, verdictOf, links, pending>>
  BY DEF Leave, Visiting, Innermost
<1>2. path \in Seq(Openings) /\ k \in Nat /\ k > 0 /\ \A i \in 1..k : path[i] \in Openings
  BY <1>1 DEF WalkInv, WalkTypes
<1>3. /\ path' \in Seq(Openings) /\ Len(path') = k - 1
      /\ \A i \in 1..k - 1 : path'[i] = path[i]
  <2>1. 1 \in 1..k + 1 /\ k - 1 \in 0..k /\ k = Len(path)
    BY <1>2
  <2> HIDE DEF k
  <2>2. /\ path' \in Seq(Openings)
        /\ Len(path') = IF 1 <= k - 1 THEN k - 1 - 1 + 1 ELSE 0
        /\ \A i \in 1..(k - 1 - 1 + 1) : path'[i] = path[1 + i - 1]
    BY <1>1, <1>2, <2>1, SubSeqProperties
  <2>3. k - 1 - 1 + 1 = k - 1 /\ \A i \in 1..k - 1 : 1 + i - 1 = i
    BY <1>2
  <2>4. Len(path') = k - 1
    BY <1>2, <2>2
  <2>5. QED
    BY <2>2, <2>3, <2>4
<1>4. x \in Ids /\ x \in active /\ x \notin visited /\ GivenLinks' = GivenLinks
  BY <1>1, <1>2 DEF WalkInv, OpenVisits, Settled, GivenLinks, Openings
<1>5. links[x] \subseteq visited
  BY <1>1, <1>2 DEF WalkInv, OpenVisits
<1>6. \A i, j \in 1..k : path[i].node = path[j].node => i = j
  BY DEF WalkInv, OpenVisits
<1> HIDE DEF k, x
<1>7. WalkTypes'
  BY <1>1, <1>3, <1>4 DEF WalkInv, WalkTypes
<1>8. OfTheGraph' /\ Covered'
  BY <1>1, <1>4 DEF WalkInv, OfTheGraph, Covered
<1>9. OpenVisits'
  <2>1. active' = {path'[i].node : i \in 1..Len(path')}
    <3>1. active = {path[i].node : i \in 1..k}
      BY DEF WalkInv, OpenVisits, k
    <3>2. {path'[i].node : i \in 1..k - 1} = {path[i].node : i \in 1..k - 1}
      BY <1>2, <1>3
    <3>3. {path[i].node : i \in 1..k} \ {path[k].node} = {path[i].node : i \in 1..k - 1}
      BY <1>2, <1>6
    <3>4. QED
      BY <1>1, <1>3, <3>1, <3>2, <3>3 DEF x
  <2>2. ASSUME NEW i \in 1..Len(path'), NEW j \in 1..Len(path'), path'[i].node = path'[j].node
        PROVE  i = j
    <3>1. i \in 1..k - 1 /\ j \in 1..k - 1 /\ i \in 1..k /\ j \in 1..k
      BY <1>2, <1>3
    <3>2. path'[i] = path[i] /\ path'[j] = path[j]
      BY ONLY <1>3, <3>1
    <3>3. QED
      BY ONLY <1>6, <2>2, <3>1, <3>2
  <2>3. \A i \in 1..Len(path') : path'[i].left \subseteq links'[path'[i].node]
    BY <1>1, <1>2, <1>3 DEF WalkInv, OpenVisits, k
  <2>4. \A i \in 1..Len(path') : i < Len(path') => path'[i + 1].node \in links'[path'[i].node]
    <3>1. ASSUME NEW i \in 1..Len(path'), i < Len(path')
          PROVE  path'[i + 1].node \in links'[path'[i].node]
      <4>1. /\ i \in 1..k /\ i < k /\ i + 1 \in 1..k - 1
        BY <1>2, <1>3, <3>1
      <4>2. path'[i] = path[i] /\ path'[i + 1] = path[i + 1]
        BY <1>3, <3>1, <4>1
      <4>3. path[i + 1].node \in links[path[i].node]
        BY <4>1 DEF WalkInv, OpenVisits, k
      <4>4. QED
        BY <1>1, <4>2, <4>3
    <3>2. QED
      BY <3>1
  <2>5. ASSUME NEW i \in 1..Len(path'), NEW m \in links'[path'[i].node]
        PROVE  m \in path'[i].left \cup visited' \/ (i < Len(path') /\ m = path'[i + 1].node)
    <3>1. i \in 1..k /\ i < k /\ path'[i] = path[i] /\ m \in links[path[i].node]
      BY <1>1, <1>2, <1>3
    <3>2. m \in path[i].left \cup visited \/ m = path[i + 1].node
      BY <3>1 DEF WalkInv, OpenVisits, k
    <3>3. CASE i = k - 1
      BY <1>1, <1>2, <3>1, <3>2, <3>3 DEF x
    <3>4. CASE i < k - 1
      <4>1. path'[i + 1] = path[i + 1]
        BY <1>2, <1>3, <3>1, <3>4
      <4>2. QED
        BY <1>1, <1>2, <1>3, <3>1, <3>2, <3>4, <4>1
    <3>5. QED
      BY <1>2, <3>1, <3>3, <3>4
  <2>6. QED
    BY <2>1, <2>2, <2>3, <2>4, <2>5 DEF OpenVisits
<1>10. Settled'
  <2>1. active' \cap visited' = {} /\ \A n \in visited' : links'[n] \subseteq visited'
    BY <1>1, <1>4, <1>5 DEF WalkInv, Settled
  <2>2. ASSUME NEW round \in SUBSET visited', round # {}
        PROVE  \E n \in round : links'[n] \cap round = {}
    <3>1. CASE round \cap visited = {}
      <4>1. round = {x}
        BY <1>1, <2>2, <3>1
      <4>2. QED
        BY <1>1, <1>4, <1>5, <4>1
    <3>2. CASE round \cap visited # {}
      <4>1. PICK n \in round \cap visited : links[n] \cap (round \cap visited) = {}
        BY <3>2 DEF WalkInv, Settled
      <4>2. links[n] \subseteq visited
        BY <4>1 DEF WalkInv, Settled
      <4>3. QED
        BY <1>1, <4>1, <4>2
    <3>3. QED
      BY <3>1, <3>2
  <2>3. QED
    BY <2>1, <2>2 DEF Settled
<1>11. QED
  BY <1>7, <1>8, <1>9, <1>10 DEF WalkInv

\* When nothing is open and nothing is to come, all of the graph is visited.
LEMMA AcceptKeeps == ASSUME WalkInv, Accept PROVE WalkInv'
<1>1. /\ verdictOf = "walk" /\ path = <<>> /\ Len(path) = 0 /\ pending = {} /\ verdictOf' = "accepted"
      /\ UNCHANGED <<workflow, links, pending, path, visited, active>>
  BY DEF Accept
<1>2. active = {} /\ GivenLinks' = GivenLinks
  BY <1>1 DEF WalkInv, OpenVisits, GivenLinks
<1>3. WalkTypes' /\ OfTheGraph' /\ OpenVisits' /\ Settled'
  BY <1>1, <1>2 DEF WalkInv, WalkTypes, Verdicts, OfTheGraph, OpenVisits, Settled
<1>4. Covered'
  BY <1>1, <1>2 DEF WalkInv, Covered
<1>5. QED
  BY <1>3, <1>4 DEF WalkInv

\* Every step of a check keeps the invariant.
LEMMA NextWalk == WalkInv /\ [CheckNext]_checkVars => WalkInv'
<1>1. ASSUME WalkInv, UNCHANGED checkVars PROVE WalkInv'
  <2>1. GivenLinks' = GivenLinks /\ Cyclic' = Cyclic
    BY <1>1 DEF checkVars, GivenLinks, Cyclic
  <2>2. WalkTypes' /\ OfTheGraph'
    BY <1>1, <2>1 DEF checkVars, WalkInv, WalkTypes, OfTheGraph
  <2>3. OpenVisits'
    BY <1>1 DEF checkVars, WalkInv, OpenVisits
  <2>4. Settled' /\ Covered'
    BY <1>1, <2>1 DEF checkVars, WalkInv, Settled, Covered
  <2>5. QED
    BY <2>2, <2>3, <2>4 DEF WalkInv
<1>2. QED
  BY <1>1, PrepareKeeps, SchemaKeeps, LeaveKeeps, AcceptKeeps, RootKeeps, FollowKeeps DEF CheckNext

\* What the invariant says of a graph that is accepted, and of one that is refused as cyclic.
LEMMA WalkSound == WalkInv => AcceptedIsSound
<1> SUFFICES ASSUME WalkInv PROVE AcceptedIsSound
  OBVIOUS
<1>1. CheckTypeOK
  <2>1. DOMAIN path = 1..Len(path)
    BY DEF WalkInv, WalkTypes
  <2>2. QED
    BY <2>1 DEF WalkInv, OpenVisits, Settled, CheckTypeOK
<1>2. verdictOf = "accepted" => ~Cyclic
  BY DEF WalkInv, Covered, Settled, Cyclic, OfTheGraph
<1>3. QED
  BY <1>1, <1>2 DEF WalkInv, Covered, OfTheGraph, AcceptedIsSound, CyclesFound, AcceptedIsWhole

\* A graph is accepted only if every link has a node, something is saved and nothing goes round, and
\* it is refused as cyclic only if nodes of it do depend on each other in a round, whatever the graph,
\* the overrides and the order of the walk (comfyui_runtime.py:97-191).
THEOREM ChecksSound == CheckSpec => []AcceptedIsSound
BY InitWalk, NextWalk, WalkSound, PTL DEF CheckSpec
-----------------------------------------------------------------------------
(* VideoFrames *)

VideoStep == VideoNext \/ UNCHANGED videoVars

\* Where the part of the video that m shots make ends.
EndAt(m) == IF m = 0 THEN 0 ELSE plan[m].start + plan[m].frames

\* The conditions of shot k, in its own frames.
Given1(k) == ConditionsOf(board.shots[k], plan[k].frames)

\* A planned shot is what its storyboard says, after the one before it.
ShotOK(k) ==
    /\ plan[k].frames \in FewestFrames..MostFrames
    /\ plan[k].start = EndAt(k - 1)
    /\ plan[k].positions = Positions(plan[k].frames, Given1(k))
    /\ plan[k].samples = SampleLength(Cardinality(plan[k].positions))
    /\ plan[k].continues = board.shots[k].continues
    /\ plan[k].conditions =
          {[image |-> Given1(k)[i].image, source |-> IndexOf(plan[k].positions, Given1(k)[i].frame)] :
              i \in DOMAIN Given1(k)}
    /\ FramesOf(board.shots[k].conditions) \subseteq 0..plan[k].frames - 1
    /\ Cardinality(FramesOf(Given1(k))) = Len(Given1(k))
    /\ board.shots[k].continues => k # 1 /\ 0 \notin FramesOf(Given1(k))

Planned == [start : Nat, frames : Nat, positions : SUBSET Nat, samples : Int, continues : BOOLEAN,
            conditions : SUBSET [image : Pictures, source : Nat]]

PlanInv ==
    /\ IsBoard(board) /\ plan \in Seq(Planned) /\ Len(plan) <= Len(board.shots)
    /\ \A k \in 1..Len(plan) : ShotOK(k)

\* The frames sampled for shot k, and the images it was conditioned on.
Pass(k) == [frames |-> Sample(k),
            images |-> {<<c.image, c.source>> : c \in plan[k].conditions}
                       \cup (IF plan[k].continues THEN {<<Previous(k), 0>>} ELSE {})]

EarlyStages == {"plan", "refused", "keyframes", "list", "verify"}

RenderInv ==
    /\ stage \in VideoStages
    /\ rendered \in Seq({Pass(k) : k \in 1..Len(plan)}) /\ Len(rendered) <= Len(plan)
    /\ \A k \in 1..Len(rendered) : rendered[k] = Pass(k)
    /\ stage \in EarlyStages => rendered = <<>>
    /\ stage \in {"interpolate", "done"} => Len(rendered) = Len(plan)

FrameSet == {Record(k, l) : k \in 1..Len(plan), l \in Nat}

\* g is the part of the video that m shots make.
Tells(g, m) ==
    /\ g \in Seq(FrameSet) /\ Len(g) = EndAt(m)
    /\ \A k \in 1..m : \A l \in 0..plan[k].frames - 1 : g[plan[k].start + l + 1] = Record(k, l)

FrameInv ==
    /\ stage \in EarlyStages \cup {"render"} => frames = <<>>
    /\ \E m \in 0..Len(plan) : Tells(frames, m)
    /\ stage = "done" => Len(frames) = End(plan)

\* Digests and pixels of a keyframe are of contents it had, in this order, and the same once it is loaded.
KeyInv ==
    /\ content \in [VideoFiles -> 0..MaxReplaced]
    /\ keyframe \in [Pictures -> [step : ReadSteps, digest : Nat, pixels : Nat]]
    /\ \A i \in Pictures :
          /\ keyframe[i].digest <= content[i] /\ keyframe[i].pixels <= content[i]
          /\ keyframe[i].step = "read" => keyframe[i].digest <= keyframe[i].pixels
          /\ keyframe[i].step = "loaded" => keyframe[i].digest = keyframe[i].pixels
    /\ stage \in {"list", "verify", "render", "interpolate", "done"} /\ ~board.remote =>
          \A i \in Keyframes : keyframe[i].step = "loaded"

\* What is said of one file of the model: its stamp is no younger than its digest.
Ltx1(f) ==
    /\ ltx[f].step \in {"none", "stamped", "hashed"}
    /\ ltx[f].step # "none" => ltx[f].stamp <= content[f]
    /\ ltx[f].step = "hashed" => ltx[f].stamp <= ltx[f].digest /\ ltx[f].digest <= content[f]

\* All files are listed when the weights are loaded, which are those of the digest once the stamps
\* were the same; and when the video is made the files are still those of the digests.
LtxInv ==
    /\ ltx \in [LtxFiles -> [step : ReadSteps, stamp : Nat, digest : Nat, used : Nat]]
    /\ \A f \in LtxFiles : Ltx1(f)
    /\ stage \in {"verify", "render", "interpolate", "done"} /\ ~board.remote =>
          \A f \in LtxFiles : ltx[f].step = "hashed"
    /\ stage = "verify" =>
          ltx["weights"].digest <= ltx["weights"].used /\ ltx["weights"].used <= content["weights"]
    /\ stage \in {"render", "interpolate", "done"} /\ ~board.remote => ltx["weights"].digest = ltx["weights"].used
    /\ stage = "done" /\ ~board.remote => \A f \in LtxFiles : ltx[f].digest = content[f]

VideoInv == PlanInv /\ RenderInv /\ FrameInv /\ KeyInv /\ LtxInv
-----------------------------------------------------------------------------
(* Arithmetic and the plan of a shot. *)

\* Of s numbers in a row one is a multiple of s.
LEMMA Multiple ==
    ASSUME NEW s \in Nat \ {0}, NEW a \in Nat
    PROVE  \E m \in Nat : a < m /\ m <= a + s /\ m % s = 0
<1>1. PICK q, r \in Nat : q = a \div s /\ r = a % s
  OBVIOUS
<1>2. a = s * q + r /\ r < s
  BY <1>1
<1>3. s * (q + 1) = s * q + s /\ s * (q + 1) \in Nat
  OBVIOUS
<1>4. (s * (q + 1)) % s = 0
  OBVIOUS
<1>5. QED
  BY <1>2, <1>3, <1>4

\* The grid of a storyboard.
LEMMA SpacingType == ASSUME IsBoard(board) PROVE Spacing \in Nat \ {0}
<1>1. (board.fps + SourceRate - 1) \div SourceRate \in Nat
  <2>1. board.fps + SourceRate - 1 \in Nat /\ SourceRate \in Nat \ {0}
    BY VideoAssumption DEF IsBoard
  <2>2. QED
    BY <2>1
<1>2. QED
  BY <1>1 DEF IsBoard, Spacing

\* The first and the last keyframe and the others.
LEMMA ConditionsType ==
    ASSUME IsBoard(board), NEW shot \in Shots, NEW n \in Nat \ {0}
    PROVE  /\ ConditionsOf(shot, n) \in Seq([image : Pictures, frame : Int])
           /\ FramesOf(ConditionsOf(shot, n)) \subseteq {0, n - 1} \cup FramesOf(shot.conditions)
<1> DEFINE C == [image : Pictures, frame : Int]
<1>1. PICK first, last : first = Given(shot.first, board.first) /\ last = Given(shot.last, board.last)
  OBVIOUS
<1>2. {first, last} \subseteq Pictures \cup {NotSaid}
  BY <1>1 DEF Given, IsBoard, Shots
<1>3. PICK a : a = IF first = NotSaid THEN <<>> ELSE <<[image |-> first, frame |-> 0]>>
  OBVIOUS
<1>4. PICK b : b = IF last = NotSaid THEN <<>> ELSE <<[image |-> last, frame |-> n - 1]>>
  OBVIOUS
<1>5. a \in Seq(C) /\ \A i \in 1..Len(a) : a[i].frame = 0
  <2>1. CASE first = NotSaid
    BY <2>1, <1>3
  <2>2. CASE first # NotSaid
    <3>1. PICK x : x = [image |-> first, frame |-> 0]
      OBVIOUS
    <3>2. x \in C /\ x.frame = 0 /\ a = <<x>>
      BY <1>2, <1>3, <2>2, <3>1
    <3>3. QED
      BY <3>2
  <2>3. QED
    BY <2>1, <2>2
<1>6. b \in Seq(C) /\ \A i \in 1..Len(b) : b[i].frame = n - 1
  <2>1. CASE last = NotSaid
    BY <2>1, <1>4
  <2>2. CASE last # NotSaid
    <3>1. PICK x : x = [image |-> last, frame |-> n - 1]
      OBVIOUS
    <3>2. x \in C /\ x.frame = n - 1 /\ b = <<x>>
      BY <1>2, <1>4, <2>2, <3>1
    <3>3. QED
      BY <3>2
  <2>3. QED
    BY <2>1, <2>2
<1>7. PICK c : c = shot.conditions
  OBVIOUS
<1>8. c \in Seq(C)
  BY <1>7 DEF Shots
<1>9. ConditionsOf(shot, n) = a \o b \o c
  BY <1>1, <1>3, <1>4, <1>7 DEF ConditionsOf
<1>10. a \o b \o c \in Seq(C)
  BY <1>5, <1>6, <1>8
<1>11. ASSUME NEW i \in DOMAIN (a \o b \o c)
       PROVE  (a \o b \o c)[i].frame \in {0, n - 1} \cup FramesOf(c)
  <2>1. i \in 1..Len(a) + Len(b) + Len(c)
    BY <1>5, <1>6, <1>8, <1>11
  <2>2. CASE i <= Len(a)
    <3>1. (a \o b \o c)[i] = a[i] /\ i \in 1..Len(a)
      BY <1>5, <1>6, <1>8, <2>1, <2>2
    <3>2. QED
      BY <1>5, <3>1
  <2>3. CASE i > Len(a) /\ i <= Len(a) + Len(b)
    <3>1. (a \o b \o c)[i] = b[i - Len(a)] /\ i - Len(a) \in 1..Len(b)
      BY <1>5, <1>6, <1>8, <2>1, <2>3
    <3>2. QED
      BY <1>6, <3>1
  <2>4. CASE i > Len(a) + Len(b)
    <3>1. (a \o b \o c)[i] = c[i - (Len(a) + Len(b))] /\ i - (Len(a) + Len(b)) \in 1..Len(c)
      BY <1>5, <1>6, <1>8, <2>1, <2>4
    <3>2. QED
      BY <1>8, <3>1 DEF FramesOf
  <2>5. QED
    BY <1>5, <1>6, <2>1, <2>2, <2>3, <2>4
<1>12. FramesOf(a \o b \o c) \subseteq {0, n - 1} \cup FramesOf(c)
  BY <1>11 DEF FramesOf
<1>13. QED
  BY <1>7, <1>9, <1>10, <1>12

\* What the proofs need of a planned shot.
LEMMA ShotFacts ==
    ASSUME PlanInv, NEW k \in 1..Len(plan)
    PROVE  /\ plan[k].frames \in Nat /\ 2 <= plan[k].frames /\ plan[k].start \in Nat
           /\ plan[k].positions \subseteq 0..plan[k].frames - 1 /\ IsFiniteSet(plan[k].positions)
           /\ 0 \in plan[k].positions /\ plan[k].frames - 1 \in plan[k].positions
           /\ \A p \in 0..plan[k].frames - 1 : p % Spacing = 0 => p \in plan[k].positions
           /\ Given1(k) \in Seq([image : Pictures, frame : Int])
           /\ \A i \in 1..Len(Given1(k)) : Given1(k)[i].frame \in plan[k].positions
           /\ \A i, j \in 1..Len(Given1(k)) : Given1(k)[i].frame = Given1(k)[j].frame => i = j
           /\ k \in DOMAIN board.shots
<1> DEFINE C == [image : Pictures, frame : Int]
<1>1. PICK n, cs : n = plan[k].frames /\ cs = Given1(k)
  OBVIOUS
<1>2. ShotOK(k) /\ IsBoard(board) /\ plan[k] \in Planned /\ k \in DOMAIN board.shots
  <2>1. plan[k] \in Planned /\ IsBoard(board) /\ ShotOK(k)
    BY DEF PlanInv
  <2>2. Len(plan) \in Nat /\ Len(board.shots) \in Nat /\ Len(plan) <= Len(board.shots)
        /\ DOMAIN board.shots = 1..Len(board.shots)
    BY DEF PlanInv, IsBoard
  <2>3. QED
    BY <2>1, <2>2
<1>3. n \in Nat /\ 2 <= n /\ plan[k].start \in Nat
  <2>1. n \in FewestFrames..MostFrames
    BY <1>1, <1>2 DEF ShotOK
  <2>2. plan[k].start \in Nat
    BY <1>2 DEF Planned
  <2>3. QED
    BY <2>1, <2>2, VideoAssumption
<1>4. cs \in Seq(C) /\ FramesOf(cs) \subseteq {0, n - 1} \cup FramesOf(board.shots[k].conditions)
  <2>1. board.shots[k] \in Shots
    BY <1>2 DEF IsBoard
  <2>2. cs = ConditionsOf(board.shots[k], n) /\ n \in Nat \ {0}
    BY <1>1, <1>3 DEF Given1
  <2>3. QED
    BY <1>2, <2>1, <2>2, ConditionsType
<1>5. FramesOf(cs) \subseteq 0..n - 1
  <2>1. FramesOf(board.shots[k].conditions) \subseteq 0..n - 1
    BY <1>1, <1>2 DEF ShotOK
  <2>2. {0, n - 1} \subseteq 0..n - 1
    BY <1>3
  <2>3. QED
    BY <1>4, <2>1, <2>2
<1>6. plan[k].positions = {p \in 0..n - 1 : p % Spacing = 0} \cup {n - 1} \cup FramesOf(cs)
  BY <1>1, <1>2 DEF ShotOK, Positions
<1>7. Spacing \in Nat \ {0}
  BY <1>2, SpacingType
<1>8. 0 % Spacing = 0 /\ 0 \in 0..n - 1 /\ n - 1 \in 0..n - 1
  BY <1>3, <1>7
<1>9. plan[k].positions \subseteq 0..n - 1 /\ 0 \in plan[k].positions /\ n - 1 \in plan[k].positions
  BY <1>5, <1>6, <1>8
<1>10. IsFiniteSet(plan[k].positions)
  <2>1. IsFiniteSet(0..n - 1)
    BY <1>3, FirstNumbers
  <2>2. QED
    BY <1>9, <2>1, FS_Subset
<1>11. \A i \in 1..Len(cs) : cs[i].frame \in plan[k].positions
  <2>1. \A i \in 1..Len(cs) : cs[i].frame \in FramesOf(cs)
    BY <1>4 DEF FramesOf
  <2>2. QED
    BY <1>6, <2>1
<1>12. \A i, j \in 1..Len(cs) : cs[i].frame = cs[j].frame => i = j
  <2>1. PICK f : f = [i \in 1..Len(cs) |-> cs[i].frame]
    OBVIOUS
  <2>2. DOMAIN cs = 1..Len(cs) /\ Len(cs) \in Nat
    BY <1>4
  <2>3. f \in Surjection(1..Len(cs), FramesOf(cs))
    BY <2>1, <2>2 DEF Surjection, FramesOf
  <2>4. IsFiniteSet(1..Len(cs)) /\ Cardinality(1..Len(cs)) = Len(cs)
    BY <2>2, FirstNumbers
  <2>5. Cardinality(FramesOf(cs)) = Len(cs)
    BY <1>1, <1>2 DEF ShotOK
  <2>6. f \in Injection(1..Len(cs), FramesOf(cs))
    BY <2>3, <2>4, <2>5, FS_Surjection
  <2>7. QED
    BY <2>1, <2>6 DEF Injection, IsInjective
<1>13. \A p \in 0..n - 1 : p % Spacing = 0 => p \in plan[k].positions
  BY <1>6
<1>14. QED
  BY <1>1, <1>2, <1>3, <1>4, <1>9, <1>10, <1>11, <1>12, <1>13

\* Shots follow one another.
LEMMA ShotsFollow ==
    ASSUME PlanInv
    PROVE  /\ \A m \in 0..Len(plan) : EndAt(m) \in Nat
           /\ EndAt(0) = 0 /\ \A m \in 1..Len(plan) : plan[m].start = EndAt(m - 1) /\ EndAt(m) = EndAt(m - 1) + plan[m].frames
           /\ \A k, m \in 0..Len(plan) : k < m => EndAt(k) + 2 <= EndAt(m)
           /\ End(plan) = EndAt(Len(plan))
<1>1. Len(plan) \in Nat
  BY DEF PlanInv
<1>2. EndAt(0) = 0
  BY DEF EndAt
<1>3. ASSUME NEW m \in 1..Len(plan)
      PROVE  /\ plan[m].frames \in Nat /\ 2 <= plan[m].frames /\ plan[m].start \in Nat
             /\ plan[m].start = EndAt(m - 1) /\ EndAt(m) = EndAt(m - 1) + plan[m].frames
  <2>1. plan[m].frames \in Nat /\ 2 <= plan[m].frames /\ plan[m].start \in Nat
    BY ShotFacts
  <2>2. plan[m].start = EndAt(m - 1)
    BY DEF PlanInv, ShotOK
  <2>3. EndAt(m) = plan[m].start + plan[m].frames
    BY <1>1 DEF EndAt
  <2>4. QED
    BY <2>1, <2>2, <2>3
<1>4. \A m \in 0..Len(plan) : EndAt(m) \in Nat
  <2>1. ASSUME NEW m \in 1..Len(plan)
        PROVE  EndAt(m) \in Nat
    <3>1. EndAt(m) = plan[m].start + plan[m].frames
      BY <1>1 DEF EndAt
    <3>2. QED
      BY <1>3, <3>1
  <2>2. QED
    BY <1>1, <1>2, <2>1
<1>5. \A m \in Nat : m <= Len(plan) => \A k \in 0..m - 1 : EndAt(k) + 2 <= EndAt(m)
  <2> DEFINE T == {m \in Nat : m <= Len(plan) => \A k \in 0..m - 1 : EndAt(k) + 2 <= EndAt(m)}
  <2>1. 0 \in T
    OBVIOUS
  <2>2. ASSUME NEW m \in T
        PROVE  m + 1 \in T
    <3>1. ASSUME m + 1 <= Len(plan), NEW k \in 0..m
          PROVE  EndAt(k) + 2 <= EndAt(m + 1)
      <4>1. m + 1 \in 1..Len(plan) /\ m + 1 - 1 = m
        BY <1>1, <3>1
      <4>2. EndAt(m + 1) = EndAt(m) + plan[m + 1].frames /\ 2 <= plan[m + 1].frames /\ plan[m + 1].frames \in Nat
        BY <1>3, <4>1
      <4>3. EndAt(m) \in Nat /\ EndAt(k) \in Nat
        BY <1>1, <1>4, <3>1
      <4>4. k = m \/ EndAt(k) + 2 <= EndAt(m)
        BY <1>1, <3>1
      <4>5. QED
        BY <4>2, <4>3, <4>4
    <3>2. QED
      BY <3>1
  <2>3. T = Nat
    <3> HIDE DEF T
    <3>1. T \in SUBSET Nat
      BY DEF T
    <3>2. QED
      BY <2>1, <2>2, <3>1, SetInduction
  <2>4. QED
    BY <2>3
<1>6. End(plan) = EndAt(Len(plan))
  <2>1. plan = <<>> <=> Len(plan) = 0
    BY DEF PlanInv
  <2>2. QED
    BY <2>1 DEF End, EndAt, Last
<1>7. \A k, m \in 0..Len(plan) : k < m => EndAt(k) + 2 <= EndAt(m)
  BY <1>1, <1>5
<1>8. QED
  BY <1>2, <1>3, <1>4, <1>6, <1>7

\* Every frame of the video is of one shot.
LEMMA ShotOfFrame ==
    ASSUME PlanInv, NEW i \in 0..End(plan) - 1
    PROVE  \E k \in 1..Len(plan) : \E l \in 0..plan[k].frames - 1 : i = plan[k].start + l
<1>1. Len(plan) \in Nat
  BY DEF PlanInv
<1> DEFINE T == {m \in 0..Len(plan) : i < EndAt(m)}
<1>2. Len(plan) \in T /\ T \in SUBSET Nat
  <2>1. i < EndAt(Len(plan))
    BY ShotsFollow, <1>1
  <2>2. QED
    BY <1>1, <2>1
<1>3. PICK k \in T : \A m \in T : k <= m
  <2> HIDE DEF T
  <2>1. QED
    BY <1>2, LeastNatural
<1>4. k \in 1..Len(plan) /\ i < EndAt(k) /\ i >= EndAt(k - 1)
  <2>1. k # 0
    BY ShotsFollow, <1>1
  <2>2. k \in 1..Len(plan) /\ k - 1 \in 0..Len(plan) /\ ~(k <= k - 1)
    BY <1>1, <2>1
  <2>3. ~(i < EndAt(k - 1)) /\ EndAt(k - 1) \in Nat /\ i \in Int
    <3>1. EndAt(k - 1) \in Nat
      BY <2>2, ShotsFollow
    <3>2. i \in Int
      BY <1>1, ShotsFollow
    <3>3. QED
      BY <1>3, <2>2, <3>1, <3>2
  <2>4. QED
    BY <2>2, <2>3
<1>5. plan[k].start = EndAt(k - 1) /\ EndAt(k) = EndAt(k - 1) + plan[k].frames /\ EndAt(k - 1) \in Nat /\ plan[k].frames \in Nat
  BY <1>1, <1>4, ShotsFollow, ShotFacts
<1>6. PICK l : l = i - plan[k].start
  OBVIOUS
<1>7. i \in Int
  BY <1>1, ShotsFollow
<1>8. l \in 0..plan[k].frames - 1 /\ i = plan[k].start + l
  BY <1>4, <1>5, <1>6, <1>7
<1>9. QED
  BY <1>4, <1>8
\* What the order of the sampled positions means: the first frame is first, the last one, of n, last.
InOrder(S, n) ==
    /\ Cardinality(S) \in Nat /\ 1 <= Cardinality(S)
    /\ \A p \in S : IndexOf(S, p) \in 0..Cardinality(S) - 1
    /\ \A p, q \in S : p < q <=> IndexOf(S, p) < IndexOf(S, q)
    /\ \A p, q \in S : IndexOf(S, p) = IndexOf(S, q) => p = q
    /\ \A i \in 0..Cardinality(S) - 1 : PositionAt(S, i) \in S /\ IndexOf(S, PositionAt(S, i)) = i
    /\ \A p \in S : IndexOf(S, p) = 0 <=> p = 0
    /\ IndexOf(S, n - 1) = Cardinality(S) - 1


\* Positions are sampled in their order, the first frame first and the last one last.
LEMMA PositionsInOrder ==
    ASSUME PlanInv, NEW k \in 1..Len(plan)
    PROVE  InOrder(plan[k].positions, plan[k].frames)
<1>0. PICK S : S = plan[k].positions
  OBVIOUS
<1>1. /\ S \in SUBSET Int /\ IsFiniteSet(S) /\ 0 \in S /\ plan[k].frames - 1 \in S /\ plan[k].frames \in Nat
      /\ S \subseteq 0..plan[k].frames - 1
  BY <1>0, ShotFacts
<1>2. \A p : IndexOf(S, p) = RankIn(S, p)
  BY DEF IndexOf, RankIn
<1>3. /\ Cardinality(S) \in Nat
      /\ \A p \in S : IndexOf(S, p) \in 0..Cardinality(S) - 1
      /\ \A p, q \in S : p < q <=> IndexOf(S, p) < IndexOf(S, q)
      /\ \A p, q \in S : IndexOf(S, p) = IndexOf(S, q) => p = q
      /\ \A i \in 0..Cardinality(S) - 1 : \E p \in S : IndexOf(S, p) = i
  <2>1. /\ Cardinality(S) \in Nat
        /\ \A p \in S : RankIn(S, p) \in 0..Cardinality(S) - 1
        /\ \A p, q \in S : p < q <=> RankIn(S, p) < RankIn(S, q)
        /\ \A p, q \in S : RankIn(S, p) = RankIn(S, q) => p = q
        /\ \A i \in 0..Cardinality(S) - 1 : \E p \in S : RankIn(S, p) = i
    BY <1>1, Ranks
  <2>2. QED
    BY <1>2, <2>1
<1>4. PICK c : c = Cardinality(S)
  OBVIOUS
<1>5. c \in Nat /\ 1 <= c
  BY <1>1, <1>3, <1>4
<1>6. \A i \in 0..c - 1 : PositionAt(S, i) \in S /\ IndexOf(S, PositionAt(S, i)) = i
  BY <1>3, <1>4 DEF PositionAt
<1>7. PICK p \in S : IndexOf(S, p) = 0
  BY <1>3, <1>4, <1>5
<1>8. p = 0
  <2>1. p \in Nat /\ ~(0 < p)
    <3>1. IndexOf(S, 0) \in Nat /\ p \in Nat
      BY <1>1, <1>3
    <3>2. 0 < p => IndexOf(S, 0) < 0
      BY <1>1, <1>3, <1>7
    <3>3. QED
      BY <3>1, <3>2
  <2>2. QED
    BY <2>1
<1>9. \A q \in S : IndexOf(S, q) = 0 <=> q = 0
  BY <1>1, <1>3, <1>7, <1>8
<1>10. PICK z \in S : IndexOf(S, z) = c - 1
  BY <1>3, <1>4, <1>5
<1>11. z = plan[k].frames - 1
  <2>1. PICK e : e = plan[k].frames - 1
    OBVIOUS
  <2>2. e \in S /\ z <= e /\ z \in Int /\ e \in Int
    BY <1>1, <2>1
  <2>3. ~(z < e)
    <3>1. IndexOf(S, e) \in 0..c - 1
      BY <1>3, <1>4, <2>2
    <3>2. z < e => c - 1 < IndexOf(S, e)
      BY <1>3, <1>10, <2>2
    <3>3. QED
      BY <1>5, <3>1, <3>2
  <2>4. QED
    BY <2>1, <2>2, <2>3
<1>12. QED
  BY <1>0, <1>3, <1>4, <1>5, <1>6, <1>9, <1>10, <1>11 DEF InOrder

\* A frame that is not sampled is between two that are next to each other on the grid or closer.
LEMMA BetweenFacts ==
    ASSUME PlanInv, NEW k \in 1..Len(plan), NEW l \in 0..plan[k].frames - 1, l \notin plan[k].positions
    PROVE  \E lo, hi \in plan[k].positions :
              /\ lo < l /\ l < hi /\ hi - lo <= Spacing
              /\ \A p \in plan[k].positions : ~(lo < p /\ p < hi)
              /\ Between(k, l) = [index |-> plan[k].start + l, shot |-> k, pixels |-> NotSaid,
                                  sources |-> {plan[k].start + lo, plan[k].start + hi},
                                  fraction |-> <<l - lo, hi - lo>>]
<1>0. PICK S : S = plan[k].positions
  OBVIOUS
<1>a. PICK n, c : n = plan[k].frames /\ c = Cardinality(S)
  OBVIOUS
<1>1. S = plan[k].positions /\ n = plan[k].frames /\ c = Cardinality(S)
  BY <1>0, <1>a
<1>2. /\ S \subseteq 0..n - 1 /\ IsFiniteSet(S) /\ 0 \in S /\ n - 1 \in S /\ n \in Nat
      /\ \A p \in 0..n - 1 : p % Spacing = 0 => p \in S
  BY <1>1, ShotFacts
<1>3. /\ c \in Nat /\ 1 <= c
      /\ \A p \in S : IndexOf(S, p) \in 0..c - 1
      /\ \A p, q \in S : p < q <=> IndexOf(S, p) < IndexOf(S, q)
      /\ \A p, q \in S : IndexOf(S, p) = IndexOf(S, q) => p = q
      /\ \A i \in 0..c - 1 : PositionAt(S, i) \in S /\ IndexOf(S, PositionAt(S, i)) = i
  <2>1. InOrder(S, n)
    BY <1>1, PositionsInOrder
  <2>2. QED
    BY <1>1, <2>1 DEF InOrder
<1>4. l \in Int /\ 0 < l /\ l < n - 1 /\ l \notin S
  BY <1>1, <1>2
<1>5. PICK r : r = Cardinality({p \in S : p <= l})
  OBVIOUS
<1>6. {p \in S : p <= l} = {p \in S : p < l}
  <2>1. \A p \in S : p \in Int /\ p # l
    BY <1>2, <1>4
  <2>2. \A p \in S : p <= l <=> p < l
    BY <1>4, <2>1
  <2>3. QED
    BY <2>2
<1>7. r \in 1..c - 1
  <2>1. IsFiniteSet({p \in S : p <= l}) /\ r \in Nat
    <3>1. {p \in S : p <= l} \subseteq S
      OBVIOUS
    <3>2. QED
      BY <1>2, <1>5, <3>1, FS_Subset, FS_CardinalityType
  <2>2. r # 0
    <3>1. 0 \in {p \in S : p <= l}
      BY <1>2, <1>4
    <3>2. {p \in S : p <= l} # {}
      BY <3>1
    <3>3. QED
      BY <1>5, <2>1, <3>2, FS_EmptySet
  <2>3. r <= c - 1
    <3>1. IsFiniteSet(S \ {n - 1}) /\ Cardinality(S \ {n - 1}) = c - 1
      BY <1>1, <1>2, FS_RemoveElement
    <3>2. {p \in S : p <= l} \subseteq S \ {n - 1}
      BY <1>2, <1>4
    <3>3. QED
      BY <1>5, <3>1, <3>2, FS_Subset
  <2>4. QED
    BY <1>3, <2>1, <2>2, <2>3
<1>8. PICK lo, hi : lo = PositionAt(S, r - 1) /\ hi = PositionAt(S, r)
  OBVIOUS
<1>9. lo \in S /\ IndexOf(S, lo) = r - 1 /\ hi \in S /\ IndexOf(S, hi) = r
  <2>1. r - 1 \in 0..c - 1 /\ r \in 0..c - 1
    BY <1>3, <1>7
  <2>2. QED
    BY <1>3, <1>8, <2>1
<1>10. \A p \in S : l < p => r <= IndexOf(S, p)
  <2>1. ASSUME NEW p \in S, l < p
        PROVE  r <= IndexOf(S, p)
    <3>1. {q \in S : q < l} \subseteq {q \in S : q < p}
      <4>1. \A q \in S : q \in Int /\ p \in Int /\ (q < l => q < p)
        BY <1>2, <1>4, <2>1
      <4>2. QED
        BY <4>1
    <3>2. IsFiniteSet({q \in S : q < p})
      <4>1. {q \in S : q < p} \subseteq S
        OBVIOUS
      <4>2. QED
        BY <1>2, <4>1, FS_Subset
    <3>3. QED
      BY <1>5, <1>6, <3>1, <3>2, FS_Subset DEF IndexOf
  <2>2. QED
    BY <2>1
<1>11. \A p \in S : p < l => IndexOf(S, p) < r
  <2>1. ASSUME NEW p \in S, p < l
        PROVE  IndexOf(S, p) < r
    <3>1. {q \in S : q < p} \subseteq {q \in S : q <= l} \ {p}
      <4>1. \A q \in S : q \in Int /\ p \in Int /\ (q < p => q <= l /\ q # p)
        BY <1>2, <1>4, <2>1
      <4>2. QED
        BY <4>1
    <3>2. p \in {q \in S : q <= l} /\ IsFiniteSet({q \in S : q <= l})
      <4>1. {q \in S : q <= l} \subseteq S
        OBVIOUS
      <4>2. IsFiniteSet({q \in S : q <= l})
        BY <1>2, <4>1, FS_Subset
      <4>3. p <= l
        BY <1>2, <1>4, <2>1
      <4>4. QED
        BY <4>2, <4>3
    <3>3. IsFiniteSet({q \in S : q <= l} \ {p}) /\ Cardinality({q \in S : q <= l} \ {p}) = r - 1
      BY <1>5, <3>2, FS_RemoveElement
    <3>4. IndexOf(S, p) <= r - 1
      BY <3>1, <3>3, FS_Subset DEF IndexOf
    <3>5. IndexOf(S, p) \in Int /\ r \in Int
      BY <1>3, <1>7
    <3>6. QED
      BY <3>4, <3>5
  <2>2. QED
    BY <2>1
<1>12. lo < l /\ l < hi /\ lo \in Nat /\ hi \in 0..n - 1
  <2>1. lo \in Nat /\ hi \in 0..n - 1 /\ lo # l /\ hi # l /\ r \in Int
    BY <1>2, <1>4, <1>7, <1>9
  <2>2. ~(l < lo)
    BY <1>9, <1>10, <2>1
  <2>3. ~(hi < l)
    BY <1>9, <1>11, <2>1
  <2>4. QED
    BY <1>4, <2>1, <2>2, <2>3
<1>13. ASSUME NEW p \in S, lo < p, p < hi
       PROVE  FALSE
  <2>1. r - 1 < IndexOf(S, p) /\ IndexOf(S, p) < r
    BY <1>3, <1>9, <1>13
  <2>2. IndexOf(S, p) \in Int /\ r \in Int
    BY <1>3, <1>7
  <2>3. QED
    BY <2>1, <2>2
<1>14. hi - lo <= Spacing
  <2>1. Spacing \in Nat \ {0}
    BY SpacingType DEF PlanInv
  <2>2. PICK m \in Nat : lo < m /\ m <= lo + Spacing /\ m % Spacing = 0
    BY <1>12, <2>1, Multiple
  <2>3. ASSUME ~(hi - lo <= Spacing)
        PROVE  FALSE
    <3>1. m < hi /\ m \in 0..n - 1
      BY <1>2, <1>12, <2>1, <2>2, <2>3
    <3>2. m \in S
      BY <1>2, <2>2, <3>1
    <3>3. QED
      BY <1>13, <2>2, <3>1, <3>2
  <2>4. QED
    BY <2>3
<1>15. Between(k, l) = [index |-> plan[k].start + l, shot |-> k, pixels |-> NotSaid,
                        sources |-> {plan[k].start + lo, plan[k].start + hi},
                        fraction |-> <<l - lo, hi - lo>>]
  BY <1>1, <1>5, <1>8 DEF Between
<1>16. QED
  BY <1>1, <1>9, <1>12, <1>13, <1>14, <1>15
-----------------------------------------------------------------------------
(* The steps. *)

\* What is said of a planned shot depends on the storyboard, on it and on the one before it.
LEMMA ShotSame ==
    ASSUME board' = board, NEW k \in Nat \ {0}, plan'[k] = plan[k], k # 1 => plan'[k - 1] = plan[k - 1], ShotOK(k)
    PROVE  ShotOK(k)'
<1>1. EndAt(k - 1)' = EndAt(k - 1)
  BY DEF EndAt
<1>2. Spacing' = Spacing
  BY DEF Spacing, Interpolated
<1>3. Given1(k)' = Given1(k)
  BY DEF Given1, ConditionsOf
<1>4. Positions(plan[k].frames, Given1(k))' = Positions(plan[k].frames, Given1(k))
  BY <1>2, <1>3 DEF Positions
<1>5. QED
  BY <1>1, <1>3, <1>4 DEF ShotOK

\* A shot that is accepted is planned as it says.
LEMMA NewShot ==
    ASSUME PlanInv, PlanShot, ~Unplannable(board.shots[Len(plan) + 1], plan = <<>>)
    PROVE  PlanInv' /\ Len(plan') = Len(plan) + 1 /\ \A k \in 1..Len(plan) : plan'[k] = plan[k]
<1> DEFINE C == [image : Pictures, frame : Int]
<1>1. PICK k : k = Len(plan) + 1
  OBVIOUS
<1>2. PICK shot : shot = board.shots[k]
  OBVIOUS
<1>3. PICK n, cs : n = CountOf(Said(shot)) /\ cs = ConditionsOf(shot, n)
  <2>1. PICK n : n = CountOf(Said(shot))
    OBVIOUS
  <2>2. QED
    BY <2>1
<1>4. PICK S : S = Positions(n, cs)
  OBVIOUS
<1>5. PICK x : x = [start |-> End(plan), frames |-> n, positions |-> S,
                    samples |-> SampleLength(Cardinality(S)), continues |-> shot.continues,
                    conditions |-> {[image |-> cs[i].image, source |-> IndexOf(S, cs[i].frame)] : i \in DOMAIN cs}]
  OBVIOUS
<1>6. plan' = Append(plan, x) /\ board' = board /\ k <= Len(board.shots)
  <2>1. plan' = Append(plan, x)
    BY <1>1, <1>2, <1>3, <1>4, <1>5 DEF PlanShot
  <2>2. Len(plan) < Len(board.shots) /\ board' = board
    BY DEF PlanShot
  <2>3. Len(plan) \in Nat /\ Len(board.shots) \in Nat
    BY DEF PlanInv, IsBoard
  <2>4. QED
    BY <1>1, <2>1, <2>2, <2>3
<1>7. Len(plan) \in Nat /\ plan \in Seq(Planned) /\ IsBoard(board) /\ k \in Nat \ {0} /\ shot \in Shots
  <2>1. Len(plan) \in Nat /\ plan \in Seq(Planned) /\ IsBoard(board)
    BY DEF PlanInv
  <2>2. k \in 1..Len(board.shots)
    BY <1>1, <1>6, <2>1
  <2>3. QED
    BY <1>2, <2>1, <2>2 DEF IsBoard
<1>8. Len(plan') = k /\ plan'[k] = x /\ \A i \in 1..Len(plan) : plan'[i] = plan[i]
  BY <1>1, <1>6, <1>7
<1>9. /\ n \in FewestFrames..MostFrames /\ (shot.continues => k # 1)
      /\ FramesOf(shot.conditions) \subseteq 0..n - 1
      /\ Cardinality(FramesOf(cs)) = Len(cs) /\ (shot.continues => 0 \notin FramesOf(cs))
  <2>1. plan = <<>> <=> k = 1
    BY <1>1, <1>7
  <2>2. QED
    BY <1>1, <1>2, <1>3, <2>1 DEF Unplannable
<1>10. n \in Nat \ {0} /\ cs \in Seq(C)
  <2>1. n \in Nat \ {0}
    BY <1>9, VideoAssumption
  <2>2. QED
    BY <1>3, <1>7, <2>1, ConditionsType
<1>a. DOMAIN cs = 1..Len(cs) /\ Len(cs) \in Nat /\ \A i \in DOMAIN cs : cs[i].image \in Pictures
  <2>1. DOMAIN cs = 1..Len(cs) /\ Len(cs) \in Nat /\ \A i \in 1..Len(cs) : cs[i] \in C
    <3>1. PICK D : D = C
      OBVIOUS
    <3>2. cs \in Seq(D)
      BY <1>10, <3>1
    <3>3. DOMAIN cs = 1..Len(cs) /\ Len(cs) \in Nat /\ \A i \in 1..Len(cs) : cs[i] \in D
      BY ONLY <3>2
    <3>4. QED
      BY <3>1, <3>3
  <2>2. QED
    BY <2>1
<1>11. EndAt(k - 1) = End(plan) /\ End(plan) \in Nat
  <2>1. k - 1 = Len(plan)
    BY <1>1, <1>7
  <2>2. QED
    BY <1>7, <2>1, ShotsFollow
<1>12. Given1(k)' = cs
  <2>1. plan'[k].frames = n /\ board'.shots[k] = shot
    BY <1>2, <1>5, <1>6, <1>8
  <2>2. ConditionsOf(shot, n)' = ConditionsOf(shot, n)
    BY <1>6 DEF ConditionsOf
  <2>3. Given1(k)' = ConditionsOf(shot, n)'
    BY <2>1 DEF Given1, ConditionsOf
  <2>4. QED
    BY <1>3, <2>2, <2>3
<1>13. Positions(n, cs)' = S
  BY <1>4, <1>6 DEF Positions, Spacing, Interpolated
<1>14. EndAt(k - 1)' = End(plan)
  <2>1. k - 1 = Len(plan) /\ (k - 1 # 0 => k - 1 \in 1..Len(plan))
    BY <1>1, <1>7
  <2>2. QED
    BY <1>8, <1>11, <2>1 DEF EndAt
<1>15. ShotOK(k)'
  <2>1. /\ plan'[k].frames = n /\ plan'[k].start = End(plan) /\ plan'[k].positions = S
        /\ plan'[k].samples = SampleLength(Cardinality(S)) /\ plan'[k].continues = shot.continues
        /\ plan'[k].conditions = {[image |-> cs[i].image, source |-> IndexOf(S, cs[i].frame)] : i \in DOMAIN cs}
        /\ board'.shots[k] = shot
    BY <1>2, <1>5, <1>6, <1>8
  <2>2. Positions(plan[k].frames, Given1(k))' = S
    BY <1>12, <1>13, <2>1 DEF Positions
  <2>3. QED
    BY <1>9, <1>12, <1>14, <2>1, <2>2 DEF ShotOK
<1>16. ASSUME NEW i \in 1..Len(plan)
       PROVE  ShotOK(i)'
  <2>1. i \in Nat \ {0} /\ ShotOK(i) /\ plan'[i] = plan[i] /\ (i # 1 => i - 1 \in 1..Len(plan))
    BY <1>7, <1>8 DEF PlanInv
  <2>2. QED
    BY <1>6, <1>8, <2>1, ShotSame
<1>17. x \in Planned
  <2>1. S \subseteq Nat /\ IsFiniteSet(S)
    <3>1. IsFiniteSet(FramesOf(cs)) /\ FramesOf(cs) \subseteq Nat
      <4>1. DOMAIN cs = 1..Len(cs) /\ Len(cs) \in Nat
        BY <1>10
      <4>2. IsFiniteSet(DOMAIN cs)
        BY <4>1, FirstNumbers
      <4>3. PICK f : f = [i \in DOMAIN cs |-> cs[i].frame]
        OBVIOUS
      <4>4. f \in Surjection(DOMAIN cs, FramesOf(cs))
        BY <4>3 DEF Surjection, FramesOf
      <4>5. FramesOf(cs) \subseteq Nat
        <5>1. FramesOf(cs) \subseteq {0, n - 1} \cup FramesOf(shot.conditions)
          BY <1>3, <1>7, <1>10, ConditionsType
        <5>2. {0, n - 1} \subseteq Nat /\ 0..n - 1 \subseteq Nat
          BY <1>10
        <5>3. QED
          BY <1>9, <5>1, <5>2
      <4>6. QED
        BY <4>2, <4>4, <4>5, FS_Surjection
    <3>2. IsFiniteSet(0..n - 1) /\ 0..n - 1 \subseteq Nat /\ n - 1 \in 0..n - 1
      <4>1. IsFiniteSet(0..n - 1)
        BY <1>10, FirstNumbers
      <4>2. QED
        BY <1>10, <4>1
    <3>3. IsFiniteSet(0..n - 1 \cup FramesOf(cs)) /\ 0..n - 1 \cup FramesOf(cs) \subseteq Nat
      BY <3>1, <3>2, FS_Union
    <3>4. S \subseteq 0..n - 1 \cup FramesOf(cs)
      BY <1>4, <3>2 DEF Positions
    <3>5. QED
      BY <3>3, <3>4, FS_Subset
  <2>2. \A p : IndexOf(S, p) \in Nat
    <3>1. ASSUME NEW p
          PROVE  IndexOf(S, p) \in Nat
      <4>1. {q \in S : q < p} \subseteq S
        OBVIOUS
      <4>2. QED
        BY <2>1, <4>1, FS_Subset, FS_CardinalityType DEF IndexOf
    <3>2. QED
      BY <3>1
  <2>3. PICK D : D = {[image |-> cs[i].image, source |-> IndexOf(S, cs[i].frame)] : i \in DOMAIN cs}
    OBVIOUS
  <2>4. D \subseteq [image : Pictures, source : Nat]
    <3>1. QED
      BY <1>a, <2>2, <2>3
  <2>5. SampleLength(Cardinality(S)) \in Int
    <3>1. Cardinality(S) \in Nat
      BY <2>1, FS_CardinalityType
    <3>2. QED
      BY <3>1 DEF SampleLength
  <2>6. shot.continues \in BOOLEAN
    BY <1>7 DEF Shots
  <2>7. QED
    BY <1>5, <1>10, <1>11, <2>1, <2>3, <2>4, <2>5, <2>6 DEF Planned
<1>18. plan' \in Seq(Planned)
  BY <1>6, <1>7, <1>17
<1>19. IsBoard(board)'
  BY <1>6, <1>7 DEF IsBoard
<1>20. \A i \in 1..Len(plan') : ShotOK(i)'
  <2>1. \A i \in 1..Len(plan') : i = k \/ i \in 1..Len(plan)
    BY <1>1, <1>7, <1>8
  <2>2. QED
    BY <1>15, <1>16, <2>1
<1>21. (Len(plan) <= Len(board.shots))'
  BY <1>6, <1>8
<1>22. QED
  BY <1>1, <1>8, <1>18, <1>19, <1>20, <1>21 DEF PlanInv

\* Other steps plan nothing.
LEMMA PlanKept ==
    ASSUME VideoInv, VideoStep
    PROVE  \/ plan' = plan /\ board' = board
           \/ /\ PlanShot /\ ~Unplannable(board.shots[Len(plan) + 1], plan = <<>>)
              /\ stage = "plan" /\ stage' = "plan" /\ rendered' = rendered /\ frames' = frames /\ board' = board
<1>1. CASE PlanShot
  BY <1>1 DEF PlanShot
<1>2. CASE VideoNext /\ ~PlanShot
  BY <1>2 DEF VideoNext, AcceptPlan, LoadTokenizer, StampLtx, HashLtx, LoadLtx, VerifyLtx, HashKeyframe, ReadKeyframe, CheckKeyframe,
              RenderShot, EndRendering, InterpolateShot, EndVideo, Replace
<1>3. CASE UNCHANGED videoVars
  BY <1>3 DEF videoVars
<1>4. QED
  BY <1>1, <1>2, <1>3 DEF VideoStep

\* The plan is what the storyboard says.
LEMMA PlanNext == ASSUME VideoInv, VideoStep PROVE PlanInv'
<1>1. PlanInv
  BY DEF VideoInv
<1>2. CASE plan' = plan /\ board' = board
  <2>1. ASSUME NEW k \in 1..Len(plan)
        PROVE  ShotOK(k)'
    <3>1. Len(plan) \in Nat /\ ShotOK(k)
      BY <1>1 DEF PlanInv
    <3>2. k \in Nat \ {0} /\ plan'[k] = plan[k] /\ (k # 1 => plan'[k - 1] = plan[k - 1])
      BY <1>2, <3>1
    <3>3. QED
      BY <1>2, <3>1, <3>2, ShotSame
  <2>2. \A k \in 1..Len(plan') : ShotOK(k)'
    BY <1>2, <2>1
  <2>3. IsBoard(board)' /\ (plan \in Seq(Planned))' /\ (Len(plan) <= Len(board.shots))'
    BY <1>1, <1>2 DEF PlanInv, IsBoard
  <2>4. QED
    BY <2>2, <2>3 DEF PlanInv
<1>3. CASE PlanShot /\ ~Unplannable(board.shots[Len(plan) + 1], plan = <<>>)
  BY <1>1, <1>3, NewShot
<1>4. QED
  BY <1>2, <1>3, PlanKept

\* What a shot is rendered with, and what a frame of it is, depends on the plan and what was rendered.
LEMMA PassSame == ASSUME plan' = plan, NEW k PROVE Pass(k)' = Pass(k)
  BY DEF Pass, Sample, Previous

\* What is recorded of a frame depends on the plan and on what was rendered.
LEMMA RecordSame == ASSUME plan' = plan, rendered' = rendered, NEW k, NEW l PROVE Record(k, l)' = Record(k, l)
<1>1. Anchor(k, l)' = Anchor(k, l)
  BY DEF Anchor
<1>2. Between(k, l)' = Between(k, l)
  BY DEF Between
<1>3. QED
  BY <1>1, <1>2 DEF Record

\* So does what is told of the first frames.
LEMMA TellsSame ==
    ASSUME plan' = plan, rendered' = rendered, NEW g, NEW m, Tells(g, m)
    PROVE  Tells(g, m)'
<1>1. FrameSet' = FrameSet
  <2>1. \A k, l : Record(k, l)' = Record(k, l)
    BY RecordSame
  <2>2. QED
    BY <2>1 DEF FrameSet
<1>2. \A k, l : Record(k, l)' = Record(k, l)
  BY RecordSame
<1>3. EndAt(m)' = EndAt(m)
  BY DEF EndAt
<1>4. QED
  BY <1>1, <1>2, <1>3 DEF Tells

\* Every shot is rendered once, in its turn.
LEMMA RenderNext == ASSUME VideoInv, VideoStep PROVE RenderInv'
<1>1. PlanInv /\ RenderInv /\ Len(plan) \in Nat
  BY DEF VideoInv, PlanInv
<1>2. CASE rendered = <<>> /\ rendered' = <<>> /\ stage' \in EarlyStages \cup {"render"}
  <2>1. PlanInv'
    BY PlanNext
  <2>2. Len(plan') \in Nat
    BY <2>1 DEF PlanInv
  <2>3. QED
    BY <1>2, <2>2 DEF RenderInv, EarlyStages, VideoStages
<1>3. CASE plan' = plan /\ rendered' = rendered /\ stage' = stage
  <2>1. \A k : Pass(k)' = Pass(k)
    BY <1>3, PassSame
  <2>2. QED
    BY <1>1, <1>3, <2>1 DEF RenderInv
<1>4. CASE RenderShot
  <2>1. PICK k, p : k = Len(rendered) + 1 /\ p = Pass(k)
    OBVIOUS
  <2>2. rendered' = Append(rendered, p) /\ k <= Len(plan) /\ stage = "render" /\ plan' = plan /\ stage' = stage
    BY <1>4, <2>1 DEF RenderShot, Pass
  <2>3. \A i : Pass(i)' = Pass(i)
    BY <2>2, PassSame
  <2>4. PICK A : A = {Pass(i) : i \in 1..Len(plan)}
    OBVIOUS
  <2>5. rendered \in Seq(A) /\ Len(rendered) \in Nat /\ k \in 1..Len(plan) /\ p \in A
    BY <1>1, <2>1, <2>2, <2>4 DEF RenderInv
  <2>6. rendered' \in Seq(A) /\ Len(rendered') = k /\ rendered'[k] = p /\ \A i \in 1..Len(rendered) : rendered'[i] = rendered[i]
    BY <2>1, <2>2, <2>5
  <2>7. A = {Pass(i) : i \in 1..Len(plan)}'
    BY <2>2, <2>3, <2>4
  <2>8. \A i \in 1..k : rendered'[i] = Pass(i)
    <3>1. \A i \in 1..k : i = k \/ i \in 1..Len(rendered)
      BY <2>1, <2>5
    <3>2. QED
      BY <1>1, <2>1, <2>6, <3>1 DEF RenderInv
  <2>9. stage' = "render" /\ k <= Len(plan')
    BY <2>2
  <2>10. QED
    BY <2>3, <2>6, <2>7, <2>8, <2>9 DEF RenderInv, VideoStages, EarlyStages
<1>5. CASE EndRendering
  <2>1. plan' = plan /\ rendered' = rendered /\ Len(rendered) = Len(plan) /\ stage' \in {"interpolate", "failed"}
    BY <1>5 DEF EndRendering
  <2>2. \A k : Pass(k)' = Pass(k)
    BY <2>1, PassSame
  <2>3. QED
    BY <1>1, <2>1, <2>2 DEF RenderInv, VideoStages, EarlyStages
<1>6. CASE EndVideo
  <2>1. plan' = plan /\ rendered' = rendered /\ stage = "interpolate" /\ stage' \in {"done", "failed"}
    BY <1>6 DEF EndVideo
  <2>2. \A k : Pass(k)' = Pass(k)
    BY <2>1, PassSame
  <2>3. QED
    BY <1>1, <2>1, <2>2 DEF RenderInv, VideoStages, EarlyStages
<1>7. CASE \E i \in Pictures : CheckKeyframe(i)
  <2>1. plan' = plan /\ rendered' = rendered /\ stage = "keyframes" /\ stage' \in {"keyframes", "failed"}
    BY <1>7 DEF CheckKeyframe
  <2>2. \A k : Pass(k)' = Pass(k)
    BY <2>1, PassSame
  <2>3. QED
    BY <1>1, <2>1, <2>2 DEF RenderInv, VideoStages, EarlyStages
<1>8. CASE VerifyLtx
  <2>1. plan' = plan /\ rendered' = rendered /\ stage = "verify" /\ stage' \in {"render", "failed"}
    BY <1>8 DEF VerifyLtx
  <2>2. \A k : Pass(k)' = Pass(k)
    BY <2>1, PassSame
  <2>3. QED
    BY <1>1, <2>1, <2>2 DEF RenderInv, VideoStages, EarlyStages
<1>9. CASE PlanShot \/ AcceptPlan \/ LoadTokenizer \/ (\E f \in LtxFiles : StampLtx(f) \/ HashLtx(f)) \/ LoadLtx
  <2>1. stage \in EarlyStages /\ rendered' = rendered /\ stage' \in EarlyStages \cup {"render"}
    BY <1>1, <1>9 DEF PlanShot, AcceptPlan, LoadTokenizer, StampLtx, HashLtx, LoadLtx, EarlyStages, RenderInv
  <2>2. QED
    BY <1>1, <1>2, <2>1 DEF RenderInv
<1>10. CASE \/ \E i \in Pictures : HashKeyframe(i) \/ ReadKeyframe(i)
            \/ InterpolateShot \/ (\E f \in VideoFiles : Replace(f)) \/ UNCHANGED videoVars
  BY <1>3, <1>10 DEF HashKeyframe, ReadKeyframe, InterpolateShot, Replace, videoVars
<1>11. QED
  BY <1>4, <1>5, <1>6, <1>7, <1>8, <1>9, <1>10 DEF VideoStep, VideoNext

\* No frames are the video of no shots.
LEMMA TellsNothing == Tells(<<>>, 0)
  BY DEF Tells, EndAt

\* The frames of the next shot continue a video.
LEMMA TellsNext ==
    ASSUME PlanInv, NEW m \in 0..Len(plan) - 1, NEW g, Tells(g, m)
    PROVE  Tells(g \o ShotFrames(m + 1), m + 1)
<1>1. PICK n, k : n = plan[k].frames /\ k = m + 1
  OBVIOUS
<1>2. PICK s : s = ShotFrames(k)
  OBVIOUS
<1>3. Len(plan) \in Nat /\ k \in 1..Len(plan) /\ m \in Nat
  BY <1>1 DEF PlanInv
<1>4. n \in Nat /\ plan[k].start = EndAt(m) /\ EndAt(k) = EndAt(m) + n /\ EndAt(m) \in Nat
  <2>1. k - 1 = m /\ m \in 0..Len(plan)
    BY <1>1, <1>3
  <2>2. plan[k].frames \in Nat
    BY <1>3, ShotFacts
  <2>3. QED
    BY <1>1, <1>3, <2>1, <2>2, ShotsFollow
<1>5. s \in Seq(FrameSet) /\ Len(s) = n /\ \A i \in 1..n : s[i] = Record(k, i - 1)
  <2>1. s = [i \in 1..n |-> Record(k, i - 1)]
    BY <1>1, <1>2 DEF ShotFrames
  <2>2. \A i \in 1..n : i - 1 \in Nat
    BY <1>4
  <2>3. \A i \in 1..n : Record(k, i - 1) \in FrameSet
    BY <1>3, <2>2 DEF FrameSet
  <2>4. QED
    BY <1>4, <2>1, <2>3
<1>6. g \in Seq(FrameSet) /\ Len(g) = EndAt(m)
  BY DEF Tells
<1>7. /\ g \o s \in Seq(FrameSet) /\ Len(g \o s) = EndAt(k)
      /\ \A i \in 1..Len(g) : (g \o s)[i] = g[i]
      /\ \A i \in 1..n : (g \o s)[Len(g) + i] = s[i]
  <2>1. PICK F : F = FrameSet
    OBVIOUS
  <2>2. g \in Seq(F) /\ s \in Seq(F)
    BY <1>5, <1>6, <2>1
  <2>3. /\ g \o s \in Seq(F) /\ Len(g \o s) = Len(g) + Len(s)
        /\ \A i \in 1..Len(g) : (g \o s)[i] = g[i]
        /\ \A i \in 1..Len(s) : (g \o s)[Len(g) + i] = s[i]
    BY ONLY <2>2
  <2>4. QED
    BY <1>4, <1>5, <1>6, <2>1, <2>3
<1>8. ASSUME NEW j \in 1..k, NEW l \in 0..plan[j].frames - 1
      PROVE  (g \o s)[plan[j].start + l + 1] = Record(j, l)
  <2>1. CASE j = k
    <3>1. l + 1 \in 1..n /\ l \in Int
      BY <1>1, <1>4, <1>8, <2>1
    <3>2. plan[j].start + l + 1 = Len(g) + (l + 1) /\ l + 1 - 1 = l
      BY <1>4, <1>6, <2>1, <3>1
    <3>3. QED
      BY <1>5, <1>7, <2>1, <3>1, <3>2
  <2>2. CASE j # k
    <3>1. j \in 1..m /\ j \in 1..Len(plan)
      BY <1>1, <1>3, <2>2
    <3>2. plan[j].start \in Nat /\ plan[j].frames \in Nat /\ l \in Nat
      BY <3>1, ShotFacts
    <3>3. EndAt(j) = plan[j].start + plan[j].frames /\ (j = m \/ EndAt(j) + 2 <= EndAt(m)) /\ EndAt(j) \in Nat
      <4>1. j \in 0..Len(plan) /\ m \in 0..Len(plan) /\ (j = m \/ j < m)
        BY <1>3, <3>1
      <4>2. EndAt(j) = plan[j].start + plan[j].frames
        BY <3>1 DEF EndAt
      <4>3. QED
        BY <4>1, <4>2, ShotsFollow
    <3>4. plan[j].start + l + 1 \in 1..Len(g)
      <4>1. PICK a, b, c, e : a = plan[j].start /\ b = plan[j].frames /\ c = EndAt(j) /\ e = EndAt(m)
        OBVIOUS
      <4>2. a \in Nat /\ b \in Nat /\ c \in Nat /\ e \in Nat /\ c = a + b /\ c <= e /\ l \in Nat /\ l <= b - 1 /\ Len(g) = e
        <5>1. c <= e
          BY <1>4, <3>3, <4>1
        <5>2. QED
          BY <1>4, <1>6, <1>8, <3>2, <3>3, <4>1, <5>1
      <4>3. a + l + 1 \in 1..Len(g)
        BY ONLY <4>2
      <4>4. QED
        BY <4>1, <4>3
    <3>5. g[plan[j].start + l + 1] = Record(j, l)
      BY <1>8, <3>1 DEF Tells
    <3>6. QED
      BY <1>7, <3>4, <3>5
  <2>3. QED
    BY <2>1, <2>2
<1>9. Tells(g \o s, k)
  BY <1>7, <1>8 DEF Tells
<1>10. QED
  BY <1>1, <1>2, <1>9

\* All shots one after the other are the video.
LEMMA TellsAll ==
    ASSUME PlanInv
    PROVE  Tells(FlattenSeq([k \in DOMAIN plan |-> ShotFrames(k)]), Len(plan))
<1>1. PICK m, s : m = Len(plan) /\ s = [k \in DOMAIN plan |-> ShotFrames(k)]
  OBVIOUS
<1>2. m \in Nat /\ DOMAIN plan = 1..m /\ s = [k \in 1..m |-> ShotFrames(k)]
  BY <1>1 DEF PlanInv
<1>3. Len(s) = m /\ \A k \in 1..m : s[k] = ShotFrames(k)
  BY <1>2
<1>4. CASE m = 0
  <2>1. s = <<>>
    BY <1>2, <1>4
  <2>2. FlattenSeq(s) = <<>>
    BY <2>1 DEF FlattenSeq
  <2>3. QED
    BY <1>1, <1>4, <2>2, TellsNothing
<1>5. CASE m # 0
  <2>1. PICK f : FlattenSeq(s) = f[m] /\ f[1] = s[1] /\ \A i \in 2..m : f[i] = f[i - 1] \o s[i]
    <3>1. m \in Nat \ {0}
      BY <1>2, <1>5
    <3>2. QED
      BY <1>3, <3>1, FlattenRec
  <2> DEFINE T == {i \in Nat : i + 1 <= m => Tells(f[i + 1], i + 1)}
  <2>2. 0 \in T
    <3>1. Tells(<<>> \o ShotFrames(1), 1)
      <4>1. 0 \in 0..Len(plan) - 1 /\ 0 + 1 = 1
        BY <1>1, <1>2, <1>5
      <4>2. Tells(<<>> \o ShotFrames(0 + 1), 0 + 1)
        BY <4>1, TellsNothing, TellsNext
      <4>3. QED
        BY <4>1, <4>2
    <3>2. <<>> \o ShotFrames(1) = ShotFrames(1)
      <4>1. plan[1].frames \in Nat
        BY <1>1, <1>2, <1>5, ShotFacts
      <4>2. PICK g, n : g = ShotFrames(1) /\ n = plan[1].frames
        OBVIOUS
      <4>3. g = [i \in 1..n |-> Record(1, i - 1)]
        BY <4>2 DEF ShotFrames
      <4>4. PICK F : F = {Record(1, i - 1) : i \in 1..n}
        OBVIOUS
      <4>5. g \in Seq(F)
        BY <4>1, <4>2, <4>3, <4>4
      <4>6. <<>> \o g = g
        BY <4>5
      <4>7. QED
        BY <4>2, <4>6
    <3>3. f[1] = ShotFrames(1)
      BY <1>2, <1>3, <1>5, <2>1
    <3>4. Tells(f[1], 1)
      BY <3>1, <3>2, <3>3
    <3>5. QED
      BY <3>4
  <2>3. ASSUME NEW i \in T
        PROVE  i + 1 \in T
    <3>1. ASSUME i + 1 + 1 <= m
          PROVE  Tells(f[i + 1 + 1], i + 1 + 1)
      <4>1. i \in Nat /\ Tells(f[i + 1], i + 1) /\ i + 1 \in 0..Len(plan) - 1 /\ i + 1 + 1 \in 2..m /\ i + 1 + 1 \in 1..m
            /\ i + 1 + 1 - 1 = i + 1
        BY <1>1, <1>2, <3>1
      <4>2. f[i + 1 + 1] = f[i + 1] \o s[i + 1 + 1] /\ s[i + 1 + 1] = ShotFrames(i + 1 + 1)
        <5>1. PICK j : j = i + 1 + 1
          OBVIOUS
        <5>2. f[j] = f[j - 1] \o s[j]
          BY <2>1, <4>1, <5>1
        <5>3. s[j] = ShotFrames(j)
          BY <1>3, <4>1, <5>1
        <5>4. j - 1 = i + 1
          BY <4>1, <5>1
        <5>5. QED
          BY <5>1, <5>2, <5>3, <5>4
      <4>3. Tells(f[i + 1] \o ShotFrames(i + 1 + 1), i + 1 + 1)
        BY <4>1, TellsNext
      <4>4. QED
        BY <4>2, <4>3
    <3>2. i + 1 \in Nat
      OBVIOUS
    <3>3. QED
      BY <3>1, <3>2
  <2>4. T = Nat
    <3> HIDE DEF T
    <3>1. T \in SUBSET Nat
      BY DEF T
    <3>2. QED
      BY <2>2, <2>3, <3>1, SetInduction
  <2>5. m - 1 \in Nat /\ m - 1 + 1 = m /\ m <= m
    BY <1>2, <1>5
  <2>6. Tells(f[m], m)
    <3>1. m - 1 \in T
      <4> HIDE DEF T
      <4>1. QED
        BY <2>4, <2>5
    <3>2. m - 1 + 1 <= m => Tells(f[m - 1 + 1], m - 1 + 1)
      BY <3>1
    <3>3. QED
      BY <2>5, <3>2
  <2>7. QED
    BY <1>1, <2>1, <2>6
<1>6. QED
  BY <1>4, <1>5

\* The video is always that of some first shots, until it is of all.
LEMMA FrameNext == ASSUME VideoInv, VideoStep PROVE FrameInv'
<1>1. PlanInv /\ RenderInv /\ FrameInv /\ Len(plan) \in Nat
  BY DEF VideoInv, PlanInv
<1>2. PlanInv'
  BY PlanNext
<1>3. CASE frames' = <<>> /\ stage' # "done"
  <2>1. Tells(<<>>, 0)'
    BY DEF Tells, EndAt
  <2>2. 0 \in 0..Len(plan')
    BY <1>2 DEF PlanInv
  <2>3. QED
    BY <1>3, <2>1, <2>2 DEF FrameInv
<1>4. CASE plan' = plan /\ rendered' = rendered /\ frames' = frames /\ stage' = stage
  <2>1. PICK m \in 0..Len(plan) : Tells(frames, m)
    BY <1>1 DEF FrameInv
  <2>2. Tells(frames, m)'
    <3>1. PICK g : g = frames
      OBVIOUS
    <3>2. Tells(g, m)'
      BY <1>4, <2>1, <3>1, TellsSame
    <3>3. QED
      BY <1>4, <3>1, <3>2 DEF Tells
  <2>3. End(plan)' = End(plan)
    BY <1>4 DEF End
  <2>4. QED
    BY <1>1, <1>4, <2>1, <2>2, <2>3 DEF FrameInv
<1>5. CASE EndRendering
  <2>1. plan' = plan /\ rendered' = rendered /\ stage' \in {"interpolate", "failed"}
    BY <1>5 DEF EndRendering
  <2>2. CASE Interpolated
    BY <1>3, <1>5, <2>1, <2>2 DEF EndRendering
  <2>3. CASE ~Interpolated
    <3>1. PICK g : g = FlattenSeq([k \in DOMAIN plan |-> ShotFrames(k)])
      OBVIOUS
    <3>2. frames' = g /\ Tells(g, Len(plan))
      BY <1>1, <1>5, <2>3, <3>1, TellsAll DEF EndRendering
    <3>3. Tells(g, Len(plan))'
      <4>1. PICK m : m = Len(plan)
        OBVIOUS
      <4>2. Tells(g, m)'
        BY <2>1, <3>2, <4>1, TellsSame
      <4>3. QED
        BY <2>1, <4>1, <4>2 DEF Tells, EndAt
    <3>4. Len(plan') \in 0..Len(plan')
      BY <1>1, <2>1
    <3>5. QED
      BY <2>1, <3>2, <3>3, <3>4 DEF FrameInv, EarlyStages
  <2>4. QED
    BY <2>2, <2>3
<1>6. CASE InterpolateShot
  <2>1. stage = "interpolate" /\ stage' = stage /\ plan' = plan /\ rendered' = rendered
    BY <1>6 DEF InterpolateShot
  <2>2. PICK k \in 1..Len(plan) : plan[k].start = Len(frames) /\ frames' = frames \o ShotFrames(k)
    <3>1. DOMAIN plan = 1..Len(plan)
      BY <1>1 DEF PlanInv
    <3>2. QED
      BY <1>6, <3>1 DEF InterpolateShot
  <2>3. PICK m \in 0..Len(plan) : Tells(frames, m)
    BY <1>1 DEF FrameInv
  <2>4. k = m + 1
    <3>1. EndAt(k - 1) = EndAt(m) /\ k - 1 \in 0..Len(plan)
      BY <1>1, <2>2, <2>3, ShotsFollow DEF Tells
    <3>2. k - 1 = m \/ k - 1 < m \/ m < k - 1
      BY <1>1, <3>1
    <3>3. EndAt(m) \in Nat /\ ~(EndAt(m) + 2 <= EndAt(m))
      <4>1. EndAt(m) \in Nat
        BY <1>1, ShotsFollow
      <4>2. QED
        BY <4>1
    <3>4. k - 1 = m
      BY <1>1, <3>1, <3>2, <3>3, ShotsFollow
    <3>5. QED
      BY <1>1, <3>4
  <2>5. PICK g : g = frames \o ShotFrames(k)
    OBVIOUS
  <2>6. Tells(g, k) /\ k \in 0..Len(plan)
    <3>1. m \in 0..Len(plan) - 1
      BY <1>1, <2>2, <2>4
    <3>2. PICK h : h = frames
      OBVIOUS
    <3>3. Tells(h \o ShotFrames(m + 1), m + 1)
      BY <1>1, <2>3, <3>1, <3>2, TellsNext
    <3>4. QED
      BY <1>1, <2>2, <2>4, <2>5, <3>2, <3>3
  <2>7. Tells(g, k)'
    BY <2>1, <2>6, TellsSame
  <2>8. frames' = g /\ Len(plan') = Len(plan)
    BY <2>1, <2>2, <2>5
  <2>9. \E i \in 0..Len(plan') : Tells(g, i)'
    BY <2>6, <2>7, <2>8
  <2>10. (\E i \in 0..Len(plan) : Tells(frames, i))'
    BY <2>8, <2>9 DEF Tells
  <2>11. QED
    BY <2>1, <2>10 DEF FrameInv, EarlyStages
<1>7. CASE EndVideo
  <2>1. /\ stage = "interpolate" /\ stage' \in {"done", "failed"} /\ plan' = plan /\ rendered' = rendered
        /\ frames' = frames /\ Len(frames) = End(plan)
    BY <1>7 DEF EndVideo
  <2>2. PICK m \in 0..Len(plan) : Tells(frames, m)
    BY <1>1 DEF FrameInv
  <2>3. Tells(frames, m)'
    <3>1. PICK g : g = frames
      OBVIOUS
    <3>2. Tells(g, m)'
      BY <2>1, <2>2, <3>1, TellsSame
    <3>3. QED
      BY <2>1, <3>1, <3>2 DEF Tells
  <2>4. End(plan)' = End(plan)
    BY <2>1 DEF End
  <2>5. QED
    BY <2>1, <2>2, <2>3, <2>4 DEF FrameInv, EarlyStages
<1>8. CASE RenderShot
  <2>1. stage = "render" /\ stage' = "render" /\ frames' = frames
    BY <1>8 DEF RenderShot
  <2>2. QED
    BY <1>1, <1>3, <2>1 DEF FrameInv
<1>9. CASE PlanShot \/ AcceptPlan \/ LoadTokenizer \/ (\E f \in LtxFiles : StampLtx(f) \/ HashLtx(f)) \/ LoadLtx \/ VerifyLtx \/ \E i \in Pictures : CheckKeyframe(i)
  <2>1. stage \in EarlyStages /\ stage' # "done" /\ frames' = frames
    BY <1>1, <1>9 DEF PlanShot, AcceptPlan, LoadTokenizer, StampLtx, HashLtx, LoadLtx, VerifyLtx, CheckKeyframe, EarlyStages
  <2>2. QED
    BY <1>1, <1>3, <2>1 DEF FrameInv
<1>10. CASE \/ \E i \in Pictures : HashKeyframe(i) \/ ReadKeyframe(i)
            \/ (\E f \in VideoFiles : Replace(f)) \/ UNCHANGED videoVars
  BY <1>4, <1>10 DEF HashKeyframe, ReadKeyframe, Replace, videoVars
<1>11. QED
  BY <1>5, <1>6, <1>7, <1>8, <1>9, <1>10 DEF VideoStep, VideoNext

LaterStages == {"list", "verify", "render", "interpolate", "done"}

\* What changes of files and keyframes, and how a step comes to the later stages.
LEMMA KeySteps ==
    ASSUME VideoStep
    PROVE  /\ \/ keyframe' = keyframe
              \/ /\ content' = content /\ plan' = plan /\ board' = board /\ stage = "keyframes"
                 /\ \E i \in Pictures : HashKeyframe(i) \/ ReadKeyframe(i) \/ CheckKeyframe(i)
           /\ (content' = content \/ \E f \in VideoFiles : Replace(f))
           /\ (stage' \in LaterStages /\ ~board'.remote =>
                 /\ plan' = plan /\ board' = board /\ keyframe' = keyframe
                 /\ (stage \in LaterStages \/ (stage = "keyframes" /\ AreAt("loaded") = Keyframes)))
<1>1. CASE \E i \in Pictures : HashKeyframe(i) \/ ReadKeyframe(i)
  BY <1>1 DEF HashKeyframe, ReadKeyframe, LaterStages
<1>2. CASE \E i \in Pictures : CheckKeyframe(i)
  BY <1>2 DEF CheckKeyframe, LaterStages
<1>3. CASE PlanShot \/ AcceptPlan
  BY <1>3 DEF PlanShot, AcceptPlan, LaterStages
<1>4. CASE LoadTokenizer \/ (\E f \in LtxFiles : StampLtx(f) \/ HashLtx(f)) \/ LoadLtx \/ VerifyLtx
  BY <1>4 DEF LoadTokenizer, StampLtx, HashLtx, LoadLtx, VerifyLtx, LaterStages
<1>5. CASE RenderShot \/ EndRendering \/ InterpolateShot \/ EndVideo
  BY <1>5 DEF RenderShot, EndRendering, InterpolateShot, EndVideo, LaterStages
<1>6. CASE \E f \in VideoFiles : Replace(f)
  BY <1>6 DEF Replace
<1>7. CASE UNCHANGED videoVars
  BY <1>7 DEF videoVars
<1>8. QED
  BY <1>1, <1>2, <1>3, <1>4, <1>5, <1>6, <1>7 DEF VideoStep, VideoNext

\* Files only grow older.
LEMMA ContentGrows ==
    ASSUME VideoInv, VideoStep
    PROVE  content' \in [VideoFiles -> 0..MaxReplaced] /\ \A f \in VideoFiles : content[f] \in Nat /\ content[f] <= content'[f]
<1>1. content \in [VideoFiles -> 0..MaxReplaced] /\ MaxReplaced \in Nat
  BY VideoAssumption DEF VideoInv, KeyInv
<1>2. CASE content' = content
  BY <1>1, <1>2
<1>3. CASE \E f \in VideoFiles : Replace(f)
  <2>1. PICK f \in VideoFiles : content[f] < MaxReplaced /\ content' = [content EXCEPT ![f] = @ + 1]
    BY <1>3 DEF Replace
  <2>2. QED
    BY <1>1, <2>1
<1>4. QED
  BY <1>2, <1>3, KeySteps

\* What is said of one picture.
Key1(i) ==
    /\ keyframe[i].digest <= content[i] /\ keyframe[i].pixels <= content[i]
    /\ keyframe[i].step = "read" => keyframe[i].digest <= keyframe[i].pixels
    /\ keyframe[i].step = "loaded" => keyframe[i].digest = keyframe[i].pixels

\* Keyframes are what their files were.
LEMMA KeyNext == ASSUME VideoInv, VideoStep PROVE KeyInv'
<1>1. content' \in [VideoFiles -> 0..MaxReplaced] /\ \A f \in VideoFiles : content[f] \in Nat /\ content[f] <= content'[f]
  BY ContentGrows
<1> DEFINE K == [step : ReadSteps, digest : Nat, pixels : Nat]
<1>2. keyframe \in [Pictures -> K] /\ Pictures \subseteq VideoFiles /\ \A i \in Pictures : Key1(i)
  BY DEF VideoInv, KeyInv, Key1, VideoFiles
<1>3. keyframe' \in [Pictures -> K] /\ \A i \in Pictures : Key1(i)'
  <2>1. CASE keyframe' = keyframe
    <3>1. ASSUME NEW i \in Pictures
          PROVE  Key1(i)'
      <4>1. keyframe[i].digest \in Nat /\ keyframe[i].pixels \in Nat /\ content[i] \in Nat /\ content'[i] \in Nat
            /\ content[i] <= content'[i]
        BY <1>1, <1>2, VideoAssumption
      <4>2. keyframe[i].digest <= content'[i] /\ keyframe[i].pixels <= content'[i]
        BY <1>2, <4>1 DEF Key1
      <4>3. QED
        BY <1>2, <2>1, <4>2 DEF Key1
    <3>2. QED
      BY <1>2, <2>1, <3>1
  <2>2. ASSUME NEW i \in Pictures, HashKeyframe(i) \/ ReadKeyframe(i) \/ CheckKeyframe(i), content' = content,
               keyframe' # keyframe
        PROVE  keyframe' \in [Pictures -> K] /\ \A j \in Pictures : Key1(j)'
    <3>1. PICK old : old = keyframe[i]
      OBVIOUS
    <3>2. old \in K /\ content[i] \in Nat /\ old.digest <= content[i] /\ old.pixels <= content[i]
          /\ (old.step = "read" => old.digest <= old.pixels)
      BY <1>1, <1>2, <3>1 DEF Key1
    <3>3. PICK new \in K : keyframe' = [keyframe EXCEPT ![i] = new] /\ new.digest <= content[i] /\ new.pixels <= content[i]
             /\ (new.step = "read" => new.digest <= new.pixels) /\ (new.step = "loaded" => new.digest = new.pixels)
      <4>1. CASE HashKeyframe(i)
        <5>1. PICK new : new = [old EXCEPT !.step = "hashed", !.digest = content[i]]
          OBVIOUS
        <5>2. new \in K /\ new.digest = content[i] /\ new.pixels = old.pixels /\ new.step = "hashed"
          BY <3>2, <5>1 DEF ReadSteps
        <5>3. keyframe' = [keyframe EXCEPT ![i] = new]
          BY <1>2, <3>1, <4>1, <5>1 DEF HashKeyframe
        <5>4. content[i] <= content[i]
          BY <3>2
        <5>5. QED
          BY <3>2, <5>2, <5>3, <5>4
      <4>2. CASE ReadKeyframe(i)
        <5>1. PICK new : new = [old EXCEPT !.step = "read", !.pixels = content[i]]
          OBVIOUS
        <5>2. new \in K /\ new.digest = old.digest /\ new.pixels = content[i] /\ new.step = "read"
          BY <3>2, <5>1 DEF ReadSteps
        <5>3. keyframe' = [keyframe EXCEPT ![i] = new]
          BY <1>2, <3>1, <4>2, <5>1 DEF ReadKeyframe
        <5>4. content[i] <= content[i]
          BY <3>2
        <5>5. QED
          BY <3>2, <5>2, <5>3, <5>4
      <4>3. CASE CheckKeyframe(i)
        <5>1. PICK new : new = [old EXCEPT !.step = "loaded"]
          OBVIOUS
        <5>2. new \in K /\ new.digest = old.digest /\ new.pixels = old.pixels /\ new.step = "loaded"
          BY <3>2, <5>1 DEF ReadSteps
        <5>3. keyframe' = [keyframe EXCEPT ![i] = new] /\ content[i] = old.digest /\ old.step = "read"
          BY <1>2, <2>2, <3>1, <4>3, <5>1 DEF CheckKeyframe, AreAt
        <5>4. old.digest = old.pixels
          BY <3>2, <5>3
        <5>5. QED
          BY <3>2, <5>2, <5>3, <5>4
      <4>4. QED
        BY <2>2, <4>1, <4>2, <4>3
    <3>4. keyframe' \in [Pictures -> K] /\ keyframe'[i] = new /\ \A j \in Pictures : j # i => keyframe'[j] = keyframe[j]
      BY <1>2, <3>3
    <3>5. ASSUME NEW j \in Pictures
          PROVE  Key1(j)'
      BY <1>2, <2>2, <3>3, <3>4 DEF Key1
    <3>6. QED
      BY <3>4, <3>5
  <2>3. QED
    BY <2>1, <2>2, KeySteps
<1>4. ASSUME stage' \in LaterStages, ~board'.remote, NEW i \in Keyframes'
      PROVE  keyframe'[i].step = "loaded"
  <2>1. plan' = plan /\ board' = board /\ keyframe' = keyframe
        /\ (stage \in LaterStages \/ (stage = "keyframes" /\ AreAt("loaded") = Keyframes))
    BY <1>4, KeySteps
  <2>2. i \in Keyframes
    BY <1>4, <2>1 DEF Keyframes
  <2>3. CASE stage \in LaterStages
    BY <1>4, <2>1, <2>2, <2>3 DEF VideoInv, KeyInv, LaterStages
  <2>4. CASE AreAt("loaded") = Keyframes
    BY <2>1, <2>2, <2>4 DEF AreAt
  <2>5. QED
    BY <2>1, <2>3, <2>4
<1>5. QED
  BY <1>1, <1>3, <1>4 DEF KeyInv, Key1, LaterStages

\* A file that grows older leaves what is said of it.
LEMMA LtxGrows ==
    ASSUME VideoInv, VideoStep, NEW f \in LtxFiles, ltx'[f] = ltx[f]
    PROVE  Ltx1(f)'
<1>1. f \in VideoFiles /\ ltx[f] \in [step : ReadSteps, stamp : Nat, digest : Nat, used : Nat] /\ Ltx1(f)
  BY DEF VideoInv, LtxInv, VideoFiles
<1>2. content[f] \in Nat /\ content'[f] \in Nat /\ content[f] <= content'[f]
  BY <1>1, ContentGrows, VideoAssumption
<1>3. PICK l, c, d : l = ltx[f] /\ c = content[f] /\ d = content'[f]
  OBVIOUS
<1>4. l.stamp \in Nat /\ l.digest \in Nat /\ c \in Nat /\ d \in Nat /\ c <= d
  BY <1>1, <1>2, <1>3
<1>5. /\ l.stamp <= c => l.stamp <= d
      /\ l.digest <= c => l.digest <= d
  BY <1>4
<1>6. QED
  BY <1>1, <1>3, <1>5 DEF Ltx1

\* The weights are of the model that is reported.
LEMMA LtxNext == ASSUME VideoInv, VideoStep PROVE LtxInv'
<1> DEFINE L == [step : ReadSteps, stamp : Nat, digest : Nat, used : Nat]
<1>1. ltx \in [LtxFiles -> L] /\ LtxInv /\ LtxFiles = {"tokenizer", "weights"}
  BY DEF VideoInv, LtxInv, LtxFiles
<1>2. \A f \in LtxFiles : content[f] \in Nat /\ content'[f] \in Nat /\ content[f] <= content'[f]
  <2>1. LtxFiles \subseteq VideoFiles
    BY DEF VideoFiles
  <2>2. QED
    BY <2>1, ContentGrows, VideoAssumption
<1>3. CASE LoadTokenizer
  <2>1. PICK old, new : old = ltx["tokenizer"] /\ new = [old EXCEPT !.used = content["tokenizer"]]
    OBVIOUS
  <2>2. old \in L /\ content["tokenizer"] \in Nat
    BY <1>1, <1>2, <2>1
  <2>3. new \in L /\ new.step = old.step /\ new.stamp = old.stamp /\ new.digest = old.digest
    BY <2>1, <2>2
  <2>4. stage' = "list" /\ content' = content /\ ltx' = [ltx EXCEPT !["tokenizer"] = new]
    BY <1>1, <1>3, <2>1 DEF LoadTokenizer
  <2>5. ltx' \in [LtxFiles -> L] /\ ltx'["tokenizer"] = new /\ ltx'["weights"] = ltx["weights"]
    BY <1>1, <2>3, <2>4
  <2>6. Ltx1("tokenizer")' /\ Ltx1("weights")'
    BY <1>1, <2>1, <2>3, <2>4, <2>5 DEF LtxInv, Ltx1
  <2>7. QED
    BY <1>1, <2>4, <2>5, <2>6 DEF LtxInv
<1>4. ASSUME NEW f \in LtxFiles, StampLtx(f) \/ HashLtx(f)
      PROVE  LtxInv'
  <2>1. PICK old, c : old = ltx[f] /\ c = content[f]
    OBVIOUS
  <2>2. old \in L /\ c \in Nat /\ (old.step = "stamped" => old.stamp <= c)
    BY <1>1, <1>2, <2>1 DEF LtxInv, Ltx1
  <2>3. PICK new \in L :
           /\ ltx' = [ltx EXCEPT ![f] = new] /\ new.step \in {"stamped", "hashed"} /\ new.stamp <= c
           /\ new.step = "hashed" => new.stamp <= new.digest /\ new.digest <= c
    <3>1. CASE StampLtx(f)
      <4>1. PICK new : new = [old EXCEPT !.step = "stamped", !.stamp = c]
        OBVIOUS
      <4>2. new \in L /\ new.step = "stamped" /\ new.stamp = c
        BY <2>2, <4>1 DEF ReadSteps
      <4>3. ltx' = [ltx EXCEPT ![f] = new]
        BY <1>1, <2>1, <3>1, <4>1 DEF StampLtx
      <4>4. c <= c
        BY <2>2
      <4>5. QED
        BY <4>2, <4>3, <4>4
    <3>2. CASE HashLtx(f)
      <4>1. PICK new : new = [old EXCEPT !.step = "hashed", !.digest = c]
        OBVIOUS
      <4>2. new \in L /\ new.step = "hashed" /\ new.stamp = old.stamp /\ new.digest = c
        BY <2>2, <4>1 DEF ReadSteps
      <4>3. ltx' = [ltx EXCEPT ![f] = new] /\ old.step = "stamped"
        BY <1>1, <2>1, <3>2, <4>1 DEF HashLtx
      <4>4. old.stamp <= c /\ c <= c
        BY <2>2, <4>3
      <4>5. QED
        BY <4>2, <4>3, <4>4
    <3>3. QED
      BY <1>4, <3>1, <3>2
  <2>4. stage = "list" /\ stage' = "list" /\ content' = content
    BY <1>4 DEF StampLtx, HashLtx
  <2>5. ltx' \in [LtxFiles -> L] /\ ltx'[f] = new /\ \A g \in LtxFiles : g # f => ltx'[g] = ltx[g]
    BY <1>1, <2>3
  <2>6. Ltx1(f)'
    BY <2>1, <2>3, <2>4, <2>5 DEF Ltx1
  <2>7. \A g \in LtxFiles : Ltx1(g)'
    BY <2>5, <2>6, LtxGrows
  <2>8. QED
    BY <2>4, <2>5, <2>7 DEF LtxInv
<1>5. CASE LoadLtx
  <2>1. PICK old, c, new : old = ltx["weights"] /\ c = content["weights"] /\ new = [old EXCEPT !.used = c]
    <3>1. PICK old, c : old = ltx["weights"] /\ c = content["weights"]
      OBVIOUS
    <3>2. QED
      BY <3>1
  <2>2. old \in L /\ c \in Nat /\ old.step = "hashed" /\ old.digest <= c
    BY <1>1, <1>2, <1>5, <2>1 DEF LtxInv, Ltx1, LoadLtx
  <2>3. new \in L /\ new.step = old.step /\ new.stamp = old.stamp /\ new.digest = old.digest /\ new.used = c
    BY <2>1, <2>2
  <2>4. stage' = "verify" /\ content' = content /\ ltx' = [ltx EXCEPT !["weights"] = new]
        /\ \A f \in LtxFiles : ltx[f].step = "hashed"
    BY <1>1, <1>5, <2>1 DEF LoadLtx
  <2>5. ltx' \in [LtxFiles -> L] /\ ltx'["weights"] = new /\ ltx'["tokenizer"] = ltx["tokenizer"]
    BY <1>1, <2>3, <2>4
  <2>6. Ltx1("tokenizer")' /\ Ltx1("weights")'
    BY <1>1, <2>1, <2>3, <2>4, <2>5 DEF LtxInv, Ltx1
  <2>7. \A f \in LtxFiles : ltx'[f].step = "hashed"
    BY <1>1, <2>1, <2>3, <2>4, <2>5
  <2>8. c <= c
    BY <2>2
  <2>9. ltx'["weights"].digest <= ltx'["weights"].used /\ ltx'["weights"].used <= content'["weights"]
    BY <2>1, <2>2, <2>3, <2>4, <2>5, <2>8
  <2>10. QED
    BY <1>1, <2>4, <2>5, <2>6, <2>7, <2>9 DEF LtxInv
<1>6. CASE ltx' = ltx
  <2>1. ltx' \in [LtxFiles -> L] /\ \A f \in LtxFiles : Ltx1(f)'
    BY <1>1, <1>6, LtxGrows
  <2>2. CASE VerifyLtx
    <3>1. stage = "verify" /\ content' = content /\ board' = board
          /\ stage' \in {"render", "failed"} /\ (stage' = "render" => board.remote \/ content["weights"] = ltx["weights"].stamp)
      BY <1>1, <2>2 DEF VerifyLtx, ModelStill
    <3>2. PICK l, c : l = ltx["weights"] /\ c = content["weights"]
      OBVIOUS
    <3>3. ~board.remote => /\ l \in L /\ c \in Nat /\ l.stamp <= l.digest /\ l.digest <= c
                           /\ l.digest <= l.used /\ l.used <= c
      BY <1>1, <1>2, <3>1, <3>2 DEF LtxInv, Ltx1
    <3>4. ~board.remote /\ stage' = "render" => l.digest = l.used
      BY <3>1, <3>2, <3>3
    <3>5. QED
      BY <1>1, <1>6, <2>1, <3>1, <3>2, <3>4 DEF LtxInv
  <2>3. CASE AcceptPlan
    <3>1. board' = board /\ stage' \in {"keyframes", "refused", "render"} /\ (stage' = "render" => board.remote)
      BY <2>3 DEF AcceptPlan
    <3>2. QED
      BY <2>1, <3>1 DEF LtxInv
  <2>4. CASE EndVideo
    <3>1. /\ stage = "interpolate" /\ stage' \in {"done", "failed"} /\ board' = board /\ content' = content
          /\ stage' = "done" /\ ~board.remote => \A f \in LtxFiles : content[f] = ltx[f].stamp
      BY <2>4 DEF EndVideo, ModelStill
    <3>2. ~board.remote => (\A f \in LtxFiles : ltx[f].step = "hashed") /\ ltx["weights"].digest = ltx["weights"].used
      BY <1>1, <3>1 DEF LtxInv
    <3>3. ASSUME stage' = "done", ~board.remote, NEW f \in LtxFiles
          PROVE  ltx[f].digest = content[f]
      <4>1. PICK l, c : l = ltx[f] /\ c = content[f]
        OBVIOUS
      <4>2. l \in L /\ c \in Nat /\ l.stamp <= l.digest /\ l.digest <= c /\ c = l.stamp
        BY <1>1, <1>2, <3>1, <3>2, <3>3, <4>1 DEF LtxInv, Ltx1
      <4>3. l.digest = c
        BY <4>2
      <4>4. QED
        BY <4>1, <4>3
    <3>4. QED
      BY <1>6, <2>1, <3>1, <3>2, <3>3 DEF LtxInv
  <2>5. CASE /\ board' = board /\ ~(stage' \in {"verify", "done"})
             /\ stage' \in {"render", "interpolate"} => stage \in {"render", "interpolate"}
    BY <1>1, <1>6, <2>1, <2>5 DEF LtxInv
  <2>6. CASE board' = board /\ stage' = stage /\ (stage = "done" => content' = content)
    <3>1. PICK l, c, d : l = ltx["weights"] /\ c = content["weights"] /\ d = content'["weights"]
      OBVIOUS
    <3>2. l \in L /\ c \in Nat /\ d \in Nat /\ c <= d
      BY <1>1, <1>2, <3>1
    <3>3. l.used <= c => l.used <= d
      BY <3>2
    <3>4. QED
      BY <1>1, <1>6, <2>1, <2>6, <3>1, <3>3 DEF LtxInv
  <2>7. CASE PlanShot \/ RenderShot \/ EndRendering \/ InterpolateShot
    BY <2>5, <2>7 DEF PlanShot, RenderShot, EndRendering, InterpolateShot
  <2>8. CASE \E i \in Pictures : HashKeyframe(i) \/ ReadKeyframe(i) \/ CheckKeyframe(i)
    BY <2>5, <2>8 DEF HashKeyframe, ReadKeyframe, CheckKeyframe
  <2>9. CASE (\E f \in VideoFiles : Replace(f)) \/ UNCHANGED videoVars
    BY <2>6, <2>9 DEF Replace, videoVars
  <2>10. CASE LoadTokenizer \/ LoadLtx \/ \E f \in LtxFiles : StampLtx(f) \/ HashLtx(f)
    BY <1>3, <1>4, <1>5, <2>10
  <2>11. QED
    BY <2>2, <2>3, <2>4, <2>7, <2>8, <2>9, <2>10 DEF VideoStep, VideoNext
<1>7. CASE ltx' # ltx
  <2>1. LoadTokenizer \/ LoadLtx \/ \E f \in LtxFiles : StampLtx(f) \/ HashLtx(f)
    BY <1>7 DEF VideoStep, VideoNext, PlanShot, AcceptPlan, VerifyLtx, HashKeyframe, ReadKeyframe, CheckKeyframe,
           RenderShot, EndRendering, InterpolateShot, EndVideo, Replace, videoVars
  <2>2. QED
    BY <1>3, <1>4, <1>5, <2>1
<1>8. QED
  BY <1>6, <1>7

\* It holds when a command starts.
LEMMA VideoStart == ASSUME VideoInit PROVE VideoInv
<1>1. IsBoard(board)
  BY VideoAssumption DEF VideoInit
<1>2. PlanInv
  <2>1. plan = <<>>
    BY DEF VideoInit
  <2>2. Len(board.shots) \in Nat
    BY <1>1 DEF IsBoard
  <2>3. QED
    BY <1>1, <2>1, <2>2 DEF PlanInv
<1>3. RenderInv
  BY DEF VideoInit, RenderInv, VideoStages
<1>4. FrameInv
  <2>1. frames = <<>> /\ plan = <<>> /\ stage = "plan"
    BY DEF VideoInit
  <2>2. Tells(frames, 0)
    BY <2>1, TellsNothing
  <2>3. QED
    BY <2>1, <2>2 DEF FrameInv
<1>5. KeyInv
  BY VideoAssumption DEF VideoInit, KeyInv, ReadSteps, VideoFiles
<1>6. LtxInv
  BY DEF VideoInit, LtxInv, Ltx1, ReadSteps
<1>7. QED
  BY <1>2, <1>3, <1>4, <1>5, <1>6 DEF VideoInv

\* Every step keeps the invariant.
LEMMA VideoInvNext == ASSUME VideoInv, VideoStep PROVE VideoInv'
  BY PlanNext, RenderNext, FrameNext, KeyNext, LtxNext DEF VideoInv
-----------------------------------------------------------------------------
(* What it says of the video. *)

\* The record of a frame that was sampled.
Sampled(k, l) == [index |-> plan[k].start + l, shot |-> k, pixels |-> <<k, IndexOf(plan[k].positions, l)>>,
                  sources |-> {plan[k].start + l}, fraction |-> <<0, 1>>]

\* In a video that is made every frame of a shot is where the plan has it.
LEMMA MadeFrames ==
    ASSUME VideoInv, stage = "done", NEW k \in 1..Len(plan), NEW l \in 0..plan[k].frames - 1
    PROVE  /\ plan[k].start + l + 1 \in DOMAIN frames
           /\ FrameAt(plan[k].start + l) = Record(k, l)
           /\ l \in plan[k].positions => FrameAt(plan[k].start + l) = Sampled(k, l)
<1>1. PlanInv /\ Len(frames) = End(plan) /\ Len(plan) \in Nat
  BY DEF VideoInv, FrameInv, PlanInv
<1>2. PICK m \in 0..Len(plan) : Tells(frames, m)
  BY DEF VideoInv, FrameInv
<1>3. m = Len(plan)
  <2>1. EndAt(m) = EndAt(Len(plan)) /\ EndAt(m) \in Nat
    BY <1>1, <1>2, ShotsFollow DEF Tells
  <2>2. ~(EndAt(m) + 2 <= EndAt(Len(plan)))
    BY <2>1
  <2>3. m = Len(plan) \/ m < Len(plan)
    BY <1>1
  <2>4. Len(plan) \in 0..Len(plan)
    BY <1>1
  <2>5. QED
    BY <1>1, <2>2, <2>3, <2>4, ShotsFollow
<1>4. PICK j : j = plan[k].start + l
  OBVIOUS
<1>5. j \in Nat /\ frames[j + 1] = Record(k, l)
  <2>1. plan[k].start \in Nat /\ plan[k].frames \in Nat
    BY <1>1, ShotFacts
  <2>2. QED
    BY <1>2, <1>3, <1>4, <2>1 DEF Tells
<1>6. j + 1 \in DOMAIN frames
  <2>1. DOMAIN frames = 1..Len(frames)
    BY <1>2 DEF Tells
  <2>2. j + 1 <= EndAt(k) /\ EndAt(k) \in Nat
    <3>1. plan[k].start \in Nat /\ plan[k].frames \in Nat
      BY <1>1, ShotFacts
    <3>2. EndAt(k) = plan[k].start + plan[k].frames
      BY <1>1 DEF EndAt
    <3>3. QED
      BY <1>4, <3>1, <3>2
  <2>3. EndAt(k) <= EndAt(Len(plan)) /\ EndAt(Len(plan)) \in Nat
    <3>1. k \in 0..Len(plan) /\ Len(plan) \in 0..Len(plan) /\ (k = Len(plan) \/ k < Len(plan))
      BY <1>1
    <3>2. EndAt(Len(plan)) \in Nat /\ EndAt(k) \in Nat
      BY <1>1, <3>1, ShotsFollow
    <3>3. k = Len(plan) \/ EndAt(k) + 2 <= EndAt(Len(plan))
      BY <1>1, <3>1, ShotsFollow
    <3>4. QED
      BY <3>2, <3>3
  <2>4. Len(frames) = EndAt(Len(plan))
    BY <1>1, ShotsFollow
  <2>5. QED
    BY <1>5, <2>1, <2>2, <2>3, <2>4
<1>7. l \in plan[k].positions => Record(k, l) = Sampled(k, l)
  <2>1. rendered[k] = Pass(k)
    BY DEF VideoInv, RenderInv
  <2>2. rendered[k].frames = Sample(k)
    BY <2>1 DEF Pass
  <2>3. l \in plan[k].positions => rendered[k].frames[l] = <<k, IndexOf(plan[k].positions, l)>>
    BY <2>2 DEF Sample
  <2>4. QED
    BY <2>3 DEF Record, Anchor, Sampled
<1>8. QED
  BY <1>4, <1>5, <1>6, <1>7 DEF FrameAt

\* A frame of shot k, where it is and of what.
FrameOK(f, k) ==
    LET shot == plan[k] IN
    /\ f.shot = k
    /\ f.sources \subseteq shot.start..shot.start + shot.frames - 1
    /\ \A s \in f.sources : FrameAt(s).sources = {s} /\ FrameAt(s).pixels = <<k, IndexOf(shot.positions, s - shot.start)>>
    /\ f.sources # {f.index} => \E lo, hi \in f.sources :
           /\ lo < f.index /\ f.index < hi /\ f.sources = {lo, hi} /\ hi - lo <= Spacing
           /\ f.fraction = <<f.index - lo, hi - lo>>
           /\ \A s \in lo + 1..hi - 1 : FrameAt(s).sources # {s}

\* A frame that was sampled is of its shot and time.
LEMMA SampledOK ==
    ASSUME VideoInv, stage = "done", NEW k \in 1..Len(plan), NEW l \in plan[k].positions
    PROVE  FrameOK(Sampled(k, l), k)
<1>1. PICK f, a : f = Sampled(k, l) /\ a = plan[k].start
  OBVIOUS
<1>2. a \in Nat /\ l \in 0..plan[k].frames - 1 /\ plan[k].frames \in Nat
  BY <1>1, ShotFacts DEF VideoInv
<1>3. f.sources = {a + l} /\ f.index = a + l /\ f.shot = k /\ f.pixels = <<k, IndexOf(plan[k].positions, l)>>
  BY <1>1 DEF Sampled
<1>4. FrameAt(a + l) = f
  BY <1>1, <1>2, MadeFrames
<1>5. a + l - a = l /\ a + l \in a..a + plan[k].frames - 1
  BY <1>2
<1>6. f.sources = {f.index} /\ f.sources \subseteq a..a + plan[k].frames - 1
  BY <1>3, <1>5
<1>7. \A s \in f.sources : FrameAt(s).sources = {s} /\ FrameAt(s).pixels = <<k, IndexOf(plan[k].positions, s - a)>>
  <2>1. ASSUME NEW s \in f.sources
        PROVE  FrameAt(s).sources = {s} /\ FrameAt(s).pixels = <<k, IndexOf(plan[k].positions, s - a)>>
    <3>0. s = a + l
      BY <1>3
    <3>1. s = a + l /\ s - a = l
      BY <1>2, <3>0
    <3>2. QED
      BY <1>3, <1>4, <3>1
  <2>2. QED
    BY <2>1
<1>8. QED
  BY <1>1, <1>3, <1>6, <1>7 DEF FrameOK

\* So is one that is interpolated between two.
LEMMA BetweenOK ==
    ASSUME VideoInv, stage = "done", NEW k \in 1..Len(plan), NEW l \in 0..plan[k].frames - 1, l \notin plan[k].positions
    PROVE  FrameOK(Between(k, l), k)
<1>1. PICK f, a, S, n : f = Between(k, l) /\ a = plan[k].start /\ S = plan[k].positions /\ n = plan[k].frames
  OBVIOUS
<1>2. a \in Nat /\ S \subseteq 0..n - 1 /\ n \in Nat
  BY <1>1, ShotFacts DEF VideoInv
<1>3. PICK lo, hi \in S :
         /\ lo < l /\ l < hi /\ hi - lo <= Spacing
         /\ \A p \in S : ~(lo < p /\ p < hi)
         /\ f = [index |-> a + l, shot |-> k, pixels |-> NotSaid, sources |-> {a + lo, a + hi},
                 fraction |-> <<l - lo, hi - lo>>]
  BY <1>1, BetweenFacts DEF VideoInv
<1>4. lo \in 0..n - 1 /\ hi \in 0..n - 1 /\ l \in 0..n - 1
  BY <1>1, <1>2
<1>5. ASSUME NEW p \in {lo, hi}
      PROVE  /\ a + p \in a..a + n - 1 /\ FrameAt(a + p).sources = {a + p}
             /\ FrameAt(a + p).pixels = <<k, IndexOf(S, a + p - a)>>
  <2>1. p \in S /\ p \in 0..n - 1
    BY <1>4
  <2>2. FrameAt(a + p) = Sampled(k, p)
    BY <1>1, <2>1, MadeFrames
  <2>3. a + p - a = p /\ a + p \in a..a + n - 1
    BY <1>2, <2>1
  <2>4. QED
    BY <1>1, <2>2, <2>3 DEF Sampled
<1>z. PICK x, y : x = a + lo /\ y = a + hi
  OBVIOUS
<1>6. ASSUME NEW s \in x + 1..y - 1
      PROVE  FrameAt(s).sources # {s}
  <2>1. PICK p : p = s - a
    OBVIOUS
  <2>2. p \in 0..n - 1 /\ lo < p /\ p < hi /\ s = a + p /\ p \in Int
    BY <1>2, <1>4, <1>z, <2>1
  <2>3. p \notin S
    BY <1>3, <2>2
  <2>4. FrameAt(s) = Between(k, p)
    BY <1>1, <2>2, <2>3, MadeFrames DEF Record
  <2>5. PICK u, v \in S : u < p /\ p < v /\ Between(k, p).sources = {a + u, a + v}
    BY <1>1, <2>2, <2>3, BetweenFacts DEF VideoInv
  <2>6. a + u # s
    BY <1>2, <2>2, <2>5
  <2>7. QED
    BY <2>4, <2>5, <2>6
<1>7. f.sources = {a + lo, a + hi} /\ f.index = a + l /\ f.shot = k /\ f.fraction = <<l - lo, hi - lo>>
  BY <1>3
<1>8. \E u, v \in f.sources :
         /\ u < f.index /\ f.index < v /\ f.sources = {u, v} /\ v - u <= Spacing
         /\ f.fraction = <<f.index - u, v - u>>
         /\ \A s \in u + 1..v - 1 : FrameAt(s).sources # {s}
  <2>1. x < a + l /\ a + l < y /\ y - x = hi - lo /\ a + l - x = l - lo
    BY <1>2, <1>3, <1>4, <1>z
  <2>2. x < f.index /\ f.index < y /\ y - x = hi - lo /\ f.index - x = l - lo
    <3>1. f.index = a + l
      BY <1>7
    <3>2. PICK i : i = f.index
      OBVIOUS
    <3>3. x < i /\ i < y /\ i - x = l - lo
      BY <1>2, <1>4, <1>z, <2>1, <3>1, <3>2
    <3>4. QED
      BY <2>1, <3>2, <3>3
  <2>3. f.fraction = <<f.index - x, y - x>>
    BY <1>7, <2>2
  <2>4. x \in f.sources /\ y \in f.sources /\ f.sources = {x, y}
    BY <1>7, <1>z
  <2>5. y - x <= Spacing
    BY <1>3, <2>2
  <2>6. \A s \in x + 1..y - 1 : FrameAt(s).sources # {s}
    BY <1>6
  <2>7. QED
    BY <2>2, <2>3, <2>4, <2>5, <2>6
<1>9. f.sources \subseteq a..a + n - 1 /\ \A s \in f.sources : FrameAt(s).sources = {s} /\ FrameAt(s).pixels = <<k, IndexOf(S, s - a)>>
  <2>1. ASSUME NEW s \in f.sources
        PROVE  s \in a..a + n - 1 /\ FrameAt(s).sources = {s} /\ FrameAt(s).pixels = <<k, IndexOf(S, s - a)>>
    <3>1. PICK p \in {lo, hi} : s = a + p
      BY <1>7
    <3>2. s - a = a + p - a
      BY <1>2, <1>4, <3>1
    <3>3. a + p \in a..a + n - 1 /\ FrameAt(a + p).sources = {a + p} /\ FrameAt(a + p).pixels = <<k, IndexOf(S, a + p - a)>>
      BY <1>5
    <3>4. QED
      BY <3>1, <3>2, <3>3, Zenon
  <2>2. QED
    BY <2>1
<1>10. QED
  BY <1>1, <1>7, <1>8, <1>9 DEF FrameOK

\* Every frame of the video is there, in its place.
LEMMA TimelineHolds == ASSUME VideoInv PROVE TimelineIsWhole
<1> SUFFICES ASSUME stage = "done"
             PROVE  /\ Len(frames) = End(plan)
                    /\ \A i \in DOMAIN frames : frames[i].index = i - 1 /\ FrameOK(frames[i], frames[i].shot)
  BY DEF TimelineIsWhole, FrameOK
<1>1. PlanInv /\ Len(frames) = End(plan) /\ Len(plan) \in Nat
  BY DEF VideoInv, FrameInv, PlanInv
<1>2. ASSUME NEW i \in DOMAIN frames
      PROVE  frames[i].index = i - 1 /\ FrameOK(frames[i], frames[i].shot)
  <2>1. PICK m \in 0..Len(plan) : Tells(frames, m)
    BY DEF VideoInv, FrameInv
  <2>2. i \in 1..End(plan) /\ End(plan) \in Nat
    <3>1. DOMAIN frames = 1..Len(frames) /\ Len(frames) \in Nat
      BY <2>1 DEF Tells
    <3>2. QED
      BY <1>1, <3>1
  <2>3. i - 1 \in 0..End(plan) - 1 /\ i - 1 + 1 = i
    BY <2>2
  <2>4. PICK k \in 1..Len(plan) : \E l \in 0..plan[k].frames - 1 : i - 1 = plan[k].start + l
    BY <1>1, <2>3, ShotOfFrame
  <2>5. PICK l \in 0..plan[k].frames - 1 : i - 1 = plan[k].start + l
    BY <2>4
  <2>6. frames[i] = Record(k, l)
    <3>1. FrameAt(plan[k].start + l) = Record(k, l)
      BY MadeFrames
    <3>2. QED
      BY <2>3, <2>5, <3>1 DEF FrameAt
  <2>7. CASE l \in plan[k].positions
    <3>1. frames[i] = Sampled(k, l)
      BY <2>3, <2>5, <2>7, MadeFrames DEF FrameAt
    <3>2. FrameOK(frames[i], k)
      BY <2>7, <3>1, SampledOK
    <3>3. frames[i].index = i - 1 /\ frames[i].shot = k
      BY <2>5, <3>1 DEF Sampled
    <3>4. QED
      BY <3>2, <3>3
  <2>8. CASE l \notin plan[k].positions
    <3>1. frames[i] = Between(k, l)
      BY <2>6, <2>8 DEF Record
    <3>2. FrameOK(frames[i], k)
      BY <2>8, <3>1, BetweenOK
    <3>3. frames[i].index = i - 1 /\ frames[i].shot = k
      BY <2>5, <3>1 DEF Between
    <3>4. QED
      BY <3>2, <3>3
  <2>9. QED
    BY <2>7, <2>8
<1>3. QED
  BY <1>1, <1>2

\* The images a shot was conditioned on, for the sample a frame is made of.
Conditions(k, f) == {c[1] : c \in {c \in rendered[k].images : FrameAt(plan[k].start + f).pixels = <<k, c[2]>>}}

\* A keyframe is at its frame, and a shot continues the one before it.
LEMMA KeyframesOfShot ==
    ASSUME VideoInv, stage = "done", NEW k \in 1..Len(plan)
    PROVE  /\ \A i \in DOMAIN Given1(k) : Conditions(k, Given1(k)[i].frame) = {Given1(k)[i].image}
           /\ board.shots[k].continues => Conditions(k, 0) = {FrameAt(plan[k].start - 1).pixels}
           /\ Cardinality(rendered[k].images) = Len(Given1(k)) + (IF board.shots[k].continues THEN 1 ELSE 0)
<1>0. PICK S, n, cs, a : S = plan[k].positions /\ n = plan[k].frames /\ cs = Given1(k) /\ a = plan[k].start
  OBVIOUS
<1>1. /\ a \in Nat /\ n \in Nat /\ 2 <= n /\ S \subseteq 0..n - 1 /\ 0 \in S
      /\ \A i \in 1..Len(cs) : cs[i].frame \in S
      /\ \A i, j \in 1..Len(cs) : cs[i].frame = cs[j].frame => i = j
  BY <1>0, ShotFacts DEF VideoInv
<1>2. Len(cs) \in Nat /\ DOMAIN cs = 1..Len(cs)
  <2>1. cs \in Seq([image : Pictures, frame : Int])
    BY <1>0, ShotFacts DEF VideoInv
  <2>2. QED
    BY <2>1
<1>3. PICK o : o = [i \in 1..Len(cs) |-> IndexOf(S, cs[i].frame)]
  OBVIOUS
<1>4. /\ \A i \in 1..Len(cs) : o[i] = IndexOf(S, cs[i].frame)
      /\ \A i, j \in 1..Len(cs) : o[i] = o[j] => i = j
      /\ \A i \in 1..Len(cs) : o[i] = 0 => cs[i].frame = 0
      /\ IndexOf(S, 0) = 0
  <2>1. InOrder(S, n)
    BY <1>0, PositionsInOrder DEF VideoInv
  <2>2. QED
    BY <1>1, <1>3, <2>1 DEF InOrder
<1>5. /\ plan[k].continues = board.shots[k].continues
      /\ plan[k].conditions = {[image |-> cs[i].image, source |-> o[i]] : i \in 1..Len(cs)}
      /\ board.shots[k].continues => k # 1 /\ 0 \notin FramesOf(cs)
  <2>1. ShotOK(k)
    BY DEF VideoInv, PlanInv
  <2>2. QED
    BY <1>0, <1>2, <1>4, <2>1 DEF ShotOK
<1>6. PICK own, start, I :
         /\ own = {<<cs[i].image, o[i]>> : i \in 1..Len(cs)}
         /\ start = IF plan[k].continues THEN {<<Previous(k), 0>>} ELSE {}
         /\ I = own \cup start
  <2>1. PICK own, start :
           /\ own = {<<cs[i].image, o[i]>> : i \in 1..Len(cs)}
           /\ start = IF plan[k].continues THEN {<<Previous(k), 0>>} ELSE {}
    OBVIOUS
  <2>2. QED
    BY <2>1
<1>7. rendered[k].images = I
  <2>1. rendered[k] = Pass(k)
    BY DEF VideoInv, RenderInv
  <2>2. {<<c.image, c.source>> : c \in plan[k].conditions} = own
    <3>1. PICK D : D = plan[k].conditions
      OBVIOUS
    <3>2. D = {[image |-> cs[i].image, source |-> o[i]] : i \in 1..Len(cs)}
      BY <1>5, <3>1
    <3>3. ASSUME NEW c \in D
          PROVE  <<c.image, c.source>> \in own
      BY <1>6, <3>2
    <3>4. ASSUME NEW w \in own
          PROVE  \E c \in D : w = <<c.image, c.source>>
      <4>1. PICK i \in 1..Len(cs) : w = <<cs[i].image, o[i]>>
        BY <1>6
      <4>2. PICK c : c = [image |-> cs[i].image, source |-> o[i]]
        OBVIOUS
      <4>3. c \in D /\ w = <<c.image, c.source>>
        BY <3>2, <4>1, <4>2
      <4>4. QED
        BY <4>3
    <3>5. QED
      BY <3>1, <3>3, <3>4
  <2>3. QED
    BY <1>6, <2>1, <2>2 DEF Pass
<1>8. \A f \in S : FrameAt(a + f).pixels = <<k, IndexOf(S, f)>>
  <2>1. ASSUME NEW f \in S
        PROVE  FrameAt(a + f).pixels = <<k, IndexOf(S, f)>>
    <3>1. f \in 0..n - 1
      BY <1>1
    <3>2. FrameAt(a + f) = Sampled(k, f)
      BY <1>0, <3>1, MadeFrames
    <3>3. QED
      BY <1>0, <3>2 DEF Sampled
  <2>2. QED
    BY <2>1
<1>9. \A f \in S : Conditions(k, f) = {c[1] : c \in {c \in I : c[2] = IndexOf(S, f)}}
  <2>1. ASSUME NEW f \in S
        PROVE  Conditions(k, f) = {c[1] : c \in {c \in I : c[2] = IndexOf(S, f)}}
    <3>1. PICK x, y : x = FrameAt(a + f).pixels /\ y = IndexOf(S, f)
      OBVIOUS
    <3>2. x = <<k, y>>
      BY <1>8, <3>1
    <3>3. \A z : x = <<k, z>> <=> z = y
      BY <3>2
    <3>4. {c \in I : x = <<k, c[2]>>} = {c \in I : c[2] = y}
      BY <3>3
    <3>5. Conditions(k, f) = {c[1] : c \in {c \in I : x = <<k, c[2]>>}}
      BY <1>0, <1>7, <3>1 DEF Conditions
    <3>6. QED
      BY <3>1, <3>4, <3>5
  <2>2. QED
    BY <2>1
<1>10. ASSUME board.shots[k].continues, NEW i \in 1..Len(cs)
       PROVE  o[i] # 0
  <2>1. cs[i].frame # 0
    BY <1>2, <1>5, <1>10 DEF FramesOf
  <2>2. QED
    BY <1>4, <2>1
<1>11. ASSUME NEW i \in 1..Len(cs)
       PROVE  Conditions(k, cs[i].frame) = {cs[i].image}
  <2>1. PICK x, y : x = cs[i].image /\ y = o[i]
    OBVIOUS
  <2>2. Conditions(k, cs[i].frame) = {c[1] : c \in {c \in I : c[2] = y}}
    <3>1. PICK f : f = cs[i].frame
      OBVIOUS
    <3>2. f \in S /\ IndexOf(S, f) = y
      BY <1>1, <1>4, <2>1, <3>1
    <3>3. Conditions(k, f) = {c[1] : c \in {c \in I : c[2] = IndexOf(S, f)}}
      BY <1>9, <3>2
    <3>4. QED
      BY <3>1, <3>2, <3>3
  <2>3. \A c \in own : c[2] = y => c = <<x, y>>
    <3>1. ASSUME NEW j \in 1..Len(cs), o[j] = y
          PROVE  j = i
      BY <1>4, <2>1, <3>1
    <3>2. QED
      BY <1>6, <2>1, <3>1
  <2>4. \A c \in start : c[2] # y
    <3>1. \A c \in start : plan[k].continues /\ c[2] = 0
      BY <1>6
    <3>2. QED
      BY <1>5, <1>10, <2>1, <3>1
  <2>5. <<x, y>> \in own
    BY <1>6, <2>1
  <2>6. {c \in I : c[2] = y} = {<<x, y>>}
    BY <1>6, <2>3, <2>4, <2>5
  <2>7. PICK H : H = {c \in I : c[2] = y}
    OBVIOUS
  <2>8. H = {<<x, y>>} /\ <<x, y>>[1] = x
    BY <2>6, <2>7
  <2>9. {c[1] : c \in H} = {x}
    BY <2>8
  <2>10. QED
    BY <2>1, <2>2, <2>7, <2>9
<1>12. ASSUME board.shots[k].continues
       PROVE  Conditions(k, 0) = {FrameAt(plan[k].start - 1).pixels}
  <2>1. PICK p : p = Previous(k)
    OBVIOUS
  <2>2. Conditions(k, 0) = {c[1] : c \in {c \in I : c[2] = 0}}
    BY <1>1, <1>4, <1>9
  <2>3. \A c \in own : c[2] # 0
    BY <1>6, <1>10, <1>12
  <2>4. start = {<<p, 0>>}
    BY <1>5, <1>6, <1>12, <2>1
  <2>5. {c \in I : c[2] = 0} = {<<p, 0>>}
    BY <1>6, <2>3, <2>4
  <2>6. Conditions(k, 0) = {p}
    <3>1. PICK H : H = {c \in I : c[2] = 0}
      OBVIOUS
    <3>2. H = {<<p, 0>>} /\ <<p, 0>>[1] = p
      BY <2>5, <3>1
    <3>3. {c[1] : c \in H} = {p}
      BY <3>2
    <3>4. QED
      BY <2>2, <3>1, <3>3
  <2>7. FrameAt(plan[k].start - 1).pixels = p
    <3>1. PICK j, b, T, q : j = k - 1 /\ b = plan[j].start /\ T = plan[j].positions /\ q = plan[j].frames - 1
      <4>1. PICK j : j = k - 1
        OBVIOUS
      <4>2. QED
        BY <4>1
    <3>2. j \in 1..Len(plan) /\ Len(plan) \in Nat
      BY <1>5, <1>12, <3>1 DEF VideoInv, PlanInv
    <3>3. b \in Nat /\ plan[j].frames \in Nat /\ 2 <= plan[j].frames /\ q \in T
      BY <3>1, <3>2, ShotFacts DEF VideoInv
    <3>4. q \in 0..plan[j].frames - 1
      BY <3>1, <3>3
    <3>5. FrameAt(b + q) = Sampled(j, q)
      BY <3>1, <3>2, <3>3, <3>4, MadeFrames
    <3>6. plan[k].start - 1 = b + q
      <4>1. plan[k].start = EndAt(k - 1) /\ EndAt(j) = b + plan[j].frames
        <5>1. plan[k].start = EndAt(k - 1)
          BY ShotsFollow DEF VideoInv
        <5>2. EndAt(j) = plan[j].start + plan[j].frames
          BY <3>2 DEF EndAt
        <5>3. QED
          BY <3>1, <5>1, <5>2
      <4>2. plan[k].start = b + plan[j].frames
        BY <3>1, <4>1
      <4>3. b \in Nat /\ plan[j].frames \in Nat /\ q = plan[j].frames - 1
        BY <3>1, <3>3
      <4>4. QED
        BY <4>2, <4>3
    <3>7. IndexOf(T, q) = Cardinality(T) - 1
      <4>1. InOrder(plan[j].positions, plan[j].frames)
        BY <3>2, PositionsInOrder DEF VideoInv
      <4>2. QED
        BY <3>1, <4>1 DEF InOrder
    <3>8. p = <<j, Cardinality(T) - 1>>
      BY <2>1, <3>1 DEF Previous
    <3>9. FrameAt(b + q).pixels = <<j, IndexOf(T, q)>>
      BY <3>1, <3>5 DEF Sampled
    <3>10. QED
      BY <3>6, <3>7, <3>8, <3>9
  <2>8. QED
    BY <2>6, <2>7
<1>13. IsFiniteSet(own) /\ Cardinality(own) = Len(cs)
  <2>1. PICK g : g = [i \in 1..Len(cs) |-> <<cs[i].image, o[i]>>]
    OBVIOUS
  <2>2. IsFiniteSet(1..Len(cs)) /\ Cardinality(1..Len(cs)) = Len(cs)
    BY <1>2, FirstNumbers
  <2>3. g \in Surjection(1..Len(cs), own)
    BY <1>6, <2>1 DEF Surjection
  <2>4. \A i, j \in 1..Len(cs) : g[i] = g[j] => i = j
    BY <1>4, <2>1
  <2>5. g \in Injection(1..Len(cs), own)
    BY <2>3, <2>4 DEF Surjection, Injection, IsInjective
  <2>6. QED
    BY <2>2, <2>3, <2>5, FS_Surjection
<1>14. Cardinality(I) = Len(cs) + (IF board.shots[k].continues THEN 1 ELSE 0)
  <2>1. CASE board.shots[k].continues
    <3>1. PICK x : x = <<Previous(k), 0>>
      OBVIOUS
    <3>2. I = own \cup {x}
      BY <1>5, <1>6, <2>1, <3>1
    <3>3. x \notin own
      <4>1. \A c \in own : c[2] # 0
        BY <1>6, <1>10, <2>1
      <4>2. QED
        BY <3>1, <4>1
    <3>4. Cardinality(own \cup {x}) = Cardinality(own) + 1
      BY <1>13, <3>3, FS_AddElement
    <3>5. QED
      BY <1>13, <2>1, <3>2, <3>4
  <2>2. CASE ~board.shots[k].continues
    <3>1. I = own
      BY <1>5, <1>6, <2>2
    <3>2. QED
      BY <1>2, <1>13, <2>2, <3>1
  <2>3. QED
    BY <2>1, <2>2
<1>15. QED
  BY <1>0, <1>2, <1>7, <1>11, <1>12, <1>14

\* The keyframes are at the frames they were made for.
LEMMA KeyframesHold == ASSUME VideoInv PROVE KeyframesAtTheirFrames
<1>1. DOMAIN plan = 1..Len(plan)
  BY DEF VideoInv, PlanInv
<1>2. QED
  BY <1>1, KeyframesOfShot DEF KeyframesAtTheirFrames, Conditions, Given1

\* A sample is as long as it can be made.
LEMMA SamplesHold == ASSUME VideoInv PROVE SamplesSuffice
<1> SUFFICES ASSUME NEW k \in 1..Len(plan)
             PROVE  plan[k].samples % 8 = 1
                    /\ plan[k].samples \in Cardinality(plan[k].positions)..Cardinality(plan[k].positions) + 7
  <2>1. DOMAIN plan = 1..Len(plan)
    BY DEF VideoInv, PlanInv
  <2>2. QED
    BY <2>1 DEF SamplesSuffice
<1>1. PICK c, s : c = Cardinality(plan[k].positions) /\ s = plan[k].samples
  OBVIOUS
<1>2. c \in Nat /\ 1 <= c
  <2>1. InOrder(plan[k].positions, plan[k].frames)
    BY PositionsInOrder DEF VideoInv
  <2>2. QED
    BY <1>1, <2>1 DEF InOrder
<1>3. s = ((c - 1 + 7) \div 8) * 8 + 1
  BY <1>1 DEF VideoInv, PlanInv, ShotOK, SampleLength
<1>4. s % 8 = 1 /\ s \in c..c + 7
  BY <1>2, <1>3
<1>5. QED
  BY <1>1, <1>4

\* What is used is what is reported.
LEMMA FilesHold == ASSUME VideoInv PROVE VideoOfItsFiles
<1>1. Keyframes \subseteq Pictures
  <2>1. ASSUME NEW k \in DOMAIN plan, NEW c \in plan[k].conditions
        PROVE  c.image \in Pictures
    <3>1. plan[k] \in Planned
      BY DEF VideoInv, PlanInv
    <3>2. QED
      BY <3>1 DEF Planned
  <2>2. QED
    BY <2>1 DEF Keyframes
<1>2. stage = "done" /\ ~board.remote =>
         ltx["weights"].used = ltx["weights"].digest /\ \A f \in LtxFiles : ltx[f].digest = content[f]
  BY DEF VideoInv, LtxInv
<1>3. stage = "done" /\ ~board.remote => \A i \in Keyframes : keyframe[i].step = "loaded"
  BY DEF VideoInv, KeyInv
<1>4. \A i \in Pictures : keyframe[i].step = "loaded" => keyframe[i].digest = keyframe[i].pixels
  BY DEF VideoInv, KeyInv
<1>5. QED
  BY <1>1, <1>2, <1>3, <1>4 DEF VideoOfItsFiles

\* The variables are of their types.
LEMMA VideoTypes == ASSUME VideoInv PROVE VideoTypeOK
<1>1. PlanInv /\ Len(plan) \in Nat /\ DOMAIN plan = 1..Len(plan)
  BY DEF VideoInv, PlanInv
<1>2. \A k \in DOMAIN plan : plan[k].frames \in FewestFrames..MostFrames /\ plan[k].start \in Nat
  BY <1>1, ShotFacts DEF PlanInv, ShotOK
<1>3. Len(frames) <= End(plan)
  <2>1. PICK m \in 0..Len(plan) : Tells(frames, m)
    BY DEF VideoInv, FrameInv
  <2>2. Len(plan) \in 0..Len(plan) /\ (m = Len(plan) \/ m < Len(plan))
    <3>1. Len(plan) \in 0..Len(plan)
      BY <1>1
    <3>2. m = Len(plan) \/ m < Len(plan)
      <4>1. PICK n : n = Len(plan)
        OBVIOUS
      <4>2. n \in Nat /\ m \in 0..n
        BY <1>1, <4>1
      <4>3. QED
        BY <4>1, <4>2
    <3>3. QED
      BY <3>1, <3>2
  <2>3. EndAt(m) \in Nat /\ EndAt(Len(plan)) \in Nat /\ End(plan) = EndAt(Len(plan))
    BY <1>1, <2>2, ShotsFollow
  <2>4. m = Len(plan) \/ EndAt(m) + 2 <= EndAt(Len(plan))
    BY <1>1, <2>2, ShotsFollow
  <2>5. Len(frames) = EndAt(m)
    BY <2>1 DEF Tells
  <2>6. QED
    BY <2>3, <2>4, <2>5
<1>4. QED
  BY <1>2, <1>3 DEF VideoInv, RenderInv, KeyInv, LtxInv, VideoTypeOK

\* A video is what its storyboard says, of the keyframes and weights its report names, for every
\* storyboard and however its files are replaced: every frame once and in its place, the keyframes at
\* the frames they were given for (video_options.py, video_runtime.py, video_interpolator.py).
THEOREM VideoTrue == VideoSpec => []VideoAsPlanned
<1>1. VideoInit => VideoInv
  BY VideoStart
<1>2. VideoInv /\ [VideoNext]_videoVars => VideoInv'
  BY VideoInvNext DEF VideoStep
<1>3. VideoInv => VideoAsPlanned
  BY VideoTypes, TimelineHolds, KeyframesHold, SamplesHold, FilesHold DEF VideoAsPlanned
<1>4. QED
  BY <1>1, <1>2, <1>3, PTL DEF VideoSpec

-----------------------------------------------------------------------------
(* Refinement *)

\* What leaves no rest is a multiple, and a multiple leaves none.
LEMMA IsMultiple ==
    ASSUME NEW n \in Nat, NEW m \in Nat \ {0}
    PROVE  (n * m) \in Nat /\ (n * m) % m = 0 /\ (n % m = 0 => \E k \in Nat : n = k * m)
<1>1. n * m \in Nat /\ (n * m) % m = 0
  OBVIOUS
<1>2. n % m = 0 => \E k \in Nat : n = k * m
  OBVIOUS
<1>3. QED
  BY <1>1, <1>2

\* The rounded size is a multiple of the grid, and the quotient is the nearest one.
LEMMA NearestIs ==
    ASSUME NEW v \in Nat, NEW r, r[1] \in Nat, r[2] \in Nat \ {0}, NEW m \in Nat \ {0}
    PROVE  \E q \in Nat : /\ NearestMultiple(v, r, m) = q * m
                          /\ q * (2 * r[2] * m) <= 2 * v * r[1] + r[2] * m
                          /\ 2 * v * r[1] + r[2] * m < q * (2 * r[2] * m) + 2 * r[2] * m
                          /\ q = (2 * v * r[1] + r[2] * m) \div (2 * r[2] * m)
<1>1. PICK n \in Nat, d \in Nat \ {0} : n = 2 * v * r[1] + r[2] * m /\ d = 2 * r[2] * m
  <2>1. 2 * v * r[1] + r[2] * m \in Nat
    OBVIOUS
  <2>2. 2 * r[2] * m \in Nat \ {0}
    OBVIOUS
  <2>3. QED
    BY <2>1, <2>2
<1>2. n \div d \in Nat /\ (n \div d) * d <= n /\ n < (n \div d) * d + d
  OBVIOUS
<1>3. NearestMultiple(v, r, m) = (n \div d) * m
  BY <1>1 DEF NearestMultiple
<1>4. QED
  BY <1>1, <1>2, <1>3

\* It is a size, and on the grid.
LEMMA NearestOnGrid ==
    ASSUME NEW v \in Nat, NEW r, r[1] \in Nat, r[2] \in Nat \ {0}, NEW m \in Nat \ {0}
    PROVE  NearestMultiple(v, r, m) \in Nat /\ NearestMultiple(v, r, m) % m = 0
<1>1. PICK q \in Nat : NearestMultiple(v, r, m) = q * m
  BY NearestIs
<1>2. q * m \in Nat /\ (q * m) % m = 0
  OBVIOUS
<1>3. QED
  BY <1>1, <1>2

\* Half of a side that has two grid lines: on the grid, a side, not larger than the whole, and
\* off by half a grid line at most.
LEMMA HalfIs ==
    ASSUME NEW v \in Nat, NEW m \in Nat \ {0}, 2 * m <= v
    PROVE  LET h == NearestMultiple(v, <<1, 2>>, m) IN
           /\ h \in Nat /\ h > 0 /\ h % m = 0 /\ h <= v /\ 2 * h - v \in -m..m
<1> DEFINE r == <<1, 2>>
<1>1. r[1] = 1 /\ r[2] = 2
  OBVIOUS
<1>2. r[1] \in Nat /\ r[2] \in Nat \ {0}
  BY <1>1
<1> HIDE DEF r
<1>3. PICK q \in Nat : /\ NearestMultiple(v, r, m) = q * m
                       /\ q * (2 * r[2] * m) <= 2 * v * r[1] + r[2] * m
                       /\ 2 * v * r[1] + r[2] * m < q * (2 * r[2] * m) + 2 * r[2] * m
  BY <1>2, NearestIs
<1>4. PICK p \in Nat : p = q * m
  OBVIOUS
<1>5. q * (2 * 2 * m) = 4 * p
  BY <1>4
<1>6. 4 * p <= 2 * v + 2 * m /\ 2 * v + 2 * m < 4 * p + 4 * m
  BY <1>1, <1>3, <1>5
<1>7. p > 0 /\ p <= v /\ 2 * p - v \in -m..m
  BY <1>6
<1>8. NearestMultiple(v, r, m) = p /\ p % m = 0
  BY <1>3, <1>4, IsMultiple
<1>9. QED
  BY <1>7, <1>8 DEF r

\* "Growth never shrinks": on the grid, a ratio that enlarges adds to a larger side at least what
\* it adds to a smaller one.
LEMMA GrowthGrows ==
    ASSUME NEW v \in Nat, NEW w \in Nat, v <= w, NEW r, r[1] \in Nat, r[2] \in Nat \ {0}, r[2] <= r[1],
           NEW m \in Nat \ {0}, v % m = 0, w % m = 0
    PROVE  NearestMultiple(v, r, m) - v <= NearestMultiple(w, r, m) - w
<1>1. PICK q \in Nat : /\ NearestMultiple(v, r, m) = q * m
                       /\ q * (2 * r[2] * m) <= 2 * v * r[1] + r[2] * m
  BY NearestIs
<1>2. PICK p \in Nat : /\ NearestMultiple(w, r, m) = p * m
                       /\ p = (2 * w * r[1] + r[2] * m) \div (2 * r[2] * m)
  <2>1. w \in Nat /\ m \in Nat \ {0} /\ r[1] \in Nat /\ r[2] \in Nat \ {0}
    OBVIOUS
  <2>2. QED
    BY ONLY <2>1, NearestIs
<1>3. PICK k \in Nat : w - v = k * m
  <2>0. v \in Nat /\ w \in Nat /\ m \in Nat \ {0} /\ v % m = 0 /\ w % m = 0 /\ v <= w
    OBVIOUS
  <2>1. PICK i \in Nat : v = i * m
    BY ONLY <2>0, IsMultiple
  <2>2. PICK j \in Nat : w = j * m
    BY ONLY <2>0, IsMultiple
  <2>3. i <= j
    BY <2>1, <2>2
  <2>4. j - i \in Nat /\ w - v = (j - i) * m
    BY <2>1, <2>2, <2>3
  <2>5. QED
    BY <2>4
<1>4. PICK a \in Nat, b \in Nat \ {0} : a = r[1] /\ b = r[2]
  OBVIOUS
<1>5. (k * m) * b <= (k * m) * a
  BY <1>4
<1>6. (q + k) * (2 * b * m) <= 2 * w * a + b * m
  <2>1. (q + k) * (2 * b * m) = q * (2 * b * m) + 2 * ((k * m) * b)
    OBVIOUS
  <2>2. 2 * w * a = 2 * v * a + 2 * ((k * m) * a)
    <3>1. w = v + k * m
      BY <1>3
    <3>2. (v + k * m) * a = v * a + (k * m) * a
      OBVIOUS
    <3>3. QED
      BY <3>1, <3>2
  <2>3. QED
    BY <1>1, <1>4, <1>5, <2>1, <2>2
<1>7. q + k <= p
  <2>1. PICK n \in Nat, d \in Nat \ {0} : n = 2 * w * a + b * m /\ d = 2 * b * m
    <3>1. 2 * w * a + b * m \in Nat
      OBVIOUS
    <3>2. 2 * b * m \in Nat \ {0}
      OBVIOUS
    <3>3. QED
      BY <3>1, <3>2
  <2>2. (q + k) * d <= n /\ p = n \div d
    BY <1>2, <1>4, <1>6, <2>1
  <2>3. QED
    BY <2>2
<1>8. (q + k) * m <= p * m
  BY <1>7
<1>9. q * m + k * m <= p * m
  BY <1>8
<1>10. QED
  BY <1>1, <1>2, <1>3, <1>9

\* An explicit first size is the one that its own ratio gives.
LEMMA RatioOfFirst ==
    ASSUME NEW s \in Nat \ {0}, NEW j \in Nat, NEW m \in Nat \ {0}
    PROVE  NearestMultiple(s, <<j * m, s>>, m) = j * m
<1> DEFINE r == <<j * m, s>>
<1>1. r[1] = j * m /\ r[2] = s
  OBVIOUS
<1>2. r[1] \in Nat /\ r[2] \in Nat \ {0}
  BY <1>1
<1> HIDE DEF r
<1>3. PICK q \in Nat : /\ NearestMultiple(s, r, m) = q * m
                       /\ q * (2 * s * m) <= 2 * s * (j * m) + s * m
                       /\ 2 * s * (j * m) + s * m < q * (2 * s * m) + 2 * s * m
  BY <1>1, <1>2, NearestIs
<1>4. PICK c \in Nat \ {0} : c = s * m
  <2>1. s * m \in Nat \ {0}
    OBVIOUS
  <2>2. QED
    BY <2>1
<1>5. 2 * s * (j * m) = 2 * (j * c) /\ q * (2 * s * m) = 2 * (q * c)
  BY <1>4
<1>6. 2 * (q * c) <= 2 * (j * c) + c /\ 2 * (j * c) + c < 2 * (q * c) + 2 * c
  BY <1>3, <1>4, <1>5
<1>7. q = j
  <2>1. CASE q > j
    <3>1. (q - j) * c >= c
      BY <2>1
    <3>2. QED
      BY <1>6, <3>1
  <2>2. CASE q < j
    <3>1. (j - q) * c >= c
      BY <2>2
    <3>2. QED
      BY <1>6, <3>1
  <2>3. QED
    BY <2>1, <2>2
<1>8. QED
  BY <1>3, <1>7 DEF r

-----------------------------------------------------------------------------
\* A strength is a fraction that is not 0 and at most 1.
LEMMA StrengthIs ==
    ASSUME NEW o, IsOrder(o)
    PROVE  /\ Strength(o)[1] \in Nat \ {0} /\ Strength(o)[2] \in Nat \ {0}
           /\ Strength(o)[1] <= Strength(o)[2]
<1>1. CASE o.strength # None
  <2>1. Strength(o) = o.strength
    BY <1>1 DEF Strength
  <2>2. o.strength[1] \in Nat /\ o.strength[2] \in Nat
    BY DEF IsOrder, Pair, Axis
  <2>3. 0 < o.strength[1] /\ o.strength[1] <= o.strength[2]
    BY <1>1 DEF IsOrder
  <2>4. QED
    BY <2>1, <2>2, <2>3
<1>2. CASE o.strength = None
  <2>1. Strength(o) = <<1, 4>> \/ Strength(o) = <<7, 20>>
    BY <1>2 DEF Strength
  <2>2. QED
    BY <2>1
<1>3. QED
  BY <1>1, <1>2

\* The schedule has a step, and what it defaults to leaves the steps that are to be kept.
LEMMA ScheduleIs ==
    ASSUME NEW o, IsOrder(o)
    PROVE  /\ Schedule(o) \in Nat \ {0}
           /\ o.hiresSteps = 0 /\ o.method = "target" => Strength(o)[2] <= Schedule(o) * Strength(o)[1]
           /\ o.hiresSteps = 0 /\ o.front = "diffusers" /\ o.family = "sdxl-base" =>
                10 * Strength(o)[2] <= Schedule(o) * Strength(o)[1]
<1>1. PICK a \in Nat \ {0}, b \in Nat \ {0} : a = Strength(o)[1] /\ b = Strength(o)[2]
  BY StrengthIs
<1>2. PICK k \in {1, 10} : k = IF o.front = "diffusers" /\ o.family = "sdxl-base" THEN 10 ELSE 1
  OBVIOUS
<1>3. PICK c \in Nat : c = Ceiling(k * b, a) /\ k * b <= c * a
  <2>1. PICK n \in Nat : n = k * b
    OBVIOUS
  <2>2. (n + a - 1) \div a \in Nat /\ n + a - 1 < ((n + a - 1) \div a) * a + a
    <3>1. n + a - 1 \in Nat
      OBVIOUS
    <3>2. QED
      BY <3>1
  <2>3. QED
    BY <2>1, <2>2 DEF Ceiling
<1>4. o.steps \in Nat \ {0} /\ o.hiresSteps \in Nat
  BY DEF IsOrder
<1>5. Schedule(o) = IF o.hiresSteps # 0 THEN o.hiresSteps
                    ELSE IF o.method = "target" \/ k = 10 THEN Larger(o.steps, c) ELSE o.steps
  BY <1>1, <1>2, <1>3 DEF Schedule
<1>6. PICK n \in Nat \ {0} : n = Larger(o.steps, c) /\ c <= n
  BY <1>4 DEF Larger
<1>7. k * b <= n * a
  <2>1. c * a <= n * a
    BY <1>6
  <2>2. QED
    BY <1>3, <2>1
<1>8. Schedule(o) \in Nat \ {0}
  BY <1>4, <1>5, <1>6
<1>9. ASSUME o.hiresSteps = 0, o.method = "target" \/ k = 10
      PROVE  k * b <= Schedule(o) * a
  BY <1>5, <1>6, <1>7, <1>9
<1>10. b <= k * b
  BY <1>2
<1>11. ASSUME o.hiresSteps = 0, o.method = "target"
       PROVE  b <= Schedule(o) * a
  BY <1>8, <1>9, <1>10, <1>11
<1>12. ASSUME o.hiresSteps = 0, o.front = "diffusers" /\ o.family = "sdxl-base"
       PROVE  10 * b <= Schedule(o) * a
  BY <1>2, <1>9, <1>12
<1>13. QED
  BY <1>1, <1>8, <1>11, <1>12

\* Steps are counted in whole numbers; where the resolution counts one, the sampler executes one.
LEMMA CountsExecute ==
    ASSUME NEW o, IsOrder(o), NEW n \in Nat \ {0}
    PROVE  /\ Counted(o, n) \in Int /\ Executed(o, n) \in Int
           /\ Counted(o, n) >= 1 => Executed(o, n) >= 1
<1>1. PICK a \in Nat \ {0}, b \in Nat \ {0} : a = Strength(o)[1] /\ b = Strength(o)[2] /\ a <= b
  BY StrengthIs
<1>2. PICK p \in Nat \ {0} : p = n * a
  <2>1. n * a \in Nat \ {0}
    OBVIOUS
  <2>2. QED
    BY <2>1
<1>3. RoundHalfEven(p, b) \in Int
  <2>1. PICK q \in Int : q = (2 * p + b) \div (2 * b)
    <3>1. 2 * p + b \in Nat /\ 2 * b \in Nat \ {0}
      OBVIOUS
    <3>2. QED
      BY <3>1
  <2>2. RoundHalfEven(p, b) \in {q, q - 1}
    BY <2>1 DEF RoundHalfEven
  <2>3. QED
    BY <2>2
<1>4. Ceiling(p, b) \in Int /\ Ceiling(p, b) >= 1
  <2>1. p + b - 1 \in Nat /\ b <= p + b - 1
    OBVIOUS
  <2>2. (p + b - 1) \div b >= 1 /\ (p + b - 1) \div b \in Int
    BY <2>1
  <2>3. QED
    BY <2>2 DEF Ceiling
<1>5. p \div b \in Int
  OBVIOUS
<1>6. n - (n * (b - a)) \div b \in Int
  <2>1. n * (b - a) \in Nat
    BY <1>1
  <2>2. QED
    BY <2>1
<1>7. CASE o.front = "comfy"
  BY <1>1, <1>2, <1>3, <1>7 DEF Counted, Executed
<1>8. CASE o.front # "comfy" /\ o.family = "flux1-schnell"
  BY <1>1, <1>2, <1>4, <1>6, <1>8 DEF Counted, Executed
<1>9. CASE o.front # "comfy" /\ o.family # "flux1-schnell"
  BY <1>1, <1>2, <1>5, <1>9 DEF Counted, Executed
<1>10. QED
  BY <1>7, <1>8, <1>9

\* A schedule of which the strength leaves a whole step is counted one.
LEMMA CountsOne ==
    ASSUME NEW o, IsOrder(o), NEW n \in Nat \ {0}, Strength(o)[2] <= n * Strength(o)[1]
    PROVE  Counted(o, n) >= 1
<1>1. PICK a \in Nat \ {0}, b \in Nat \ {0} : a = Strength(o)[1] /\ b = Strength(o)[2] /\ a <= b
  BY StrengthIs
<1>2. PICK p \in Nat \ {0} : p = n * a /\ b <= p
  <2>1. n * a \in Nat \ {0}
    OBVIOUS
  <2>2. QED
    BY <1>1, <2>1
<1>3. RoundHalfEven(p, b) >= 1
  <2>1. PICK u \in Nat, d \in Nat \ {0} : u = 2 * p + b /\ d = 2 * b /\ d < u
    BY <1>2
  <2>2. PICK q \in Nat : q = u \div d /\ q >= 1 /\ q * d <= u /\ u % d = u - q * d
    BY <2>1
  <2>3. RoundHalfEven(p, b) = IF u % d = 0 /\ q % 2 = 1 THEN q - 1 ELSE q
    BY <2>1, <2>2 DEF RoundHalfEven
  <2>4. u % d = 0 => q # 1
    BY <2>1, <2>2
  <2>5. QED
    BY <2>2, <2>3, <2>4
<1>4. p \div b >= 1
  BY <1>2
<1>5. n - (n * (b - a)) \div b >= 1
  <2>1. n * (b - a) = n * b - p /\ n * (b - a) \in Nat
    BY <1>1, <1>2
  <2>2. PICK u \in Nat : u = n * (b - a) /\ u <= n * b - b
    BY <1>2, <2>1
  <2>3. (u \div b) * b <= u /\ u \div b \in Nat
    OBVIOUS
  <2>4. (u \div b) * b <= (n - 1) * b
    BY <2>2, <2>3
  <2>5. u \div b <= n - 1
    BY <2>3, <2>4
  <2>6. QED
    BY <2>2, <2>3, <2>5
<1>6. CASE o.front = "comfy"
  BY <1>1, <1>2, <1>3, <1>6 DEF Counted
<1>7. CASE o.front # "comfy" /\ o.family = "flux1-schnell"
  BY <1>1, <1>5, <1>7 DEF Counted
<1>8. CASE o.front # "comfy" /\ o.family # "flux1-schnell"
  BY <1>1, <1>2, <1>4, <1>8 DEF Counted
<1>9. QED
  BY <1>6, <1>7, <1>8

\* SDXL executes ten steps of a schedule of which the strength leaves ten.
LEMMA ExecutesTen ==
    ASSUME NEW o, IsOrder(o), NEW n \in Nat \ {0}, o.front = "diffusers", o.family = "sdxl-base",
           10 * Strength(o)[2] <= n * Strength(o)[1]
    PROVE  Executed(o, n) >= 10
<1>1. PICK a \in Nat \ {0}, b \in Nat \ {0} : a = Strength(o)[1] /\ b = Strength(o)[2]
  BY StrengthIs
<1>2. PICK p \in Nat : p = n * a /\ 10 * b <= p
  <2>1. n * a \in Nat
    OBVIOUS
  <2>2. QED
    BY <1>1, <2>1
<1>3. p \div b >= 10
  BY <1>2
<1>4. QED
  BY <1>1, <1>2, <1>3 DEF Executed

-----------------------------------------------------------------------------
\* What resolve_hires_stage_sizes() has checked before it makes a stage.
StartsAsAsked(o) ==
    /\ o.method # "target" /\ o.fix
    /\ \A a \in Axis : o.size[a] # 0 /\ o.goal[a] % o.grid = 0
    /\ o.method = "scale" => o.ratio[2] < o.ratio[1]

\* What an axis is multiplied with in each pass.
Multiplier(o, a) == IF o.method = "scale" THEN o.ratio ELSE <<First(o)[a], o.size[a]>>

\* The numbers of a request.
LEMMA OrderNumbers ==
    ASSUME NEW o, IsOrder(o)
    PROVE  /\ o.grid \in Nat \ {0} /\ Passes(o) \in Nat \ {0} /\ o.size \in Pair
           /\ \A a \in Axis : o.size[a] \in Nat /\ o.goal[a] \in Nat /\ o.ratio[a] \in Nat
           /\ o.method = "scale" => o.ratio[1] \in Nat /\ o.ratio[2] \in Nat \ {0}
           /\ o.method # "explicit" => o.goal[1] = 0 /\ o.goal[2] = 0
<1>1. o.passes \in Nat /\ o.grid \in Nat \ {0} /\ o.size \in Pair /\ o.goal \in Pair /\ o.ratio \in Pair
  BY DEF IsOrder
<1>2. Passes(o) \in Nat \ {0}
  BY <1>1 DEF Passes
<1>3. \A a \in Axis : o.size[a] \in Nat /\ o.goal[a] \in Nat /\ o.ratio[a] \in Nat
  BY <1>1 DEF Pair
<1>4. 1 \in Axis /\ 2 \in Axis
  BY DEF Axis
<1>5. o.method = "scale" => o.ratio[1] \in Nat /\ o.ratio[2] \in Nat \ {0}
  BY <1>3, <1>4 DEF IsOrder
<1>6. o.method # "explicit" => o.goal[1] = 0 /\ o.goal[2] = 0
  <2>1. o.method # "explicit" => o.goal = <<0, 0>>
    BY DEF IsOrder, Unsaid
  <2>2. QED
    BY <2>1
<1>7. QED
  BY <1>1, <1>2, <1>3, <1>5, <1>6

\* The first stage is a size on the grid, and on an axis that is given the given one.
LEMMA FirstIs ==
    ASSUME NEW o, IsOrder(o), StartsAsAsked(o)
    PROVE  /\ First(o) \in Pair
           /\ \A a \in Axis : First(o)[a] % o.grid = 0 /\ o.goal[a] \in {0, First(o)[a]}
<1> DEFINE side(a) == IF o.method = "scale" THEN NearestMultiple(o.size[a], o.ratio, o.grid)
                      ELSE IF o.goal[a] # 0 THEN o.goal[a]
                      ELSE NearestMultiple(o.goal[Other(a)], <<o.size[a], o.size[Other(a)]>>, o.grid)
<1>1. First(o) = [a \in Axis |-> side(a)]
  BY DEF First
<1>2. ASSUME NEW a \in Axis
      PROVE  side(a) \in Nat /\ side(a) % o.grid = 0 /\ o.goal[a] \in {0, side(a)}
  <2>1. Other(a) \in Axis
    BY DEF Other, Axis
  <2>2. PICK b \in Axis : b = Other(a)
    BY <2>1
  <2>3. o.size[a] \in Nat \ {0} /\ o.size[b] \in Nat \ {0} /\ o.goal[b] \in Nat /\ o.goal[a] \in Nat
    BY OrderNumbers DEF StartsAsAsked
  <2>4. CASE o.method = "scale"
    <3>1. o.size[a] \in Nat /\ o.ratio[1] \in Nat /\ o.ratio[2] \in Nat \ {0} /\ o.grid \in Nat \ {0}
      BY <2>4, OrderNumbers
    <3>2. NearestMultiple(o.size[a], o.ratio, o.grid) \in Nat /\ NearestMultiple(o.size[a], o.ratio, o.grid) % o.grid = 0
      BY ONLY <3>1, NearestOnGrid
    <3>3. o.goal[a] = 0
      BY <2>4, OrderNumbers DEF Axis
    <3>4. QED
      BY <2>4, <3>2, <3>3
  <2>5. CASE o.method # "scale" /\ o.goal[a] # 0
    BY <2>3, <2>5 DEF StartsAsAsked
  <2>6. CASE o.method # "scale" /\ o.goal[a] = 0
    <3>1. PICK r : r = <<o.size[a], o.size[b]>>
      OBVIOUS
    <3>2. o.goal[b] \in Nat /\ r[1] \in Nat /\ r[2] \in Nat \ {0} /\ o.grid \in Nat \ {0}
      BY <2>3, <3>1, OrderNumbers
    <3>3. NearestMultiple(o.goal[b], r, o.grid) \in Nat /\ NearestMultiple(o.goal[b], r, o.grid) % o.grid = 0
      BY ONLY <3>2, NearestOnGrid
    <3>4. side(a) = NearestMultiple(o.goal[b], r, o.grid)
      BY <2>2, <2>6, <3>1
    <3>5. QED
      BY <2>6, <3>3, <3>4
  <2>7. QED
    BY <2>4, <2>5, <2>6
<1> HIDE DEF side
<1>3. First(o) \in Pair
  BY <1>1, <1>2 DEF Pair
<1>4. \A a \in Axis : First(o)[a] = side(a)
  BY <1>1
<1>5. QED
  BY <1>2, <1>3, <1>4

\* A multiplier is a fraction.
LEMMA MultiplierIs ==
    ASSUME NEW o, IsOrder(o), StartsAsAsked(o), NEW a \in Axis
    PROVE  Multiplier(o, a)[1] \in Nat /\ Multiplier(o, a)[2] \in Nat \ {0}
<1>1. First(o)[a] \in Nat
  BY FirstIs DEF Pair
<1>2. o.size[a] \in Nat \ {0}
  BY OrderNumbers DEF StartsAsAsked
<1>3. CASE o.method = "scale"
  BY <1>3, OrderNumbers DEF Multiplier
<1>4. CASE o.method # "scale"
  BY <1>1, <1>2, <1>4 DEF Multiplier
<1>5. QED
  BY <1>3, <1>4

\* The stage after another is a size on the grid.
LEMMA AfterIs ==
    ASSUME NEW o, IsOrder(o), StartsAsAsked(o), NEW s \in Pair
    PROVE  /\ After(o, s) \in Pair
           /\ \A a \in Axis : /\ After(o, s)[a] = NearestMultiple(s[a], Multiplier(o, a), o.grid)
                              /\ After(o, s)[a] % o.grid = 0
<1>1. After(o, s) = [a \in Axis |-> NearestMultiple(s[a], Multiplier(o, a), o.grid)]
  BY DEF After, Multiplier
<1>2. ASSUME NEW a \in Axis
      PROVE  NearestMultiple(s[a], Multiplier(o, a), o.grid) \in Nat /\ NearestMultiple(s[a], Multiplier(o, a), o.grid) % o.grid = 0
  <2>1. s[a] \in Nat /\ Multiplier(o, a)[1] \in Nat /\ Multiplier(o, a)[2] \in Nat \ {0} /\ o.grid \in Nat \ {0}
    BY MultiplierIs, OrderNumbers DEF Pair
  <2>2. QED
    BY ONLY <2>1, NearestOnGrid
<1>3. \A a \in Axis : After(o, s)[a] = NearestMultiple(s[a], Multiplier(o, a), o.grid)
  BY <1>1
<1>4. After(o, s) \in Pair
  BY <1>1, <1>2 DEF Pair
<1>5. QED
  BY <1>2, <1>3, <1>4

\* From a side on the grid, the first stage is made as every later one.
LEMMA FirstIsNearest ==
    ASSUME NEW o, IsOrder(o), StartsAsAsked(o), NEW a \in Axis
    PROVE  First(o)[a] = NearestMultiple(o.size[a], Multiplier(o, a), o.grid)
<1>1. CASE o.method = "scale"
  BY <1>1 DEF First, Multiplier
<1>2. CASE o.method # "scale"
  <2>1. o.size[a] \in Nat \ {0} /\ o.grid \in Nat \ {0}
    BY OrderNumbers DEF StartsAsAsked
  <2>2. First(o)[a] \in Nat /\ First(o)[a] % o.grid = 0
    BY FirstIs DEF Pair
  <2>3. PICK j \in Nat : First(o)[a] = j * o.grid
    BY <2>1, <2>2, IsMultiple
  <2>4. NearestMultiple(o.size[a], <<j * o.grid, o.size[a]>>, o.grid) = j * o.grid
    BY <2>1, RatioOfFirst
  <2>5. QED
    BY <1>2, <2>3, <2>4 DEF Multiplier
<1>3. QED
  BY <1>1, <1>2

\* The chain is made from the first stage on.
LEMMA ChainRec ==
    ASSUME NEW o, IsOrder(o)
    PROVE  /\ ChainOf(o)[1] = First(o)
           /\ \A n \in 2..Passes(o) : ChainOf(o)[n] = After(o, ChainOf(o)[n - 1])
<1> DEFINE Made(g, l) == g = [n \in 1..l |-> IF n = 1 THEN First(o) ELSE After(o, g[n - 1])]
           S == {l \in Nat : \E g : Made(g, l)}
<1>1. 0 \in S
  <2>1. Made(<<>>, 0)
    OBVIOUS
  <2>2. QED
    BY <2>1
<1>2. ASSUME NEW l \in S
      PROVE  l + 1 \in S
  <2>1. PICK g : Made(g, l)
    OBVIOUS
  <2>2. PICK h : h = [n \in 1..l + 1 |-> IF n = 1 THEN First(o) ELSE After(o, g[n - 1])]
    OBVIOUS
  <2>3. l \in Nat
    OBVIOUS
  <2>4. PICK k : k = [n \in 1..l |-> IF n = 1 THEN First(o) ELSE After(o, g[n - 1])]
    OBVIOUS
  <2>5. g = k
    BY <2>1, <2>4, Zenon
  <2>6. \A n \in 1..l : k[n] = h[n]
    BY <2>2, <2>3, <2>4
  <2>7. \A n \in 1..l : h[n] = g[n]
    BY <2>5, <2>6
  <2>8. \A n \in 1..l + 1 : n # 1 => n - 1 \in 1..l
    BY <2>3
  <2>9. \A n \in 1..l + 1 : (IF n = 1 THEN First(o) ELSE After(o, g[n - 1])) = (IF n = 1 THEN First(o) ELSE After(o, h[n - 1]))
    BY <2>7, <2>8
  <2>10. Made(h, l + 1)
    BY <2>2, <2>9
  <2>11. \E w : Made(w, l + 1)
    BY <2>10, Zenon
  <2>12. l + 1 \in Nat
    BY <2>3
  <2>13. QED
    BY <2>11, <2>12, Zenon
<1>3. PICK m \in Nat \ {0} : m = Passes(o)
  BY OrderNumbers
<1>4. m \in S
  <2>1. S = Nat
    BY <1>1, <1>2, SetInduction
  <2>2. QED
    BY <2>1
<1>5. PICK f : f = CHOOSE g : Made(g, m)
  OBVIOUS
<1>6. Made(f, m)
  BY <1>4, <1>5
<1>7. ChainOf(o) = f
  BY <1>3, <1>5 DEF ChainOf
<1>8. PICK k : k = [n \in 1..m |-> IF n = 1 THEN First(o) ELSE After(o, f[n - 1])]
  OBVIOUS
<1>9. f = k
  BY <1>6, <1>8, Zenon
<1>10. \A n \in 1..m : k[n] = IF n = 1 THEN First(o) ELSE After(o, f[n - 1])
  BY <1>8, Zenon
<1>11. 1 \in 1..m /\ \A n \in 2..m : n \in 1..m /\ n # 1
  OBVIOUS
<1>12. f[1] = First(o) /\ \A n \in 2..m : f[n] = After(o, f[n - 1])
  BY <1>9, <1>10, <1>11, Zenon
<1>13. QED
  BY <1>3, <1>7, <1>12

\* Every pass adds to an axis that does not shrink at least what the first one added.
LEMMA ChainGains ==
    ASSUME NEW o, IsOrder(o), StartsAsAsked(o), NEW a \in Axis, o.size[a] % o.grid = 0,
           o.size[a] <= First(o)[a], NEW n \in 1..Passes(o)
    PROVE  /\ ChainOf(o)[n][a] \in Nat
           /\ o.size[a] + (First(o)[a] - o.size[a]) * n <= ChainOf(o)[n][a]
<1> DEFINE f == ChainOf(o)
           size == o.size[a]
           gain == First(o)[a] - o.size[a]
           Good(l) == /\ f[l] \in Pair /\ f[l][a] % o.grid = 0 /\ size <= f[l][a]
                      /\ size + gain * l <= f[l][a]
           S == {l \in Nat : l + 1 \in 1..Passes(o) => Good(l + 1)}
<1>1. size \in Nat \ {0} /\ o.grid \in Nat \ {0} /\ Passes(o) \in Nat \ {0}
  BY OrderNumbers DEF StartsAsAsked
<1>2. First(o) \in Pair /\ First(o)[a] \in Nat /\ First(o)[a] % o.grid = 0 /\ gain \in Nat
  BY <1>1, FirstIs DEF Pair
<1>3. Multiplier(o, a)[1] \in Nat /\ Multiplier(o, a)[2] \in Nat \ {0} /\ Multiplier(o, a)[2] <= Multiplier(o, a)[1]
  <2>1. CASE o.method = "scale"
    BY <2>1, MultiplierIs, OrderNumbers DEF Multiplier, StartsAsAsked
  <2>2. CASE o.method # "scale"
    <3>1. Multiplier(o, a)[1] = First(o)[a] /\ Multiplier(o, a)[2] = size
      BY <2>2 DEF Multiplier
    <3>2. QED
      BY <1>1, <1>2, <3>1
  <2>3. QED
    BY <2>1, <2>2
<1>4. 0 \in S
  <2>1. f[1] = First(o)
    BY ChainRec
  <2>2. size + gain * 1 = First(o)[a]
    BY <1>1, <1>2
  <2>3. Good(1)
    BY <1>1, <1>2, <2>1, <2>2
  <2>4. QED
    BY <2>3
<1>5. ASSUME NEW l \in S
      PROVE  l + 1 \in S
  <2> SUFFICES ASSUME l + 2 \in 1..Passes(o)
               PROVE  Good(l + 2)
    BY <1>1
  <2>1. PICK w : w = f[l + 1]
    OBVIOUS
  <2>2. w \in Pair /\ w[a] \in Nat /\ w[a] % o.grid = 0 /\ size <= w[a] /\ size + gain * (l + 1) <= w[a]
    <3>1. l + 1 \in 1..Passes(o)
      BY <1>1
    <3>2. Good(l + 1)
      BY <3>1
    <3>3. QED
      BY <2>1, <3>2 DEF Pair
  <2>3. f[l + 2] = After(o, w)
    <3>1. l + 2 \in 2..Passes(o) /\ (l + 2) - 1 = l + 1
      BY <1>1
    <3>2. QED
      BY <2>1, <3>1, ChainRec
  <2>4. PICK x \in Pair : x = f[l + 2]
    BY <2>2, <2>3, AfterIs
  <2>5. x[a] = NearestMultiple(w[a], Multiplier(o, a), o.grid) /\ x[a] % o.grid = 0 /\ x[a] \in Nat
    BY <2>2, <2>3, <2>4, AfterIs DEF Pair
  <2>6. NearestMultiple(size, Multiplier(o, a), o.grid) - size <= NearestMultiple(w[a], Multiplier(o, a), o.grid) - w[a]
    <3>1. /\ size \in Nat /\ w[a] \in Nat /\ size <= w[a] /\ Multiplier(o, a)[1] \in Nat
          /\ Multiplier(o, a)[2] \in Nat \ {0} /\ Multiplier(o, a)[2] <= Multiplier(o, a)[1]
          /\ o.grid \in Nat \ {0} /\ size % o.grid = 0 /\ w[a] % o.grid = 0
      BY <1>1, <1>3, <2>2
    <3> HIDE DEF size
    <3>2. QED
      BY ONLY <3>1, GrowthGrows
  <2>7. gain <= x[a] - w[a]
    BY <2>5, <2>6, FirstIsNearest
  <2>8. gain * (l + 2) = gain * (l + 1) + gain
    BY <1>2
  <2>9. size <= x[a] /\ size + gain * (l + 2) <= x[a]
    <3>1. PICK u \in Int, v \in Int : u = gain * (l + 1) /\ v = gain * (l + 2) /\ v = u + gain
      BY <1>2, <2>8
    <3>2. QED
      BY <1>1, <1>2, <2>2, <2>5, <2>7, <3>1
  <2>10. QED
    BY <2>4, <2>5, <2>9
<1>6. S = Nat
  <2>1. S \in SUBSET Nat
    OBVIOUS
  <2> HIDE DEF S
  <2>2. QED
    BY <1>4, <1>5, <2>1, SetInduction
<1>7. n - 1 \in Nat /\ (n - 1) + 1 = n
  BY <1>1
<1>8. Good(n)
  <2>1. n - 1 \in S
    BY <1>6, <1>7, Zenon
  <2>2. QED
    BY <1>7, <2>1
<1>9. QED
  BY <1>8 DEF Pair

-----------------------------------------------------------------------------
HiresPhases == {"size", "chain", "steps", "base", "refine", "publish", "refused"}
Image       == [size : Pair, told : Pair, steps : Int]

\* The request is one of the requests, and there is no failed phase.
HiresTyped ==
    /\ \E kind \in Orders : order \in kind
    /\ IsOrder(order)
    /\ phase \in HiresPhases /\ (phase = "refused" <=> refusal # "none")
    /\ baseSize \in Pair /\ stages \in Seq(Pair) /\ schedule \in Nat /\ sampled \in Seq(Image)

\* A stage of a target is the target; one of a chain enlarges the one before, by the ratio of the first.
StageFits(i) ==
    /\ OnGrid(stages[i])
    /\ order.method = "target" => stages[i] = order.size
    /\ order.method # "target" =>
        /\ stages[i] = IF i = 1 THEN First(order) ELSE After(order, stages[i - 1])
        /\ Enlarges(IF i = 1 THEN order.size ELSE stages[i - 1], stages[i])

\* The stages that are resolved, one for each pass at the end.
HiresStages ==
    /\ \A i \in DOMAIN stages : StageFits(i)
    /\ stages # <<>> \/ phase = "chain" => (order.method # "target" => StartsAsAsked(order))
    /\ phase = "size" => stages = <<>>
    /\ phase = "chain" => order.method # "target" /\ Len(stages) < Passes(order)
    /\ phase = "steps" => order.fix
    /\ phase \in {"steps", "base", "refine", "publish"} =>
        IF order.fix THEN Len(stages) = Passes(order) ELSE stages = <<>> /\ order.method = "target"

IsHalf(h, a) ==
    /\ h > 0 /\ h % order.grid = 0 /\ h <= order.size[a]
    /\ 2 * h - order.size[a] \in -order.grid..order.grid

\* The base is half a target, and what was asked for where there is none.
HiresBase ==
    /\ order.method # "target" \/ ~order.fix \/ phase = "size" => baseSize = order.size
    /\ order.method = "target" /\ order.fix /\ phase \notin {"size", "refused"} =>
        \A a \in Axis : IsHalf(baseSize[a], a)

\* A schedule that is resolved is counted a step.
HiresSchedule ==
    order.fix /\ phase \in {"base", "refine", "publish"} =>
        schedule = Schedule(order) /\ Counted(order, schedule) >= 1

\* The images are the base and then one for each stage, from the grid.
HiresSampled ==
    /\ phase \notin {"refine", "publish"} => sampled = <<>>
    /\ phase = "refine" => Len(sampled) \in 1..Len(stages)
    /\ phase = "publish" => Len(sampled) = Len(stages) + 1
    /\ sampled # <<>> => /\ OnGrid(order.size)
                         /\ sampled[1] = [size |-> baseSize, told |-> BaseTold(order), steps |-> order.steps]
    /\ \A i \in DOMAIN sampled : i # 1 =>
        sampled[i] = [size |-> stages[i - 1], told |-> stages[i - 1], steps |-> Executed(order, schedule)]

\* What is refused is refused for a reason.
HiresRefused ==
    /\ RefusedForItsSize
    /\ order.hiresSteps = 0 /\ order.fix /\ order.method = "target" => refusal # "steps"

\* The inductive invariant.
HiresInv ==
    /\ HiresTyped /\ HiresStages /\ HiresBase /\ HiresSchedule /\ HiresSampled /\ HiresRefused

\* Every request starts as such.
LEMMA HiresInitInv == RefinementInit => HiresInv
<1> SUFFICES ASSUME RefinementInit PROVE HiresInv
  OBVIOUS
<1> USE DEF RefinementInit
<1>1. IsOrder(order)
  BY RefinementAssumption
<1>2. HiresTyped
  BY <1>1, OrderNumbers DEF HiresTyped, HiresPhases
<1>3. HiresStages
  BY DEF HiresStages
<1>4. HiresBase
  BY DEF HiresBase
<1>5. HiresSchedule /\ HiresSampled /\ HiresRefused
  BY DEF HiresSchedule, HiresSampled, HiresRefused, RefusedForItsSize
<1>6. QED
  BY <1>2, <1>3, <1>4, <1>5 DEF HiresInv

\* Without --hires-fix nothing is resolved.
LEMMA SkipKeeps == ASSUME HiresInv, SkipRefinement PROVE HiresInv'
<1> USE DEF SkipRefinement, Refuse
<1>1. HiresTyped'
  BY DEF HiresInv, HiresTyped, HiresPhases
<1>2. HiresStages'
  BY DEF HiresInv, HiresStages, HiresTyped
<1>3. HiresBase'
  BY DEF HiresInv, HiresBase
<1>4. HiresSchedule' /\ HiresSampled'
  BY DEF HiresInv, HiresSchedule, HiresSampled
<1>5. HiresRefused'
  BY DEF HiresInv, HiresTyped, HiresRefused, RefusedForItsSize
<1>6. QED
  BY <1>1, <1>2, <1>3, <1>4, <1>5 DEF HiresInv

\* A target: the base is half of it, and the stages are the target.
LEMMA TargetKeeps == ASSUME HiresInv, ResolveTarget PROVE HiresInv'
<1> USE DEF ResolveTarget, Refuse
<1>1. IsOrder(order) /\ order' = order /\ schedule' = schedule /\ sampled' = sampled
  BY DEF HiresInv, HiresTyped
<1>2. CASE Passes(order) > MostPasses \/ OutOfBounds(order)
  <2>1. phase' = "refused" /\ refusal' = "target" /\ baseSize' = baseSize /\ stages' = stages /\ stages = <<>>
    BY <1>2 DEF HiresInv, HiresStages
  <2>2. HiresTyped'
    BY <1>1, <2>1 DEF HiresInv, HiresTyped, HiresPhases
  <2>3. HiresStages'
    BY <1>1, <2>1 DEF HiresInv, HiresStages
  <2>4. HiresBase' /\ HiresSchedule' /\ HiresSampled'
    BY <1>1, <2>1 DEF HiresInv, HiresBase, HiresSchedule, HiresSampled
  <2>5. HiresRefused'
    BY <1>1, <2>1 DEF HiresInv, HiresRefused, RefusedForItsSize
  <2>6. QED
    BY <2>2, <2>3, <2>4, <2>5 DEF HiresInv
<1>3. CASE ~(Passes(order) > MostPasses \/ OutOfBounds(order))
  <2>1. /\ phase' = "steps" /\ refusal' = refusal /\ phase = "size" /\ order.fix /\ order.method = "target"
        /\ baseSize' = [a \in Axis |-> NearestMultiple(order.size[a], <<1, 2>>, order.grid)]
        /\ stages' = [i \in 1..Passes(order) |-> order.size]
    BY <1>3
  <2>2. /\ order.grid \in Nat \ {0} /\ order.size \in Pair /\ Passes(order) \in Nat \ {0}
        /\ \A a \in Axis : order.size[a] \in Nat
    BY <1>1, OrderNumbers
  <2>3. \A a \in Axis : order.size[a] % order.grid = 0 /\ ~(order.size[a] < 2 * order.grid)
    BY <1>3 DEF OutOfBounds
  <2>4. ASSUME NEW a \in Axis
        PROVE  baseSize'[a] \in Nat /\ IsHalf(baseSize'[a], a) /\ order.size[a] > 0
    <3>1. PICK v \in Nat, m \in Nat \ {0} : v = order.size[a] /\ m = order.grid /\ 2 * m <= v
      BY <2>2, <2>3
    <3>2. PICK h : h = NearestMultiple(v, <<1, 2>>, m)
      OBVIOUS
    <3>3. h \in Nat /\ h > 0 /\ h % m = 0 /\ h <= v /\ 2 * h - v \in -m..m
      BY <3>1, <3>2, HalfIs
    <3>4. baseSize'[a] = h
      BY <2>1, <3>1, <3>2
    <3>5. QED
      BY <3>1, <3>3, <3>4 DEF IsHalf
  <2>5. baseSize' \in Pair
    BY <2>1, <2>4 DEF Pair
  <2>6. stages' \in Seq(Pair) /\ Len(stages') = Passes(order) /\ \A i \in DOMAIN stages' : stages'[i] = order.size
    BY <2>1, <2>2
  <2>7. OnGrid(order.size)
    BY <2>3, <2>4 DEF OnGrid
  <2>8. HiresTyped'
    BY <1>1, <2>1, <2>5, <2>6 DEF HiresInv, HiresTyped, HiresPhases
  <2>9. HiresStages'
    <3>1. \A i \in DOMAIN stages' : StageFits(i)'
      BY <1>1, <2>1, <2>6, <2>7 DEF StageFits, OnGrid
    <3>2. QED
      BY <1>1, <2>1, <2>6, <3>1 DEF HiresStages
  <2>10. HiresBase'
    BY <1>1, <2>1, <2>4 DEF HiresBase, IsHalf
  <2>11. HiresSchedule' /\ HiresSampled' /\ HiresRefused'
    BY <1>1, <2>1 DEF HiresInv, HiresTyped, HiresSchedule, HiresSampled, HiresRefused, RefusedForItsSize
  <2>12. QED
    BY <2>8, <2>9, <2>10, <2>11 DEF HiresInv
<1>4. QED
  BY <1>2, <1>3

\* A chain is started or refused.
LEMMA StartKeeps == ASSUME HiresInv, StartChain PROVE HiresInv'
<1> USE DEF StartChain, Refuse
<1>1. /\ IsOrder(order) /\ UNCHANGED <<order, baseSize, stages, schedule, sampled>>
      /\ phase = "size" /\ order.fix /\ order.method # "target" /\ stages = <<>>
  BY DEF HiresInv, HiresTyped, HiresStages
<1>2. \/ phase' = "refused" /\ refusal' = "chain"
      \/ phase' = "chain" /\ refusal' = refusal /\ StartsAsAsked(order)
  <2>1. CASE \/ \E a \in Axis : order.size[a] \notin 1..MaxSide \/ order.goal[a] % order.grid # 0
             \/ order.method = "scale" /\ order.ratio[1] <= order.ratio[2]
    BY <2>1
  <2>2. CASE ~(\/ \E a \in Axis : order.size[a] \notin 1..MaxSide \/ order.goal[a] % order.grid # 0
               \/ order.method = "scale" /\ order.ratio[1] <= order.ratio[2])
    <3>1. \A a \in Axis : order.size[a] \in 1..MaxSide /\ order.goal[a] % order.grid = 0
      BY <2>2
    <3>2. \A a \in Axis : order.size[a] # 0
      BY <3>1, RefinementAssumption
    <3>3. order.method = "scale" => order.ratio[2] < order.ratio[1]
      BY <1>1, <2>2, OrderNumbers
    <3>4. QED
      BY <1>1, <2>2, <3>1, <3>2, <3>3 DEF StartsAsAsked
  <2>3. QED
    BY <2>1, <2>2
<1>3. HiresTyped'
  BY <1>1, <1>2 DEF HiresInv, HiresTyped, HiresPhases
<1>4. HiresStages'
  <2>1. Len(stages') < Passes(order)
    BY <1>1, OrderNumbers
  <2>2. QED
    BY <1>1, <1>2, <2>1 DEF HiresInv, HiresStages, StartsAsAsked
<1>5. HiresBase' /\ HiresSchedule' /\ HiresSampled'
  BY <1>1, <1>2 DEF HiresInv, HiresBase, HiresSchedule, HiresSampled
<1>6. HiresRefused'
  BY <1>1, <1>2 DEF HiresInv, HiresTyped, HiresRefused, RefusedForItsSize
<1>7. QED
  BY <1>3, <1>4, <1>5, <1>6 DEF HiresInv

\* The size a stage is made from, and the size it is made of.
LastSize == IF stages = <<>> THEN order.size ELSE stages[Len(stages)]
NextSize == IF stages = <<>> THEN First(order) ELSE After(order, LastSize)

\* A request that is refused for its number of passes would have grown too large.
LEMMA PassesTooMany ==
    ASSUME NEW o, IsOrder(o), StartsAsAsked(o), Enlarges(o.size, First(o)), TooMany(o, First(o)),
           \A a \in Axis : o.size[a] % o.grid = 0
    PROVE  \E n \in 1..Passes(o), a \in Axis : ChainOf(o)[n][a] > MaxSide
<1>1. PICK a \in Axis : o.size[a] + (First(o)[a] - o.size[a]) * Passes(o) > MaxSide
  BY DEF TooMany
<1>2. o.size[a] <= First(o)[a] /\ o.size[a] % o.grid = 0
  BY DEF Enlarges
<1>3. Passes(o) \in Nat \ {0} /\ o.size[a] \in Nat /\ First(o)[a] \in Nat /\ MaxSide \in Nat
  BY OrderNumbers, FirstIs, RefinementAssumption DEF Pair
<1>4. Passes(o) \in 1..Passes(o)
  BY <1>3
<1>5. /\ ChainOf(o)[Passes(o)][a] \in Nat
      /\ o.size[a] + (First(o)[a] - o.size[a]) * Passes(o) <= ChainOf(o)[Passes(o)][a]
  BY <1>2, <1>4, ChainGains
<1>6. PICK u \in Int : u = o.size[a] + (First(o)[a] - o.size[a]) * Passes(o)
  BY <1>3
<1>7. ChainOf(o)[Passes(o)][a] > MaxSide
  BY <1>1, <1>3, <1>5, <1>6
<1>8. QED
  BY <1>4, <1>7

\* A stage is added that enlarges the last one, or the chain is refused.
LEMMA StageKeeps == ASSUME HiresInv, AddStage PROVE HiresInv'
<1>1. /\ IsOrder(order) /\ phase = "chain" /\ order.method # "target" /\ StartsAsAsked(order)
      /\ Len(stages) < Passes(order) /\ stages \in Seq(Pair)
      /\ order' = order /\ baseSize' = baseSize /\ schedule' = schedule /\ sampled' = sampled
  BY DEF HiresInv, HiresTyped, HiresStages, AddStage
<1>2. /\ Passes(order) \in Nat \ {0} /\ order.size \in Pair /\ order.grid \in Nat \ {0}
      /\ \A a \in Axis : order.size[a] \in Nat \ {0}
  BY <1>1, OrderNumbers DEF StartsAsAsked
<1>3. LastSize \in Pair /\ \A a \in Axis : LastSize[a] > 0
  <2>1. CASE stages = <<>>
    BY <1>2, <2>1 DEF LastSize
  <2>2. CASE stages # <<>>
    <3>1. Len(stages) \in DOMAIN stages /\ stages[Len(stages)] \in Pair
      BY <1>1, <2>2
    <3>2. OnGrid(stages[Len(stages)])
      BY <3>1 DEF HiresInv, HiresStages, StageFits
    <3>3. QED
      BY <2>2, <3>1, <3>2 DEF LastSize, OnGrid
  <2>3. QED
    BY <2>1, <2>2
<1>4. NextSize \in Pair /\ \A a \in Axis : NextSize[a] % order.grid = 0
  BY <1>1, <1>3, FirstIs, AfterIs DEF NextSize
<1>5. \/ phase' = "refused" /\ refusal' = "chain" /\ stages' = stages
      \/ /\ phase' = "refused" /\ refusal' = "passes" /\ stages' = stages /\ stages = <<>>
         /\ Enlarges(LastSize, NextSize) /\ TooMany(order, NextSize)
      \/ /\ stages' = Append(stages, NextSize) /\ refusal' = refusal /\ Enlarges(LastSize, NextSize)
         /\ phase' = IF Len(stages) + 1 < Passes(order) THEN "chain" ELSE "steps"
  <2>1. PICK last, next : last = LastSize /\ next = NextSize
    OBVIOUS
  <2>2. IF ~Enlarges(last, next) \/ \E a \in Axis : next[a] > MaxSide
        THEN Refuse("chain") /\ UNCHANGED stages
        ELSE IF stages = <<>> /\ TooMany(order, next)
        THEN Refuse("passes") /\ UNCHANGED stages
        ELSE /\ stages' = Append(stages, next) /\ UNCHANGED refusal
             /\ phase' = IF Len(stages) + 1 < Passes(order) THEN "chain" ELSE "steps"
    BY <2>1 DEF AddStage, LastSize, NextSize
  <2>3. QED
    BY <2>1, <2>2 DEF Refuse
<1>6. CASE phase' = "refused" /\ stages' = stages /\ refusal' \in {"chain", "passes"}
  <2>1. HiresTyped'
    BY <1>1, <1>6 DEF HiresInv, HiresTyped, HiresPhases
  <2>2. HiresStages'
    BY <1>1, <1>6 DEF HiresInv, HiresStages, StageFits, OnGrid
  <2>3. HiresBase' /\ HiresSchedule' /\ HiresSampled'
    BY <1>1, <1>6 DEF HiresInv, HiresBase, HiresSchedule, HiresSampled
  <2>4. ASSUME refusal' = "passes", OnGrid(order.size)
        PROVE  \E n \in 1..Passes(order), a \in Axis : ChainOf(order)[n][a] > MaxSide
    <3>1. Enlarges(order.size, First(order)) /\ TooMany(order, First(order))
      BY <1>1, <1>5, <2>4, <1>6 DEF LastSize, NextSize
    <3>2. \A a \in Axis : order.size[a] % order.grid = 0
      BY <2>4 DEF OnGrid
    <3>3. QED
      BY <1>1, <3>1, <3>2, PassesTooMany
  <2>5. HiresRefused'
    BY <1>1, <1>6, <2>4 DEF HiresRefused, RefusedForItsSize, OnGrid
  <2>6. QED
    BY <2>1, <2>2, <2>3, <2>5 DEF HiresInv
<1>7. CASE /\ stages' = Append(stages, NextSize) /\ refusal' = refusal /\ Enlarges(LastSize, NextSize)
           /\ phase' = IF Len(stages) + 1 < Passes(order) THEN "chain" ELSE "steps"
  <2>1. PICK m \in Nat : m = Len(stages)
    BY <1>1
  <2>2. /\ stages' \in Seq(Pair) /\ Len(stages') = m + 1 /\ stages'[m + 1] = NextSize
        /\ \A i \in 1..m : stages'[i] = stages[i]
    BY <1>1, <1>4, <1>7, <2>1
  <2>3. phase' \in {"chain", "steps"} /\ (phase' = "chain" => m + 1 < Passes(order))
        /\ (phase' = "steps" => m + 1 = Passes(order))
    BY <1>1, <1>2, <1>7, <2>1
  <2>4. HiresTyped'
    BY <1>1, <1>7, <2>2, <2>3 DEF HiresInv, HiresTyped, HiresPhases
  <2>5. ASSUME NEW i \in 1..m
        PROVE  StageFits(i)'
    <3>1. StageFits(i)
      BY <1>1, <2>1 DEF HiresInv, HiresStages
    <3>2. stages'[i] = stages[i] /\ (i # 1 => stages'[i - 1] = stages[i - 1])
      BY <2>1, <2>2
    <3>3. QED
      BY <1>1, <3>1, <3>2 DEF StageFits, OnGrid
  <2>6. StageFits(m + 1)'
    <3>1. LastSize = (IF m + 1 = 1 THEN order.size ELSE stages'[m]) /\ NextSize = IF m + 1 = 1 THEN First(order) ELSE After(order, stages'[m])
      <4>1. CASE m = 0
        <5>1. stages = <<>>
          BY <1>1, <2>1, <4>1, EmptySeq
        <5>2. QED
          BY <4>1, <5>1 DEF LastSize, NextSize
      <4>2. CASE m # 0
        <5>1. stages # <<>> /\ m \in 1..m /\ stages'[m] = stages[m] /\ m + 1 # 1
          BY <1>1, <2>1, <2>2, <4>2
        <5>2. QED
          BY <2>1, <5>1 DEF LastSize, NextSize
      <4>3. QED
        BY <4>1, <4>2
    <3>2. \A a \in Axis : NextSize[a] > 0 /\ NextSize[a] % order.grid = 0
      BY <1>3, <1>4, <1>7 DEF Enlarges, Pair
    <3>3. m + 1 - 1 = m
      OBVIOUS
    <3>4. QED
      BY <1>1, <1>7, <2>2, <3>1, <3>2, <3>3 DEF StageFits, OnGrid
  <2>7. HiresStages'
    <3>1. \A i \in DOMAIN stages' : StageFits(i)'
      <4>1. \A i \in DOMAIN stages' : i \in 1..m \/ i = m + 1
        BY <2>2
      <4>2. QED
        BY <2>5, <2>6, <4>1
    <3>2. order'.fix
      BY <1>1 DEF StartsAsAsked
    <3>3. QED
      BY <1>1, <2>2, <2>3, <3>1, <3>2 DEF HiresStages
  <2>8. HiresBase' /\ HiresSchedule' /\ HiresSampled'
    BY <1>1, <2>3 DEF HiresInv, HiresBase, HiresSchedule, HiresSampled
  <2>9. HiresRefused'
    BY <1>1, <1>7 DEF HiresInv, HiresTyped, HiresRefused, RefusedForItsSize
  <2>10. QED
    BY <2>4, <2>7, <2>8, <2>9 DEF HiresInv
<1>8. QED
  BY <1>5, <1>6, <1>7

\* The schedule is resolved to one that has a step, or refused.
LEMMA StepsKeep == ASSUME HiresInv, ResolveSteps PROVE HiresInv'
<1>1. /\ IsOrder(order) /\ phase = "steps" /\ order.fix /\ schedule' = Schedule(order)
      /\ order' = order /\ baseSize' = baseSize /\ stages' = stages /\ sampled' = sampled
  BY DEF HiresInv, HiresTyped, HiresStages, ResolveSteps
<1>2. PICK n \in Nat \ {0} : n = Schedule(order)
  BY <1>1, ScheduleIs
<1>3. Counted(order, n) \in Int
  BY <1>1, CountsExecute
<1>4. \/ phase' = "refused" /\ refusal' = "steps" /\ Counted(order, n) < 1
      \/ phase' = "refused" /\ refusal' = "comfy"
      \/ phase' = "base" /\ refusal' = refusal /\ Counted(order, n) >= 1
  BY <1>2, <1>3 DEF ResolveSteps, Refuse
<1>5. HiresTyped'
  BY <1>1, <1>2, <1>4 DEF HiresInv, HiresTyped, HiresPhases
<1>6. HiresStages'
  BY <1>1, <1>4 DEF HiresInv, HiresStages, StageFits, OnGrid
<1>7. HiresBase'
  BY <1>1, <1>4 DEF HiresInv, HiresBase, IsHalf
<1>8. HiresSchedule'
  BY <1>1, <1>2, <1>4 DEF HiresSchedule
<1>9. HiresSampled'
  BY <1>1, <1>4 DEF HiresInv, HiresSampled
<1>10. HiresRefused'
  <2>1. ASSUME order.hiresSteps = 0, order.method = "target"
        PROVE  Counted(order, n) >= 1
    BY <1>1, <1>2, <2>1, ScheduleIs, CountsOne
  <2>2. order.hiresSteps = 0 /\ order.method = "target" => refusal' # "steps"
    <3>1. refusal = "none"
      BY <1>1 DEF HiresInv, HiresTyped
    <3>2. QED
      BY <1>3, <1>4, <2>1, <3>1
  <2>3. refusal' # "passes"
    BY <1>1, <1>4 DEF HiresInv, HiresTyped
  <2>4. QED
    BY <1>1, <2>2, <2>3 DEF HiresRefused, RefusedForItsSize
<1>11. QED
  BY <1>5, <1>6, <1>7, <1>8, <1>9, <1>10 DEF HiresInv

\* The base is sampled in its size.
LEMMA BaseKeeps == ASSUME HiresInv, SampleBase PROVE HiresInv'
<1>1. /\ IsOrder(order) /\ phase = "base" /\ sampled = <<>>
      /\ order' = order /\ baseSize' = baseSize /\ stages' = stages /\ schedule' = schedule
  BY DEF HiresInv, HiresTyped, HiresSampled, SampleBase
<1>2. \/ phase' = "refused" /\ refusal' = "grid" /\ sampled' = sampled
      \/ /\ \A a \in Axis : order.size[a] # 0 /\ order.size[a] % order.grid = 0
         /\ sampled' = <<[size |-> baseSize, told |-> BaseTold(order), steps |-> order.steps]>>
         /\ phase' = IF stages = <<>> THEN "publish" ELSE "refine"
         /\ refusal' = refusal
  BY DEF SampleBase, Refuse
<1>3. [size |-> baseSize, told |-> BaseTold(order), steps |-> order.steps] \in Image
  <2>1. baseSize \in Pair /\ order.told \in Pair /\ order.steps \in Int
    BY <1>1 DEF HiresInv, HiresTyped, IsOrder
  <2>2. BaseTold(order) \in Pair
    BY <2>1 DEF BaseTold
  <2>3. QED
    BY <2>1, <2>2 DEF Image
<1>4. HiresTyped'
  <2>1. \A p \in Image : <<p>> \in Seq(Image)
    OBVIOUS
  <2>2. sampled \in Seq(Image)
    BY DEF HiresInv, HiresTyped
  <2>3. sampled' \in Seq(Image)
    BY <1>2, <1>3, <2>1, <2>2
  <2>4. QED
    BY <1>1, <1>2, <2>3 DEF HiresInv, HiresTyped, HiresPhases
<1>5. HiresStages'
  BY <1>1, <1>2 DEF HiresInv, HiresStages, StageFits, OnGrid
<1>6. HiresBase'
  BY <1>1, <1>2 DEF HiresInv, HiresBase, IsHalf
<1>7. HiresSchedule'
  BY <1>1, <1>2 DEF HiresInv, HiresSchedule
<1>8. HiresSampled'
  <2>1. CASE phase' = "refused" /\ sampled' = sampled
    BY <1>1, <2>1 DEF HiresSampled
  <2>2. CASE /\ \A a \in Axis : order.size[a] # 0 /\ order.size[a] % order.grid = 0
             /\ sampled' = <<[size |-> baseSize, told |-> BaseTold(order), steps |-> order.steps]>>
             /\ phase' = IF stages = <<>> THEN "publish" ELSE "refine"
    <3>1. OnGrid(order.size)
      BY <1>1, <2>2, OrderNumbers DEF OnGrid
    <3>2. Len(sampled') = 1 /\ sampled'[1] = [size |-> baseSize, told |-> BaseTold(order), steps |-> order.steps]
      BY <2>2
    <3>3. stages = <<>> => Len(stages) = 0
      OBVIOUS
    <3>4. stages # <<>> => Len(stages) \in Nat \ {0}
      BY DEF HiresInv, HiresTyped
    <3>5. \A i \in DOMAIN sampled' : i = 1
      BY <2>2
    <3>6. BaseTold(order)' = BaseTold(order)
      BY <1>1 DEF BaseTold
    <3>7. OnGrid(order.size)'
      BY <1>1, <3>1 DEF OnGrid
    <3>8. QED
      BY <1>1, <2>2, <3>2, <3>3, <3>4, <3>5, <3>6, <3>7 DEF HiresSampled
  <2>3. QED
    BY <1>2, <2>1, <2>2
<1>9. HiresRefused'
  BY <1>1, <1>2 DEF HiresInv, HiresTyped, HiresRefused, RefusedForItsSize
<1>10. QED
  BY <1>4, <1>5, <1>6, <1>7, <1>8, <1>9 DEF HiresInv

\* A stage is sampled in its size, with a step.
LEMMA RefineKeeps == ASSUME HiresInv, RefinePass PROVE HiresInv'
<1>1. /\ IsOrder(order) /\ phase = "refine" /\ stages \in Seq(Pair) /\ sampled \in Seq(Image)
      /\ order' = order /\ baseSize' = baseSize /\ stages' = stages /\ schedule' = schedule /\ refusal' = refusal
      /\ refusal = "none"
  BY DEF HiresInv, HiresTyped, RefinePass
<1>2. PICK k \in Nat : k = Len(sampled) /\ k \in 1..Len(stages)
  BY <1>1 DEF HiresInv, HiresSampled
<1>3. stages # <<>> /\ order.fix
  BY <1>1, <1>2 DEF HiresInv, HiresStages
<1>4. schedule \in Nat \ {0} /\ Executed(order, schedule) \in Int /\ Executed(order, schedule) >= 1
  <2>1. schedule = Schedule(order) /\ Counted(order, schedule) >= 1
    BY <1>1, <1>3 DEF HiresInv, HiresSchedule
  <2>2. schedule \in Nat \ {0}
    BY <1>1, <2>1, ScheduleIs
  <2>3. QED
    BY <1>1, <2>1, <2>2, CountsExecute
<1>5. PICK p \in Image : p = [size |-> stages[k], told |-> stages[k], steps |-> Executed(order, schedule)]
  <2>1. stages[k] \in Pair
    BY <1>1, <1>2
  <2>2. QED
    BY <1>4, <2>1 DEF Image
<1>6. sampled' = Append(sampled, p) /\ phase' = IF k < Len(stages) THEN "refine" ELSE "publish"
  BY <1>2, <1>4, <1>5 DEF RefinePass
<1>7. /\ sampled' \in Seq(Image) /\ Len(sampled') = k + 1 /\ sampled'[k + 1] = p
      /\ \A i \in 1..k : sampled'[i] = sampled[i]
  BY <1>1, <1>2, <1>5, <1>6
<1>8. HiresTyped'
  BY <1>1, <1>6, <1>7 DEF HiresInv, HiresTyped, HiresPhases
<1>9. HiresStages'
  BY <1>1, <1>6 DEF HiresInv, HiresStages, StageFits, OnGrid
<1>10. HiresBase'
  BY <1>1, <1>6 DEF HiresInv, HiresBase, IsHalf
<1>11. HiresSchedule'
  BY <1>1, <1>6 DEF HiresInv, HiresSchedule
<1>12. HiresSampled'
  <2>1. /\ phase' = "refine" => Len(sampled') \in 1..Len(stages)
        /\ phase' = "publish" => Len(sampled') = Len(stages) + 1
    BY <1>1, <1>2, <1>6, <1>7
  <2>2. OnGrid(order.size)' /\ sampled'[1] = sampled[1]
    <3>1. OnGrid(order.size) /\ 1 \in 1..k
      BY <1>1, <1>2 DEF HiresInv, HiresSampled
    <3>2. QED
      BY <1>1, <1>7, <3>1 DEF OnGrid
  <2>3. sampled'[1] = [size |-> baseSize, told |-> BaseTold(order), steps |-> order.steps]
    BY <1>1, <1>2, <2>2 DEF HiresInv, HiresSampled
  <2>4. BaseTold(order)' = BaseTold(order)
    BY <1>1 DEF BaseTold
  <2>5. ASSUME NEW i \in DOMAIN sampled', i # 1
        PROVE  sampled'[i] = [size |-> stages[i - 1], told |-> stages[i - 1], steps |-> Executed(order, schedule)]
    <3>1. CASE i \in 1..k
      <4>1. sampled'[i] = sampled[i] /\ i \in DOMAIN sampled
        BY <1>1, <1>2, <1>7, <3>1
      <4>2. QED
        BY <2>5, <4>1 DEF HiresInv, HiresSampled
    <3>2. CASE i = k + 1
      <4>1. i - 1 = k
        BY <3>2
      <4>2. QED
        BY <1>5, <1>7, <3>2, <4>1
    <3>3. QED
      BY <1>7, <3>1, <3>2
  <2>6. phase' \in {"refine", "publish"}
    BY <1>6
  <2>7. QED
    BY <1>1, <2>1, <2>2, <2>3, <2>4, <2>5, <2>6 DEF HiresSampled
<1>13. HiresRefused'
  BY <1>1 DEF HiresInv, HiresRefused, RefusedForItsSize
<1>14. QED
  BY <1>8, <1>9, <1>10, <1>11, <1>12, <1>13 DEF HiresInv

\* Every step keeps it.
LEMMA HiresNextInv == ASSUME HiresInv, [RefinementNext]_refinementVars PROVE HiresInv'
<1>1. CASE UNCHANGED refinementVars
  <2> USE <1>1 DEF refinementVars
  <2>1. HiresTyped' /\ HiresBase' /\ HiresSchedule'
    BY DEF HiresInv, HiresTyped, HiresBase, HiresSchedule, IsHalf
  <2>2. HiresStages'
    BY DEF HiresInv, HiresStages, StageFits, OnGrid
  <2>3. BaseTold(order)' = BaseTold(order)
    BY DEF BaseTold
  <2>4. HiresSampled'
    BY <2>3 DEF HiresInv, HiresSampled, OnGrid
  <2>5. HiresRefused'
    BY DEF HiresInv, HiresRefused, RefusedForItsSize, OnGrid
  <2>6. QED
    BY <2>1, <2>2, <2>4, <2>5 DEF HiresInv
<1>2. QED
  BY <1>1, SkipKeeps, TargetKeeps, StartKeeps, StageKeeps, StepsKeep, BaseKeeps, RefineKeeps DEF RefinementNext

-----------------------------------------------------------------------------
\* The stages of a request that is turned are turned.
LEMMA TurnedAlike ==
    ASSUME NEW s \in Pair, IsOrder(order), StartsAsAsked(order)
    PROVE  Turn(After(Turned, Turn(s))) = After(order, s)
<1> DEFINE t == Turned
<1>1. /\ t.size = Turn(order.size) /\ t.goal = Turn(order.goal)
      /\ t.method = order.method /\ t.ratio = order.ratio /\ t.grid = order.grid
  BY DEF Turned, IsOrder
<1>2. order.size \in Pair /\ order.goal \in Pair
  BY DEF IsOrder
<1>3. \A x : Turn(x)[1] = x[2] /\ Turn(x)[2] = x[1]
  BY DEF Turn
<1>4. 1 \in Axis /\ 2 \in Axis /\ Other(1) = 2 /\ Other(2) = 1
  BY DEF Axis, Other
<1> HIDE DEF t
<1>5. First(t)[1] = First(order)[2] /\ First(t)[2] = First(order)[1]
  <2> DEFINE side(o, a, b) == IF o.method = "scale" THEN NearestMultiple(o.size[a], o.ratio, o.grid)
                              ELSE IF o.goal[a] # 0 THEN o.goal[a]
                              ELSE NearestMultiple(o.goal[b], <<o.size[a], o.size[b]>>, o.grid)
  <2>1. \A o : \A a \in Axis : First(o)[a] = side(o, a, Other(a))
    BY DEF First
  <2> HIDE DEF side
  <2>2. First(t)[1] = side(t, 1, 2) /\ First(t)[2] = side(t, 2, 1)
    BY ONLY <1>4, <2>1
  <2>3. First(order)[1] = side(order, 1, 2) /\ First(order)[2] = side(order, 2, 1)
    BY ONLY <1>4, <2>1
  <2>4. t.size[1] = order.size[2] /\ t.size[2] = order.size[1] /\ t.goal[1] = order.goal[2] /\ t.goal[2] = order.goal[1]
    BY <1>1, <1>3
  <2>5. side(t, 1, 2) = side(order, 2, 1) /\ side(t, 2, 1) = side(order, 1, 2)
    BY ONLY <1>1, <2>4 DEF side
  <2>6. QED
    BY <2>2, <2>3, <2>5
<1>6. /\ After(t, Turn(s))[1] = After(order, s)[2]
      /\ After(t, Turn(s))[2] = After(order, s)[1]
  <2>1. \A a \in Axis : After(t, Turn(s))[a] =
          NearestMultiple(Turn(s)[a], IF t.method = "scale" THEN t.ratio ELSE <<First(t)[a], t.size[a]>>, t.grid)
    BY DEF After
  <2>2. \A a \in Axis : After(order, s)[a] =
          NearestMultiple(s[a], IF order.method = "scale" THEN order.ratio ELSE <<First(order)[a], order.size[a]>>, order.grid)
    BY DEF After
  <2>3. t.size[1] = order.size[2] /\ t.size[2] = order.size[1] /\ Turn(s)[1] = s[2] /\ Turn(s)[2] = s[1]
    BY <1>1, <1>3
  <2>4. QED
    BY <1>1, <1>4, <1>5, <2>1, <2>2, <2>3
<1>7. After(order, s) \in Pair
  BY AfterIs
<1>8. \A x \in Pair : x = <<x[1], x[2]>>
  BY DEF Pair, Axis
<1>9. QED
  BY <1>6, <1>7, <1>8 DEF Turn, t

\* The type invariant follows.
LEMMA HiresTypeOK == HiresInv => RefinementTypeOK
<1> SUFFICES ASSUME HiresInv PROVE RefinementTypeOK
  OBVIOUS
<1>1. IsOrder(order) /\ stages \in Seq(Pair) /\ sampled \in Seq(Image) /\ (\E kind \in Orders : order \in kind)
  BY DEF HiresInv, HiresTyped
<1>2. Len(sampled) <= Len(stages) + 1
  <2>1. phase \notin {"refine", "publish"} => Len(sampled) = 0
    BY DEF HiresInv, HiresSampled
  <2>2. QED
    BY <1>1, <2>1 DEF HiresInv, HiresSampled
<1>3. ASSUME phase = "publish", NEW i \in DOMAIN sampled
      PROVE  OnGrid(sampled[i].size)
  <2>1. Len(sampled) = Len(stages) + 1 /\ sampled # <<>>
    BY <1>1, <1>3 DEF HiresInv, HiresSampled
  <2>2. CASE i = 1
    <3>1. sampled[1].size = baseSize
      BY <2>1 DEF HiresInv, HiresSampled
    <3>2. CASE order.method = "target" /\ order.fix
      BY <1>3, <2>2, <3>1, <3>2 DEF HiresInv, HiresBase, OnGrid, IsHalf
    <3>3. CASE ~(order.method = "target" /\ order.fix)
      <4>1. baseSize = order.size /\ OnGrid(order.size)
        BY <2>1, <3>3 DEF HiresInv, HiresBase, HiresSampled
      <4>2. QED
        BY <2>2, <3>1, <4>1
    <3>4. QED
      BY <3>2, <3>3
  <2>3. CASE i # 1
    <3>1. i - 1 \in DOMAIN stages
      BY <1>1, <2>1, <2>3
    <3>2. sampled[i].size = stages[i - 1]
      BY <2>3 DEF HiresInv, HiresSampled
    <3>3. OnGrid(stages[i - 1])
      BY <3>1 DEF HiresInv, HiresStages, StageFits
    <3>4. QED
      BY <3>2, <3>3
  <2>4. QED
    BY <2>2, <2>3
<1>4. QED
  BY <1>1, <1>2, <1>3 DEF RefinementTypeOK, HiresInv, HiresSampled

\* The last image of a request that is refined is that of the last stage.
LEMMA FinalIs ==
    ASSUME HiresInv, phase = "publish", order.fix
    PROVE  /\ Len(stages) \in DOMAIN stages /\ Final.size = stages[Len(stages)]
           /\ Final.steps = Executed(order, Schedule(order))
<1>1. IsOrder(order) /\ stages \in Seq(Pair) /\ sampled \in Seq(Image)
  BY DEF HiresInv, HiresTyped
<1>2. PICK m \in Nat \ {0} : m = Len(stages) /\ Len(sampled) = m + 1
  BY <1>1, OrderNumbers DEF HiresInv, HiresStages, HiresSampled
<1>3. m + 1 \in DOMAIN sampled /\ m + 1 # 1 /\ (m + 1) - 1 = m
  BY <1>1, <1>2
<1>4. Final = [size |-> stages[m], told |-> stages[m], steps |-> Executed(order, schedule)]
  BY <1>2, <1>3 DEF Final, HiresInv, HiresSampled
<1>5. schedule = Schedule(order)
  BY DEF HiresInv, HiresSchedule
<1>6. QED
  BY <1>1, <1>2, <1>4, <1>5

\* The inductive invariant is what was asked for.
LEMMA HiresAsAsked == HiresInv => StagesAsAsked
<1> SUFFICES ASSUME HiresInv PROVE StagesAsAsked
  OBVIOUS
<1>1. IsOrder(order) /\ stages \in Seq(Pair) /\ sampled \in Seq(Image) /\ phase \in HiresPhases
  BY DEF HiresInv, HiresTyped
<1>2. RefinementTypeOK
  BY HiresTypeOK
<1>3. TargetReached
  <2> SUFFICES ASSUME phase = "publish", order.method = "target"
               PROVE  /\ Final.size = order.size
                      /\ order.fix => \A a \in Axis :
                            /\ baseSize[a] <= order.size[a]
                            /\ 2 * baseSize[a] - order.size[a] \in -order.grid..order.grid
    BY DEF TargetReached
  <2>1. CASE order.fix
    <3>1. Final.size = order.size
      BY <2>1, FinalIs DEF HiresInv, HiresStages, StageFits
    <3>2. \A a \in Axis : IsHalf(baseSize[a], a)
      BY <2>1 DEF HiresInv, HiresBase
    <3>3. QED
      BY <3>1, <3>2 DEF IsHalf
  <2>2. CASE ~order.fix
    <3>1. Len(sampled) = 1
      BY <2>2 DEF HiresInv, HiresStages, HiresSampled
    <3>2. Final.size = baseSize
      <4>1. sampled # <<>>
        BY <3>1
      <4>2. QED
        BY <3>1, <4>1 DEF Final, HiresInv, HiresSampled
    <3>3. QED
      BY <2>2, <3>2 DEF HiresInv, HiresBase
  <2>3. QED
    BY <2>1, <2>2
<1>4. ChainGrows
  BY DEF ChainGrows, HiresInv, HiresStages, StageFits
<1>5. AxesAlike
  <2> SUFFICES ASSUME order.method # "target", NEW i \in DOMAIN stages
               PROVE  /\ i > 1 => stages[i] = Turn(After(Turned, Turn(stages[i - 1])))
                      /\ i = 1 => \A a \in Axis : order.goal[a] \in {0, stages[1][a]}
    BY DEF AxesAlike
  <2>1. StartsAsAsked(order) /\ StageFits(i)
    BY DEF HiresInv, HiresStages
  <2>2. ASSUME i > 1
        PROVE  stages[i] = Turn(After(Turned, Turn(stages[i - 1])))
    <3>1. stages[i - 1] \in Pair /\ i # 1
      BY <1>1, <2>2
    <3>2. stages[i] = After(order, stages[i - 1])
      BY <2>1, <3>1 DEF StageFits
    <3>3. QED
      BY <1>1, <2>1, <3>1, <3>2, TurnedAlike
  <2>3. ASSUME i = 1
        PROVE  \A a \in Axis : order.goal[a] \in {0, stages[1][a]}
    <3>1. stages[1] = First(order)
      BY <2>1, <2>3 DEF StageFits
    <3>2. QED
      BY <1>1, <2>1, <3>1, FirstIs
  <2>4. QED
    BY <2>2, <2>3
<1>6. ToldItsSize
  <2> SUFFICES ASSUME NEW i \in DOMAIN sampled, i > 1 \/ order.told = Unsaid
               PROVE  sampled[i].told = sampled[i].size
    BY DEF ToldItsSize
  <2>1. CASE i = 1
    <3>1. order.told = Unsaid /\ sampled # <<>>
      BY <2>1
    <3>2. BaseTold(order) = baseSize
      BY <3>1 DEF BaseTold
    <3>3. QED
      BY <2>1, <3>1, <3>2 DEF HiresInv, HiresSampled
  <2>2. CASE i # 1
    BY <2>2 DEF HiresInv, HiresSampled
  <2>3. QED
    BY <2>1, <2>2
<1>7. RefusedForItsSize
  BY DEF HiresInv, HiresRefused
<1>8. ResolvedRefines
  BY <1>1 DEF ResolvedRefines, HiresPhases
<1>9. DefaultsKeepSteps
  <2> SUFFICES ASSUME order.hiresSteps = 0, order.fix
               PROVE  /\ order.method = "target" => refusal # "steps"
                      /\ phase = "publish" /\ order.front = "diffusers" /\ order.family = "sdxl-base" => Final.steps >= 10
    BY DEF DefaultsKeepSteps
  <2>1. order.method = "target" => refusal # "steps"
    BY DEF HiresInv, HiresRefused
  <2>2. ASSUME phase = "publish", order.front = "diffusers", order.family = "sdxl-base"
        PROVE  Final.steps >= 10
    <3>1. Final.steps = Executed(order, Schedule(order))
      BY <2>2, FinalIs
    <3>2. Schedule(order) \in Nat \ {0} /\ 10 * Strength(order)[2] <= Schedule(order) * Strength(order)[1]
      BY <1>1, <2>2, ScheduleIs
    <3>3. Executed(order, Schedule(order)) >= 10
      BY <1>1, <2>2, <3>2, ExecutesTen
    <3>4. QED
      BY <3>1, <3>3
  <2>3. QED
    BY <2>1, <2>2
<1>10. QED
  BY <1>2, <1>3, <1>4, <1>5, <1>6, <1>7, <1>8, <1>9 DEF StagesAsAsked

\* For every request, of any size, ratio, strength and number of passes, on any grid: the stages
\* are those that were asked for, and what resolves can be run (hires_options.py:95-212).
THEOREM StagesTrue == RefinementSpec => []StagesAsAsked
<1>1. RefinementSpec => []HiresInv
  BY HiresInitInv, HiresNextInv, PTL DEF RefinementSpec
<1>2. QED
  BY <1>1, HiresAsAsked, PTL
=============================================================================
