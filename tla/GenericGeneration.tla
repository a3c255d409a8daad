-------------------------- MODULE GenericGeneration --------------------------
(***************************************************************************)
(* A run of any installed pipeline (generate_any.py): from a model, an     *)
(* adapter, a VAE and input files to a directory of outputs with one       *)
(* report, generation.json.  A run is a program, a sequence of steps; it   *)
(* may fail or be killed before any of them.  Several runs may share a     *)
(* directory, no lock is taken, and other programs replace the files that  *)
(* are read.  (A pipeline that a worker retains takes the place of the     *)
(* loading only while its files have the signatures they were loaded with: *)
(* InferenceSession.)                                                      *)
(*                                                                         *)
(* The content of an output is the run that made it.  A file that is read  *)
(* has a content and a number of changes, which is its signature.          *)
(***************************************************************************)
EXTENDS Naturals, Sequences, SequencesExt, FiniteSets

CONSTANTS
    Drawers,       \* runs
    GenericJobs,   \* sets of functions: which runs there are, and their arguments
    Earlier,       \* what the directory holds at first
    Nothing,       \* no file, no report
    Other,         \* a file of somebody else
    SourceStates,  \* contents of a file that is read
    MaxChanges     \* bound: changes of a file that is read

ReadWeights == {"lora", "vae", "model"}
ReadFiles == ReadWeights \cup {"input"}
MediaFields == <<"images", "frames", "audios", "audio", "text", "texts">>
TokenFields == <<"sequences", "token_ids">>
Fields == ToSet(MediaFields) \cup ToSet(TokenFields) \cup {"latents"}
OutputNames == Fields \X (0..2)    \* 0 is the tensor of the field, 1 and 2 are its media files

\* The arguments of a run and what its pipeline returns.
IsJob(j) ==
    /\ {j.overwrite, j.preparing, j.metadata, j.latent} \subseteq BOOLEAN
    /\ j.uses \subseteq {"lora", "vae", "input"}
    /\ DOMAIN j.returned \subseteq Fields /\ \A n \in DOMAIN j.returned : j.returned[n] \in 0..2
    /\ j.declared \in Seq(Fields) /\ IsInjective(j.declared)

ASSUME GenericAssumption ==
    /\ Nothing \notin Drawers \cup {Other} /\ Other \notin Drawers
    /\ SourceStates # {} /\ MaxChanges \in Nat
    /\ Earlier \subseteq [OutputNames -> {Nothing, Other}]
    /\ \A jobs \in GenericJobs : \A job \in jobs :
           DOMAIN job \subseteq Drawers /\ \A d \in DOMAIN job : IsJob(job[d])

VARIABLES
    asked,     \* run -> overwrite, preparing, metadata, the files it uses and those that others
               \* change meanwhile, the fields returned, declared and latent, the safety flags
    ending,    \* run -> "run", "complete" or "failed"
    program,   \* run -> its steps: operation, and what it is done to
    passed,    \* run -> steps taken
    source,    \* file that is read -> content and changes
    identity,  \* run -> file -> what source was when its digest was taken
    loaded,    \* run -> file -> what source was when it was read
    place,     \* output name -> the run that made what is there
    manifest,  \* generation.json: by whom, and the outputs it lists
    aside,     \* run -> the report it has put aside, or an empty file
    listed,    \* run -> the outputs it has saved, and of whom their digests are
    met        \* run -> runs that were publishing while it was

genericVars ==
    <<asked, program, ending, passed, source, identity, loaded, place, manifest, aside, listed, met>>

NoManifest    == [by |-> Nothing, lists |-> {}]
EmptyManifest == [by |-> Other, lists |-> {}]
Unread        == [content |-> CHOOSE c \in SourceStates : TRUE, changes |-> 0]

-----------------------------------------------------------------------------
(* The program of a run. *)

If(p, steps) == IF p THEN steps ELSE <<>>
Uses(d, f) == f \in asked[d].uses

\* resolve_arguments(): adapter and VAE are selected, each with the digest of its file.
Selecting(d) ==
    If(Uses(d, "lora"), <<<<"identify", "lora">>>>) \o If(Uses(d, "vae"), <<<<"identify", "vae">>>>)

Checking(d) ==
    If(Uses(d, "lora"), <<<<"verify", "lora">>>>) \o If(Uses(d, "vae"), <<<<"verify", "vae">>>>)

\* prepare_inputs(): an image or a tensor is read between two digests.
Input(d) == If(Uses(d, "input"), <<<<"identify", "input">>, <<"load", "input">>, <<"verify", "input">>>>)

\* load_selected_vae() and apply_lora() look at their file before and after they read it.
Careful(d, f) == If(Uses(d, f), <<<<"verify", f>>, <<"load", f>>, <<"verify", f>>>>)

\* prepared_pipeline() with load_pipeline().
Loading(d) ==
    Checking(d) \o <<<<"identify", "model">>>> \o Careful(d, "vae")
    \o <<<<"load", "model">>, <<"verify", "model">>>> \o If(Uses(d, "vae"), <<<<"verify", "vae">>>>)
    \o Careful(d, "lora")

Returns(d, n) == n \in DOMAIN asked[d].returned

IsDeclared(d, n) == n \in ToSet(asked[d].declared)

\* Fields saved as tensors: those declared, and those of tokens that are returned.
SavesTensor(d, n) == IsDeclared(d, n) \/ (n \in ToSet(TokenFields) /\ Returns(d, n))

\* Fields saved as media; audio is looked at only if there are no audios to save.
SavesMedia(d, n) ==
    /\ n \in ToSet(MediaFields) /\ Returns(d, n) /\ ~SavesTensor(d, n)
    /\ n = "audio" => ~(Returns(d, "audios") /\ ~SavesTensor(d, "audios"))

SaveTensor(d, n) ==
    IF Returns(d, n) THEN <<<<"save", <<n, 0>>>>, <<"digest", <<n, 0>>>>>> ELSE <<<<"refuse", n>>>>

\* The files of a field, of which there is at least one.
SaveMedia(d, n) ==
    LET count == asked[d].returned[n] IN
    IF count = 0 THEN <<<<"refuse", n>>>>
    ELSE FlattenSeq([i \in 1..count |-> <<<<"save", <<n, i>>>>, <<"digest", <<n, i>>>>>>])

\* Latents are not taken for pictures or sounds.
Undeclared(d) == asked[d].latent /\
    \E n \in {"images", "frames", "audios", "audio", "latents"} : Returns(d, n) /\ ~IsDeclared(d, n)

SaveDeclared(d) == LET names == asked[d].declared IN FlattenSeq([i \in DOMAIN names |-> SaveTensor(d, names[i])])
SaveTokens(d, n) == If(SavesTensor(d, n) /\ ~IsDeclared(d, n), SaveTensor(d, n))
SaveAllMedia(d) ==
    FlattenSeq([i \in DOMAIN MediaFields |-> If(SavesMedia(d, MediaFields[i]), SaveMedia(d, MediaFields[i]))])

\* save_outputs()
Saving(d) ==
    If(Undeclared(d), <<<<"refuse", "latents">>>>)
    \o SaveDeclared(d) \o SaveTokens(d, "sequences") \o SaveTokens(d, "token_ids") \o SaveAllMedia(d)
    \o If(\A n \in Fields : ~SavesTensor(d, n) /\ ~SavesMedia(d, n), <<<<"refuse", "text">>>>)

\* Mutant: the report that is there is put aside after the outputs are saved.
PublishingMutant(d) ==
    <<<<"open", "run">>>> \o Saving(d) \o If(asked[d].overwrite, <<<<"reserve", "run">>, <<"retire", "run">>>>)
    \o <<<<"safety", "run">>, <<"report", "run">>>>

\* publish_generation()
Publishing(d) ==
    <<<<"open", "run">>>> \o If(asked[d].overwrite, <<<<"reserve", "run">>, <<"retire", "run">>>>)
    \o Saving(d) \o <<<<"safety", "run">>, <<"report", "run">>>>

\* main()
Steps(d) ==
    IF asked[d].preparing
    THEN Selecting(d) \o Loading(d) \o <<<<"verify", "model">>>>
    ELSE Selecting(d) \o <<<<"directory", "run">>>> \o Input(d) \o Loading(d)
         \o Checking(d) \o <<<<"verify", "model">>>> \o Publishing(d)

GenericInit ==
    /\ \E jobs \in GenericJobs : asked \in jobs
    /\ program = [d \in DOMAIN asked |-> Steps(d)]
    /\ ending = [d \in Drawers |-> "run"]
    /\ passed = [d \in Drawers |-> 0]
    /\ source = [f \in ReadFiles |-> Unread]
    /\ identity = [d \in Drawers |-> source]
    /\ loaded = [d \in Drawers |-> source]
    /\ place \in Earlier
    /\ manifest = NoManifest
    /\ aside = [d \in Drawers |-> NoManifest]
    /\ listed = [d \in Drawers |-> <<>>]
    /\ met = [d \in Drawers |-> {}]

Now(d) == program[d][passed[d] + 1]
Due(d, op) == ending[d] = "run" /\ passed[d] < Len(program[d]) /\ Now(d)[1] = op
Taking(d) == passed' = [passed EXCEPT ![d] = @ + 1]

-----------------------------------------------------------------------------
(* Reading. *)

\* file_identity(), model_identity(), resolve_weight_file()
Identify(d) ==
    /\ Due(d, "identify")
    /\ identity' = [identity EXCEPT ![d][Now(d)[2]] = source[Now(d)[2]]]
    /\ Taking(d)
    /\ UNCHANGED <<asked, program, ending, source, loaded, place, manifest, aside, listed, met>>

LoadSource(d) ==
    /\ Due(d, "load")
    /\ loaded' = [loaded EXCEPT ![d][Now(d)[2]] = source[Now(d)[2]]]
    /\ Taking(d)
    /\ UNCHANGED <<asked, program, ending, source, identity, place, manifest, aside, listed, met>>

\* verify_identity() and the like: by content, or by signature where digests are not taken.
Same(d, f) ==
    IF asked[d].metadata /\ f \in ReadWeights
    THEN source[f] = identity[d][f]
    ELSE source[f].content = identity[d][f].content

VerifySource(d) ==
    /\ Due(d, "verify") /\ Same(d, Now(d)[2])
    /\ Taking(d)
    /\ UNCHANGED <<asked, program, ending, source, identity, loaded, place, manifest, aside, listed, met>>

-----------------------------------------------------------------------------
(* The directory. *)

IsEmpty == manifest = NoManifest /\ (\A n \in OutputNames : place[n] = Nothing)
               /\ \A d \in Drawers : aside[d] = NoManifest

\* Before anything is loaded, unless the run is to overwrite.
CheckDirectory(d) ==
    /\ Due(d, "directory") /\ (asked[d].overwrite \/ IsEmpty)
    /\ Taking(d)
    /\ UNCHANGED <<asked, program, ending, source, identity, loaded, place, manifest, aside, listed, met>>

IsPublishing(d) ==
    /\ ending[d] = "run" /\ passed[d] < Len(program[d])
    /\ \E i \in 1..passed[d] : program[d][i][1] = "open"

\* publish_generation() begins: a note of who else is in it.
OpenPublication(d) ==
    /\ Due(d, "open")
    /\ LET others == {e \in DOMAIN asked \ {d} : IsPublishing(e)} IN
       met' = [e \in Drawers |-> met[e] \cup IF e = d THEN others ELSE IF e \in others THEN {d} ELSE {}]
    /\ Taking(d)
    /\ UNCHANGED <<asked, program, ending, source, identity, loaded, place, manifest, aside, listed>>

\* retire_previous_report(): a name for the report that is there, if there is one.
Reserve(d) ==
    /\ Due(d, "reserve")
    /\ IF manifest = NoManifest
       THEN passed' = [passed EXCEPT ![d] = @ + 2] /\ UNCHANGED aside
       ELSE Taking(d) /\ aside' = [aside EXCEPT ![d] = EmptyManifest]
    /\ UNCHANGED <<asked, program, ending, source, identity, loaded, place, manifest, listed, met>>

\* provider.replace(previous, archive)
RetireReport(d) ==
    /\ Due(d, "retire") /\ manifest # NoManifest
    /\ aside' = [aside EXCEPT ![d] = manifest] /\ manifest' = NoManifest
    /\ Taking(d)
    /\ UNCHANGED <<asked, program, ending, source, identity, loaded, place, listed, met>>

\* atomic_write(): a rename, or a link, which takes no name that is taken.
SaveOutput(d) ==
    /\ Due(d, "save") /\ (asked[d].overwrite \/ place[Now(d)[2]] = Nothing)
    /\ place' = [place EXCEPT ![Now(d)[2]] = d]
    /\ Taking(d)
    /\ UNCHANGED <<asked, program, ending, source, identity, loaded, manifest, aside, listed, met>>

\* file_identity() of what is there now.
DigestOutput(d) ==
    /\ Due(d, "digest")
    /\ listed' = [listed EXCEPT ![d] = Append(@, [name |-> Now(d)[2], of |-> place[Now(d)[2]]])]
    /\ Taking(d)
    /\ UNCHANGED <<asked, program, ending, source, identity, loaded, place, manifest, aside, met>>

Pictured(d) == {o \in ToSet(listed[d]) : o.name[1] = "images" /\ o.name[2] # 0}

\* safety_metadata(): one flag of the checker for each image.
Safety(d) ==
    /\ Due(d, "safety")
    /\ asked[d].flags # Nothing /\ Pictured(d) # {} => asked[d].flags = Cardinality(Pictured(d))
    /\ Taking(d)
    /\ UNCHANGED <<asked, program, ending, source, identity, loaded, place, manifest, aside, listed, met>>

WriteReport(d) ==
    /\ Due(d, "report") /\ (asked[d].overwrite \/ manifest = NoManifest)
    /\ manifest' = [by |-> d, lists |-> ToSet(listed[d])]
    /\ Taking(d)
    /\ UNCHANGED <<asked, program, ending, source, identity, loaded, place, aside, listed, met>>

-----------------------------------------------------------------------------
Finish(d) ==
    /\ ending[d] = "run" /\ passed[d] = Len(program[d])
    /\ ending' = [ending EXCEPT ![d] = "complete"]
    /\ UNCHANGED <<asked, program, passed, source, identity, loaded, place, manifest, aside, listed, met>>

\* A report that cannot be put aside gives its name back; all else stays as it is.
FailRun(d) ==
    /\ ending[d] = "run" /\ passed[d] < Len(program[d])
    /\ ending' = [ending EXCEPT ![d] = "failed"]
    /\ aside' = IF Due(d, "retire") THEN [aside EXCEPT ![d] = NoManifest] ELSE aside
    /\ UNCHANGED <<asked, program, passed, source, identity, loaded, place, manifest, listed, met>>

KillRun(d) ==
    /\ ending[d] = "run" /\ passed[d] < Len(program[d])
    /\ ending' = [ending EXCEPT ![d] = "failed"]
    /\ UNCHANGED <<asked, program, passed, source, identity, loaded, place, manifest, aside, listed, met>>

\* Another program writes a file, with another content or the same.
ChangeSource(f) ==
    /\ source[f].changes < MaxChanges /\ \E d \in DOMAIN asked : f \in asked[d].restless
    /\ \E c \in SourceStates : source' = [source EXCEPT ![f] = [content |-> c, changes |-> @.changes + 1]]
    /\ UNCHANGED <<asked, program, ending, passed, identity, loaded, place, manifest, aside, listed, met>>

GenericNext ==
    \/ \E d \in DOMAIN asked :
        \/ Identify(d) \/ LoadSource(d) \/ VerifySource(d)
        \/ CheckDirectory(d) \/ OpenPublication(d) \/ Reserve(d) \/ RetireReport(d)
        \/ SaveOutput(d) \/ DigestOutput(d) \/ Safety(d) \/ WriteReport(d)
        \/ Finish(d) \/ FailRun(d) \/ KillRun(d)
    \/ \E f \in ReadFiles : ChangeSource(f)

GenericSpec == GenericInit /\ [][GenericNext]_genericVars

-----------------------------------------------------------------------------
\* Every variable keeps its type (generate_any.py:748).
GenericTypeOK ==
    /\ ending \in [Drawers -> {"run", "complete", "failed"}]
    /\ \A d \in DOMAIN asked : passed[d] \in 0..Len(program[d])
    /\ source \in [ReadFiles -> [content : SourceStates, changes : 0..MaxChanges]]
    /\ \A n \in OutputNames : place[n] \in Drawers \cup {Nothing, Other}
    /\ \A r \in {manifest} \cup {aside[d] : d \in Drawers} :
           r.by \in Drawers \cup {Nothing, Other} /\ \A o \in r.lists : o.name \in OutputNames /\ o.of \in Drawers

\* An overwriting run was publishing while run d was.
Overlapped(d) == \E e \in met[d] : asked[e].overwrite

\* What generation.json lists is there and is what its run made, at every step of every run, unless
\* an overwriting run published at the same time (generate_any.py:697 "never leave it claiming a
\* partially replaced run").
ReportOfWhatIsThere == manifest.by \in Drawers /\ ~Overlapped(manifest.by) =>
    \A o \in manifest.lists : place[o.name] = manifest.by /\ o.of = manifest.by

\* The report of every run that completed is there or was put aside, with the same exception
\* (generate_any.py:697 "Keep prior provenance").
NoReportLost == \A d \in DOMAIN asked :
    ending[d] = "complete" /\ ~asked[d].preparing /\ ~Overlapped(d) =>
        \/ manifest.by = d
        \/ \E e \in Drawers : aside[e] = [by |-> d, lists |-> ToSet(listed[d])]

\* A file that is read is what the report says it is: for weights whose signature is compared always,
\* else unless it was changed and changed back around the reading (generate_any.py:465, 788-790).
SourcesAsReported == \A d \in DOMAIN asked, f \in ReadFiles :
    IsPublishing(d) \/ ending[d] = "complete" =>
        \/ f \notin asked[d].uses \cup {"model"}
        \/ loaded[d][f].content = identity[d][f].content
        \/ /\ ~(asked[d].metadata /\ f \in ReadWeights)
           /\ loaded[d][f].changes > identity[d][f].changes /\ source[f].changes > loaded[d][f].changes

\* A report lists every field that was returned once, whole, and in one form: as a tensor if it is
\* declared or of tokens, else as files; of two fields of sound, only one as files.
FieldsAsReturned == manifest.by \in Drawers =>
    LET d == manifest.by
        names == {o.name : o \in manifest.lists}
        Form(n) == {k \in 0..2 : <<n, k>> \in names}
        IsTensor(n) == n \in ToSet(asked[d].declared) \cup ToSet(TokenFields)
        IsLeftOut(n) == n = "latents" \/ (n = "audio" /\ Form("audios") \notin {{}, {0}})
    IN  /\ \A n \in ToSet(asked[d].declared) : Form(n) = {0}
        /\ \A n \in Fields \ DOMAIN asked[d].returned : Form(n) = {}
        /\ \A n \in DOMAIN asked[d].returned :
             /\ IsTensor(n) => Form(n) = {0}
             /\ ~IsTensor(n) /\ IsLeftOut(n) => Form(n) = {}
             /\ ~IsTensor(n) /\ ~IsLeftOut(n) => Form(n) = 1..asked[d].returned[n] /\ Form(n) # {}
        /\ names # {} /\ Len(listed[d]) = Cardinality(names)
        /\ asked[d].latent => Form("images") \subseteq {0}

\* What a run leaves is what its report says, whatever else is run, changed or killed meanwhile.
GenerationIsTrue ==
    /\ GenericTypeOK /\ ReportOfWhatIsThere /\ NoReportLost
    /\ SourcesAsReported /\ FieldsAsReturned
=============================================================================
