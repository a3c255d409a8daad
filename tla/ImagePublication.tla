-------------------------- MODULE ImagePublication --------------------------
(***************************************************************************)
(* How a local run gets its images onto the disk (native_image.py run,     *)
(* generate.py run, standalone_image.py and unified_image.py main).  There *)
(* are four ways; each is a program, a sequence of steps, and a run may    *)
(* fail or be killed before any of them:                                   *)
(*   native     image, digest and report one after the other               *)
(*   diffusers  all images with their digests, then all reports            *)
(*   pair       report, then image, both by link (unified --output)        *)
(*   folder     everything into a private directory, then one rename       *)
(* No lock is taken.  A file's content is the run that made it.            *)
(***************************************************************************)
EXTENDS Naturals, Sequences, SequencesExt, FiniteSets

CONSTANTS
    Makers,         \* runs
    Names,          \* image names; each has a report beside it
    Blank,          \* no file
    Stranger,       \* a file or directory of somebody else
    ImageJobs,      \* arguments: way, names (a sequence), overwrite
    Before,         \* what is there at first
    MaxWeights      \* bound: states of a weight file

WeightFiles == {"model", "vae"}

ASSUME ImageAssumption ==
    /\ Blank \notin Makers \cup {Stranger} /\ Stranger \notin Makers
    /\ ImageJobs \subseteq [way : {"native", "diffusers", "pair", "folder"},
                            names : Seq(Names), overwrite : BOOLEAN]
    \* one name an image, numbered; a pair is linked, and of one image
    /\ \A j \in ImageJobs :
          /\ Len(j.names) > 0 /\ IsInjective(j.names)
          /\ j.way = "pair" => Len(j.names) = 1 /\ ~j.overwrite
    /\ Before \subseteq [Names -> {Blank, Stranger}]
    /\ MaxWeights \in Nat \ {0}

VARIABLES
    pictures,   \* name -> the run that made the image there
    reports,    \* name -> the report: by whom, and of whose image it gives the digest
    folder,     \* the output directory: whose it is, and what it holds (0 is the manifest)
    weights,    \* weight file -> its state
    job,        \* run -> arguments
    resolved,   \* run -> weight file -> state whose digest the run was resolved with
    strange,    \* run -> its images made with other weights than it was resolved with
    at,         \* run -> steps of its program done
    fate,       \* run -> "resolve", "run", "complete" or "failed"
    private,    \* run -> what its private directory holds
    digest      \* run -> name -> the run whose image it has taken the digest of

imageVars == <<pictures, reports, folder, weights, job, resolved, strange, at, fate, private, digest>>

NoReport    == [by |-> Blank, of |-> Blank]
EmptyFolder == [by |-> Blank, holds |-> {}]       \* absent or empty
Foreign     == [by |-> Stranger, holds |-> {}]

\* The operations ops for each of n images, one image after the other.
Each(ops, n) ==
    [k \in 1..n * Len(ops) |-> <<ops[((k - 1) % Len(ops)) + 1], ((k - 1) \div Len(ops)) + 1>>]
Once(ops)    == Each(ops, 1)

PairWay == <<"render", "model", "vae", "digest", "report", "picture">>

FolderWay(n) ==
    Each(<<"render", "model", "stage">>, n) \o Once(<<"model", "vae", "manifest", "publish">>)

\* The steps of each way for n images: operation and image.
Way(way, n) ==
    CASE way = "native"    -> Each(<<"render", "model", "vae", "picture", "digest", "report">>, n)
      [] way = "diffusers" -> Once(<<"render", "model">>) \o Each(<<"picture", "digest">>, n)
                                \o Once(<<"vae">>) \o Each(<<"report">>, n)
      [] way = "pair"      -> Once(PairWay)
      [] way = "folder"    -> FolderWay(n)

Program(m)   == Way(job[m].way, Len(job[m].names))
NextStep(m)  == Program(m)[at[m] + 1]
Doing(m, op) == fate[m] = "run" /\ at[m] < Len(Program(m)) /\ NextStep(m)[1] = op
NameOf(m)  == job[m].names[NextStep(m)[2]]
Step(m)    == at' = [at EXCEPT ![m] = @ + 1]
Taken(f)   == pictures[f] # Blank \/ reports[f] # NoReport

ImageInit ==
    /\ pictures \in Before
    /\ reports = [f \in Names |-> NoReport]
    /\ folder \in {EmptyFolder, Foreign}
    /\ weights = [w \in WeightFiles |-> 1]
    /\ job \in [Makers -> ImageJobs]
    /\ resolved = [m \in Makers |-> weights]
    /\ strange = [m \in Makers |-> {}]
    /\ at = [m \in Makers |-> 0]
    /\ fate = [m \in Makers |-> "resolve"]
    /\ private = [m \in Makers |-> {}]
    /\ digest = [m \in Makers |-> [f \in Names |-> Blank]]

\* resolve_arguments(), then resolve_output_paths() or empty_directory(); a pair is not looked
\* at before it is linked.
Resolve(m) ==
    /\ fate[m] = "resolve"
    /\ resolved' = [resolved EXCEPT ![m] = weights]
    /\ fate' = [fate EXCEPT ![m] =
            IF CASE job[m].way = "folder" -> folder.by = Blank
                 [] job[m].way = "pair" -> TRUE
                 [] OTHER -> job[m].overwrite \/ \A f \in ToSet(job[m].names) : ~Taken(f)
            THEN "run" ELSE "failed"]
    /\ UNCHANGED <<pictures, reports, folder, weights, job, strange, at, private, digest>>

\* engine.image() or pipeline(): one image, or all of the diffusers way; what was read of the
\* weights is their state of now or, of a retained model, an earlier one.
Render(m) ==
    /\ Doing(m, "render")
    /\ \/ strange' = strange
       \/ /\ weights # resolved[m]
          /\ strange' = [strange EXCEPT ![m] = @ \cup
                IF job[m].way = "diffusers" THEN ToSet(job[m].names) ELSE {NameOf(m)}]
    /\ Step(m)
    /\ UNCHANGED <<pictures, reports, folder, weights, job, resolved, fate, private, digest>>

\* verify_weight_file(), verify_pipeline_sources(), verify_vae_selection().
Verify(m, w) ==
    /\ Doing(m, w) /\ weights[w] = resolved[m][w]
    /\ Step(m)
    /\ UNCHANGED <<pictures, reports, folder, weights, job, resolved, strange, fate, private, digest>>

\* Mutant: the image is moved over whatever is there.
PictureMutant(m) ==
    /\ Doing(m, "picture")
    /\ pictures' = [pictures EXCEPT ![NameOf(m)] = m]
    /\ Step(m)
    /\ UNCHANGED <<reports, folder, weights, job, resolved, strange, fate, private, digest>>

\* write_png(): a rename with --overwrite, else a link, which fails if the name is taken.
Picture(m) ==
    /\ Doing(m, "picture")
    /\ job[m].overwrite \/ pictures[NameOf(m)] = Blank
    /\ pictures' = [pictures EXCEPT ![NameOf(m)] = m]
    /\ Step(m)
    /\ UNCHANGED <<reports, folder, weights, job, resolved, strange, fate, private, digest>>

\* file_sha256(path) of the published file, of a pair the private one.
Digest(m) ==
    /\ Doing(m, "digest")
    /\ job[m].way = "pair" \/ pictures[NameOf(m)] # Blank
    /\ digest' = [digest EXCEPT ![m][NameOf(m)] = IF job[m].way = "pair" THEN m ELSE pictures[NameOf(m)]]
    /\ Step(m)
    /\ UNCHANGED <<pictures, reports, folder, weights, job, resolved, strange, fate, private>>

\* write_json_atomically(), or the link of a pair's report.
Report(m) ==
    /\ Doing(m, "report")
    /\ job[m].overwrite \/ reports[NameOf(m)] = NoReport
    /\ reports' = [reports EXCEPT ![NameOf(m)] = [by |-> m, of |-> digest[m][NameOf(m)]]]
    /\ Step(m)
    /\ UNCHANGED <<pictures, folder, weights, job, resolved, strange, fate, private, digest>>

\* An image with its digest and report, or the manifest, in the private directory.
Stage(m) ==
    /\ Doing(m, "stage") \/ Doing(m, "manifest")
    /\ private' = [private EXCEPT ![m] = @ \cup {IF Doing(m, "stage") THEN NextStep(m)[2] ELSE 0}]
    /\ folder' = IF folder.by = m THEN [folder EXCEPT !.holds = private'[m]] ELSE folder
    /\ Step(m)
    /\ UNCHANGED <<pictures, reports, weights, job, resolved, strange, fate, digest>>

\* provider.replace(stage, output), which replaces no directory with files in it.
PublishFolder(m) ==
    /\ Doing(m, "publish") /\ folder.by = Blank
    /\ folder' = [by |-> m, holds |-> private[m]]
    /\ Step(m)
    /\ UNCHANGED <<pictures, reports, weights, job, resolved, strange, fate, private, digest>>

Complete(m) ==
    /\ fate[m] = "run" /\ at[m] = Len(Program(m))
    /\ fate' = [fate EXCEPT ![m] = "complete"]
    /\ UNCHANGED <<pictures, reports, folder, weights, job, resolved, strange, at, private, digest>>

\* A pair that cannot be finished takes its report back; the other ways leave what they have.
Fail(m) ==
    /\ fate[m] = "run"
    /\ fate' = [fate EXCEPT ![m] = "failed"]
    /\ reports' = IF job[m].way = "pair" /\ at[m] = Len(Program(m)) - 1
                  THEN [reports EXCEPT ![job[m].names[1]] = NoReport] ELSE reports
    /\ UNCHANGED <<pictures, folder, weights, job, resolved, strange, at, private, digest>>

\* A kill leaves the private directory too, under a name nobody looks for.
Kill(m) ==
    /\ fate[m] = "run"
    /\ fate' = [fate EXCEPT ![m] = "failed"]
    /\ UNCHANGED <<pictures, reports, folder, weights, job, resolved, strange, at, private, digest>>

EditWeights(w) ==
    /\ weights[w] < MaxWeights
    /\ weights' = [weights EXCEPT ![w] = @ + 1]
    /\ UNCHANGED <<pictures, reports, folder, job, resolved, strange, at, fate, private, digest>>

\* Somebody else uses the directory.
Intrude ==
    /\ folder.by = Blank /\ folder' = Foreign
    /\ UNCHANGED <<pictures, reports, weights, job, resolved, strange, at, fate, private, digest>>

ImageNext ==
    \/ \E m \in Makers :
        \/ Resolve(m) \/ Render(m) \/ (\E w \in WeightFiles : Verify(m, w)) \/ Picture(m) \/ Digest(m) \/ Report(m)
        \/ Stage(m) \/ PublishFolder(m) \/ Complete(m) \/ Fail(m) \/ Kill(m)
    \/ \E w \in WeightFiles : EditWeights(w)
    \/ Intrude

ImageSpec == ImageInit /\ [][ImageNext]_imageVars

-----------------------------------------------------------------------------
Fates == {"resolve", "run", "complete", "failed"}
Owners == Makers \cup {Blank, Stranger}

\* Every variable keeps its type (native_image.py:396, standalone_image.py:108).
ImageTypeOK ==
    /\ pictures \in [Names -> Owners]
    /\ reports \in [Names -> [by : Owners, of : Owners]]
    /\ folder.by \in Owners /\ (folder.by \in Makers => job[folder.by].way = "folder")
    /\ weights \in [WeightFiles -> 1..MaxWeights]
    /\ job \in [Makers -> ImageJobs]
    /\ resolved \in [Makers -> [WeightFiles -> 1..MaxWeights]]
    /\ strange \in [Makers -> SUBSET Names]
    /\ \A m \in Makers : at[m] \in 0..Len(Program(m))
    /\ fate \in [Makers -> Fates]
    /\ digest \in [Makers -> [Names -> Owners]]

\* What is there is replaced only by a run with --overwrite, though no run holds a lock
\* (generation_output.py:52-58, standalone_image.py:163).
NothingReplaced ==
    [][/\ \A f \in Names : pictures[f] # Blank /\ pictures'[f] # pictures[f] =>
                pictures'[f] \in Makers /\ job[pictures'[f]].overwrite
       /\ \A f \in Names : reports[f] # NoReport /\ reports'[f] # reports[f] =>
                \/ reports'[f].by \in Makers /\ job[reports'[f].by].overwrite
                \/ reports'[f] = NoReport
       /\ folder.by # Blank => folder'.by = folder.by]_imageVars

\* A report is written only of an image made with the weights its run was resolved with;
\* an image of the diffusers way may be there without one (generate.py:1012).
ReportMeansVerified == \A f \in Names : reports[f].by \in Makers =>
    f \notin strange[reports[f].by]

\* A report whose digest is that of the image beside it was written by the run that made the
\* image, unless one of them was to overwrite (native_image.py:441 and generate.py:998 read the
\* published file again).
ReportOfItsImage == \A f \in Names :
    /\ reports[f].by \in Makers /\ reports[f].of = pictures[f]
    => \/ pictures[f] = reports[f].by
       \/ \E m \in {pictures[f], reports[f].by} \cap Makers : job[m].overwrite

\* A directory that a reader finds has every image and the manifest, also after a kill
\* (standalone_image.py:125-164).
FolderIsComplete == \A m \in Makers :
    folder.by = m => folder.holds = 0..Len(job[m].names) /\ strange[m] = {}

\* An image published as a pair has its report beside it, also after a kill
\* (unified_image.py:184-191), unless a run with --overwrite has come since.
PairHasReport == \A m \in Makers, f \in Names :
    job[m].way = "pair" /\ pictures[f] = m =>
        reports[f].by = m \/ (reports[f].by \in Makers /\ job[reports[f].by].overwrite)

\* What is published is true and whole, in whatever way and between whatever steps a run ends,
\* and is not replaced without --overwrite.
PublishedImagesAreTrue ==
    /\ [](ImageTypeOK /\ ReportMeansVerified /\ ReportOfItsImage)
    /\ [](FolderIsComplete /\ PairHasReport) /\ NothingReplaced
=============================================================================
