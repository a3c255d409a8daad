-------------------------- MODULE ConvertedWeights --------------------------
(***************************************************************************)
(* Processes that convert weights and publish the result: the Q8 copies of *)
(* the native engine (a copy and its manifest, two renames), converted     *)
(* legacy checkpoints (a directory, one rename) and checkpoints that are   *)
(* made over into a DiT (a file, one link).  Other programs edit the       *)
(* inputs and clean the caches, and a process may die at any step.         *)
(*                                                                         *)
(* Each state an input has been in has a number, its identity.  A file has *)
(* the set of input states it was made from: one, or torn.                 *)
(***************************************************************************)
EXTENDS Naturals, FiniteSets

CONSTANTS
    Converters,
    Key(_),    \* cacheKey(): the name of the Q8 copy of an identity
    MaxSource, \* bound: states of the input
    MaxLosses  \* bound: files removed from, or damaged in, the caches

Products   == {"q8", "checkpoint", "dit"}
Sources    == 1..MaxSource
Nowhere    == [of |-> {}, by |-> {}]
NoManifest == [names |-> 0, copy |-> Nowhere]

ASSUME ConversionAssumption == MaxSource \in Nat \ {0} /\ MaxLosses \in Nat

VARIABLES
    product,   \* converter -> what it makes
    hashed,    \* digests are compared; with metadata validation, signatures and sizes
    source,    \* the state of the input (of the source and the template of a DiT)
    copies,    \* key -> the Q8 copy: what it was made from, and by whom
    manifests, \* key -> its manifest: the source it names, and whose copy it describes
    folders,   \* identity -> directory of a converted checkpoint
    target,    \* the output file of DiT conversions
    stepOf,    \* converter -> where it is
    wanted,    \* converter -> the identity it took first
    made,      \* converter -> the file in its staging directory
    described, \* converter -> the copy its manifest will describe
    losses

conversionVars == <<product, hashed, source, copies, manifests, folders, target, stepOf, wanted,
                    made, described, losses>>

ConverterSpots == {"start", "look", "convert", "verify", "publish", "manifest", "rename", "confirm",
            "done", "failed"}
Go(c, place) == stepOf' = [stepOf EXCEPT ![c] = place]

ConversionInit ==
    /\ product \in [Converters -> Products] /\ hashed \in BOOLEAN
    /\ source = 1 /\ losses = 0
    /\ copies = [k \in {Key(s) : s \in Sources} |-> Nowhere]
    /\ manifests = [k \in {Key(s) : s \in Sources} |-> NoManifest]
    /\ folders = [s \in Sources |-> Nowhere]
    /\ target = Nowhere
    /\ stepOf = [c \in Converters |-> "start"]
    /\ wanted = [c \in Converters |-> 0]
    /\ made = [c \in Converters |-> Nowhere]
    /\ described = [c \in Converters |-> Nowhere]

\* The identity of the source, or the plan of a DiT with those of source and template.
Identify(c) ==
    /\ stepOf[c] = "start"
    /\ wanted' = [wanted EXCEPT ![c] = source]
    /\ Go(c, IF product[c] # "dit" THEN "look" ELSE IF target = Nowhere THEN "convert" ELSE "failed")
    /\ UNCHANGED <<product, hashed, source, copies, manifests, folders, target, made, described, losses>>

\* validQ8Cache(): the manifest names the source and has the identity of the copy: that of
\* its bytes, or the metadata of the file somebody wrote.
ValidCopy(k, s) ==
    /\ manifests[k].names = s /\ copies[k] # Nowhere
    /\ IF hashed THEN manifests[k].copy.of = copies[k].of ELSE manifests[k].copy = copies[k]

\* The output is the one in the manifest: its bytes if digests are compared, else its size.
ValidFolder(f) == f # Nowhere /\ (hashed => f.by # {"damaged"})

\* _cached_result(): a directory that is there is right or refused; then the source again.
CachedResult(c) ==
    IF ValidFolder(folders[wanted[c]]) /\ source = wanted[c] THEN "done" ELSE "failed"

Lookup(c) ==
    /\ stepOf[c] = "look"
    /\ Go(c, IF product[c] = "q8"
             THEN IF ValidCopy(Key(wanted[c]), wanted[c]) THEN "done" ELSE "convert"
             ELSE IF folders[wanted[c]] = Nowhere THEN "convert" ELSE CachedResult(c))
    /\ UNCHANGED <<product, hashed, source, copies, manifests, folders, target, wanted, made,
                   described, losses>>

\* The tensors are read, in more than one step, and saved in a private directory.
Convert(c) ==
    /\ stepOf[c] = "convert"
    /\ made' = [made EXCEPT ![c] = [of |-> @.of \cup {source}, by |-> {c}]]
    /\ \E place \in {"convert", "verify"} : Go(c, place)
    /\ UNCHANGED <<product, hashed, source, copies, manifests, folders, target, wanted, described, losses>>

\* Mutant: what was read is not verified.
VerifyInputsMutant(c) ==
    /\ stepOf[c] = "verify"
    /\ Go(c, "publish")
    /\ UNCHANGED <<product, hashed, source, copies, manifests, folders, target, wanted, made,
                   described, losses>>

\* The inputs are still those that were identified.
VerifyInputs(c) ==
    /\ stepOf[c] = "verify"
    /\ Go(c, IF source # wanted[c] THEN "failed"
             ELSE IF product[c] = "q8" /\ ValidCopy(Key(wanted[c]), wanted[c]) THEN "done"
             ELSE "publish")
    /\ UNCHANGED <<product, hashed, source, copies, manifests, folders, target, wanted, made,
                   described, losses>>

\* prepareQ8Cache(): the copy first.
RenameCopy(c) ==
    /\ stepOf[c] = "publish" /\ product[c] = "q8"
    /\ copies' = [copies EXCEPT ![Key(wanted[c])] = made[c]]
    /\ Go(c, "manifest")
    /\ UNCHANGED <<product, hashed, source, manifests, folders, target, wanted, made, described, losses>>

\* The manifest is written with the identity of the copy that now has the name.
DescribeCopy(c) == LET copy == copies[Key(wanted[c])] IN
    /\ stepOf[c] = "manifest"
    /\ described' = [described EXCEPT ![c] = copy]
    /\ Go(c, IF copy = Nowhere THEN "failed" ELSE "rename")
    /\ UNCHANGED <<product, hashed, source, copies, manifests, folders, target, wanted, made, losses>>

RenameManifest(c) == LET k == Key(wanted[c]) IN
    /\ stepOf[c] = "rename"
    /\ manifests' = [manifests EXCEPT ![k] = [names |-> wanted[c], copy |-> described[c]]]
    /\ Go(c, IF copies[k] = Nowhere THEN "failed" ELSE "done")
    /\ UNCHANGED <<product, hashed, source, copies, folders, target, wanted, made, described, losses>>

\* materialize_safetensors(): the directory, unless another one is there; then its result.
RenameFolder(c) ==
    /\ stepOf[c] = "publish" /\ product[c] = "checkpoint"
    /\ folders' = [folders EXCEPT ![wanted[c]] = IF @ = Nowhere THEN made[c] ELSE @]
    /\ Go(c, "confirm")
    /\ UNCHANGED <<product, hashed, source, copies, manifests, target, wanted, made, described, losses>>

ConfirmFolder(c) ==
    /\ stepOf[c] = "confirm"
    /\ Go(c, CachedResult(c))
    /\ UNCHANGED <<product, hashed, source, copies, manifests, folders, target, wanted, made,
                   described, losses>>

\* convert_to_dit(): link() takes no name that is taken.
LinkTarget(c) ==
    /\ stepOf[c] = "publish" /\ product[c] = "dit"
    /\ \/ target = Nowhere /\ target' = made[c] /\ Go(c, "done")
       \/ target # Nowhere /\ UNCHANGED target /\ Go(c, "failed")
    /\ UNCHANGED <<product, hashed, source, copies, manifests, folders, wanted, made, described, losses>>

\* An error or a kill; what is in the private directory has no name that others look for.
Die(c) ==
    /\ stepOf[c] \notin {"done", "failed"}
    /\ Go(c, "failed")
    /\ UNCHANGED <<product, hashed, source, copies, manifests, folders, target, wanted, made,
                   described, losses>>

EditSource ==
    /\ source < MaxSource
    /\ source' = source + 1
    /\ UNCHANGED <<product, hashed, copies, manifests, folders, target, stepOf, wanted, made, described, losses>>

\* The system removes a copy or a manifest; somebody damages a converted checkpoint.
Lose ==
    /\ losses < MaxLosses
    /\ losses' = losses + 1
    /\ \/ \E k \in DOMAIN copies : copies[k] # Nowhere /\ copies' = [copies EXCEPT ![k] = Nowhere]
          /\ UNCHANGED <<manifests, folders>>
       \/ \E k \in DOMAIN copies : manifests[k] # NoManifest
             /\ manifests' = [manifests EXCEPT ![k] = NoManifest]
          /\ UNCHANGED <<copies, folders>>
       \/ \E s \in Sources : folders[s] # Nowhere
             /\ folders' = [folders EXCEPT ![s] = [of |-> {}, by |-> {"damaged"}]]
          /\ UNCHANGED <<copies, manifests>>
    /\ UNCHANGED <<product, hashed, source, target, stepOf, wanted, made, described>>

ConversionNext ==
    \/ \E c \in Converters :
        \/ Identify(c) \/ Lookup(c) \/ Convert(c) \/ VerifyInputs(c) \/ RenameCopy(c)
        \/ DescribeCopy(c) \/ RenameManifest(c) \/ RenameFolder(c) \/ ConfirmFolder(c)
        \/ LinkTarget(c) \/ Die(c)
    \/ EditSource \/ Lose

ConversionSpec == ConversionInit /\ [][ConversionNext]_conversionVars

-----------------------------------------------------------------------------
\* Every variable keeps its type (NativeDiskCache.hpp:13, checkpoint_conversion.py:131).
ConversionTypeOK ==
    /\ source \in Sources /\ losses \in 0..MaxLosses /\ hashed \in BOOLEAN
    /\ product \in [Converters -> Products] /\ stepOf \in [Converters -> ConverterSpots]
    /\ wanted \in [Converters -> 0..MaxSource]
    /\ \A c \in Converters :
        /\ made[c].of \subseteq Sources /\ described[c].of \subseteq Sources
        /\ stepOf[c] \in {"publish", "manifest", "rename"} => made[c].of # {}
        /\ stepOf[c] = "rename" => described[c].of # {}

Result(c) == CASE product[c] = "q8"         -> copies[Key(wanted[c])]
               [] product[c] = "checkpoint" -> folders[wanted[c]]
               [] product[c] = "dit"        -> target

\* What a conversion returns was made from the input it identified and from nothing else, though
\* the input was edited, others converted it too, and some died between two renames.  A
\* converted checkpoint that was damaged is refused if digests are compared
\* (NativeDiskCache.hpp:58-85, checkpoint_conversion.py:131-162, dit_conversion.py:272-284).
ReturnsConversion ==
    [][\A c \in Converters : stepOf[c] # "done" /\ stepOf'[c] = "done" =>
          \/ Result(c)'.of = {wanted[c]}
          \/ ~hashed /\ Result(c)'.by = {"damaged"}]_conversionVars

\* A checkpoint's conversion is returned only while the checkpoint is still what was converted.
CheckpointOfPresentSource ==
    [][\A c \in Converters : product[c] = "checkpoint" /\ stepOf[c] # "done" /\ stepOf'[c] = "done" =>
          wanted[c] = source]_conversionVars

\* The output of a DiT conversion is never replaced (dit_conversion.py:172, 284).
TargetNeverReplaced == [][target # Nowhere => target' = target]_conversionVars

\* What is returned from the caches is the conversion of what it is taken for, a checkpoint's while
\* that is still there, and the output of a conversion on request is never replaced.
ConversionsAreTrue ==
    /\ []ConversionTypeOK
    /\ ReturnsConversion /\ CheckpointOfPresentSource /\ TargetNeverReplaced

\* A manifest that names a source never vouches for a copy made from another one, also where two
\* sources have one key: "full identities below prevent a hash collision from selecting another
\* source's weights" (NativeDiskCache.hpp:18-19).
ManifestNamesItsSource == \A s \in Sources :
    ValidCopy(Key(s), s) => copies[Key(s)].of = {s}
=============================================================================
