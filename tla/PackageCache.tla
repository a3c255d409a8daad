---------------------------- MODULE PackageCache ----------------------------
(***************************************************************************)
(* Requests that generate with a packaged unified model (.iildmodel), in   *)
(* the native library (UnifiedModel.hpp) or in the Python worker           *)
(* (unified_image.py, iild_package.py): the archive is extracted into a    *)
(* cache under a key made of its signature, published by one rename and    *)
(* found again by a marker file.  One run is one process at a time: the    *)
(* native library has a mutex of its own.                                  *)
(*                                                                         *)
(* Each state the package file has been in has a number, its signature.    *)
(***************************************************************************)
EXTENDS Naturals, FiniteSets

CONSTANTS
    Runs,
    Members,    \* files in the package
    Index,      \* model_index.json, one of them
    Corrupt,    \* signatures of packages whose members differ from their SHA-256
    MaxPackage, \* bound: states of the package file
    MaxPurge    \* bound: files the system removes from the cache

Kinds    == {"native", "worker"}
Packages == 1..MaxPackage
Parts    == Members \cup {"marker"}

ASSUME PackageAssumption ==
    /\ Index \in Members /\ "marker" \notin Members
    /\ Corrupt \subseteq Packages
    /\ MaxPackage \in Nat \ {0} /\ MaxPurge \in Nat

VARIABLES
    kind,     \* run -> "native" or "worker"; each kind has a cache of its own
    package,  \* the state of the package file
    entry,    \* kind -> signature -> extraction directory: there, files, bytes
    stage,    \* run -> where it is
    seen,     \* run -> packageIdentity, or the package materialize_archive() inspected
    sealed,   \* run -> the package whose digest verification compares, once taken
    entryKey, \* run -> the signature that names its directory and its marker
    staging,  \* run -> its private directory: files, bytes
    used,     \* run -> states of the package whose bytes went into the image
    purges    \* files removed so far

packageVars == <<kind, package, entry, stage, seen, sealed, entryKey, staging, used, purges>>

Absent  == [there |-> FALSE, files |-> {}, bytes |-> {}]
Private == [files |-> {}, bytes |-> {}]

\* Mutant: one directory per package file, whatever its signature.
MineMutant(r) == entry[kind[r]][1]

\* destination: the directory named after the signature.
Mine(r) == entry[kind[r]][entryKey[r]]

Stages  == {"start", "look", "extract", "publish", "rename", "confirm", "load", "hash", "image",
            "verify", "done", "failed", "checksum"}
Over    == {"done", "failed", "checksum"}

\* The members' digests are those the manifest of this package was published with.
Matches(v) == v \notin Corrupt

\* ready() of the library: the marker and the manifest; valid() of the worker: the marker,
\* every member, and the digests of the members its manifest names, in either mode.
Valid(r) ==
    /\ Mine(r).there
    /\ IF kind[r] = "native"
       THEN {"marker", Index} \subseteq Mine(r).files
       ELSE /\ Mine(r).files = Parts
            /\ Mine(r).bytes = {seen[r]} /\ Matches(seen[r])

PackageInit ==
    /\ kind \in [Runs -> Kinds]
    /\ package = 1 /\ purges = 0
    /\ entry = [k \in Kinds |-> [v \in Packages |-> Absent]]
    /\ stage = [r \in Runs |-> "start"]
    /\ seen = [r \in Runs |-> 0] /\ sealed = [r \in Runs |-> 0] /\ entryKey = [r \in Runs |-> 0]
    /\ staging = [r \in Runs |-> Private]
    /\ used = [r \in Runs |-> {}]

Reach(r, next) == stage' = [stage EXCEPT ![r] = next]

\* loadUnifiedModel() up to materialize...(), or inspect_archive(), which reads the signature
\* before and after; the second signature, which names the directory, is taken later.
Inspect(r) ==
    /\ stage[r] = "start"
    /\ IF seen[r] = 0
       THEN seen' = [seen EXCEPT ![r] = package] /\ UNCHANGED <<stage, entryKey>>
       ELSE entryKey' = [entryKey EXCEPT ![r] = package] /\ Reach(r, "look") /\ UNCHANGED seen
    /\ UNCHANGED <<kind, package, entry, sealed, staging, used, purges>>

Look(r) ==
    /\ stage[r] = "look"
    /\ Reach(r, IF Valid(r) THEN "load" ELSE "extract")
    /\ UNCHANGED <<kind, package, entry, seen, sealed, entryKey, staging, used, purges>>

\* A member is copied; the CRC of the worker's entries refuses those of another archive.
Extract(r, m) ==
    /\ stage[r] = "extract" /\ m \in Members \ staging[r].files
    /\ kind[r] = "worker" => package = seen[r]
    /\ staging' = [staging EXCEPT ![r] = [files |-> @.files \cup {m}, bytes |-> @.bytes \cup {package}]]
    /\ UNCHANGED <<kind, package, entry, stage, seen, sealed, entryKey, used, purges>>

\* The marker is written; the package is still the one that names the directory.
Extracted(r) ==
    /\ stage[r] = "extract" /\ staging[r].files = Members /\ package = entryKey[r]
    /\ Reach(r, "publish")
    /\ UNCHANGED <<kind, package, entry, seen, sealed, entryKey, staging, used, purges>>

\* The worker looks at the destination before it renames; the library only if rename fails.
Destination(r) ==
    /\ stage[r] = "publish"
    /\ Reach(r, IF kind[r] = "native" \/ ~Mine(r).there THEN "rename"
                ELSE IF Valid(r) THEN "load" ELSE "failed")
    /\ UNCHANGED <<kind, package, entry, seen, sealed, entryKey, staging, used, purges>>

\* rename() replaces no directory with files in it.
Rename(r) ==
    /\ stage[r] = "rename"
    /\ IF Mine(r).files = {}
       THEN /\ entry' = [entry EXCEPT ![kind[r]][entryKey[r]] =
                            [there |-> TRUE, files |-> Parts, bytes |-> staging[r].bytes]]
            /\ Reach(r, "confirm")
       ELSE /\ Reach(r, IF kind[r] = "native" /\ Valid(r) THEN "confirm" ELSE "failed")
            /\ UNCHANGED entry
    /\ staging' = [staging EXCEPT ![r] = Private]
    /\ UNCHANGED <<kind, package, seen, sealed, entryKey, used, purges>>

Confirm(r) ==
    /\ stage[r] = "confirm"
    /\ Reach(r, IF Valid(r) THEN "load" ELSE IF Matches(seen[r]) THEN "failed" ELSE "checksum")
    /\ UNCHANGED <<kind, package, entry, seen, sealed, entryKey, staging, used, purges>>

\* loadUnifiedModel(): every stage's member is there, and nothing has changed since.
Load(r) ==
    /\ stage[r] = "load" /\ Members \subseteq Mine(r).files
    /\ IF kind[r] = "native" THEN package = seen[r] /\ Reach(r, "image") ELSE Reach(r, "hash")
    /\ sealed' = [sealed EXCEPT ![r] = seen[r]]
    /\ UNCHANGED <<kind, package, entry, seen, entryKey, staging, used, purges>>

\* The worker inspects the package once more, hashing its members in either mode, and takes
\* the digest that later verifications compare.
Hash(r) ==
    /\ stage[r] = "hash"
    /\ Reach(r, IF Matches(package) THEN "image" ELSE "checksum")
    /\ sealed' = [sealed EXCEPT ![r] = package]
    /\ UNCHANGED <<kind, package, entry, seen, entryKey, staging, used, purges>>

Image(r) ==
    /\ stage[r] = "image" /\ Members \subseteq Mine(r).files
    /\ used' = [used EXCEPT ![r] = Mine(r).bytes]
    /\ Reach(r, "verify")
    /\ UNCHANGED <<kind, package, entry, seen, sealed, entryKey, staging, purges>>

\* UnifiedModel::verify(), or verify_pipeline_sources(), inspect_package() and the digest.
VerifyPackage(r) ==
    /\ stage[r] = "verify" /\ package = sealed[r] /\ Members \subseteq Mine(r).files
    /\ Reach(r, "done")
    /\ UNCHANGED <<kind, package, entry, seen, sealed, entryKey, staging, used, purges>>

\* Every throw removes the private directory; a kill leaves it, under a name nobody looks for.
GiveUpPackage(r) ==
    /\ stage[r] \notin Over
    /\ Reach(r, "failed")
    /\ staging' = [staging EXCEPT ![r] = Private]
    /\ UNCHANGED <<kind, package, entry, seen, sealed, entryKey, used, purges>>

ReplacePackage ==
    /\ package < MaxPackage
    /\ package' = package + 1
    /\ UNCHANGED <<kind, entry, stage, seen, sealed, entryKey, staging, used, purges>>

\* The system cleans its temporary files: one file, or the whole directory.
Purge(k, v) ==
    /\ purges < MaxPurge /\ entry[k][v].there
    /\ purges' = purges + 1
    /\ \/ \E part \in entry[k][v].files : entry' = [entry EXCEPT ![k][v].files = @ \ {part}]
       \/ entry' = [entry EXCEPT ![k][v] = Absent]
    /\ UNCHANGED <<kind, package, stage, seen, sealed, entryKey, staging, used>>

PackageNext ==
    \/ \E r \in Runs :
        \/ Inspect(r) \/ Look(r) \/ Extracted(r) \/ Destination(r) \/ Rename(r) \/ Confirm(r)
        \/ Load(r) \/ Hash(r) \/ Image(r) \/ VerifyPackage(r) \/ GiveUpPackage(r)
        \/ \E m \in Members : Extract(r, m)
    \/ ReplacePackage
    \/ \E k \in Kinds, v \in Packages : Purge(k, v)

PackageSpec == PackageInit /\ [][PackageNext]_packageVars

-----------------------------------------------------------------------------
\* Every variable keeps its type (UnifiedModel.hpp:63, iild_package.py:85).
PackageTypeOK ==
    /\ kind \in [Runs -> Kinds] /\ package \in Packages /\ purges \in 0..MaxPurge
    /\ entry \in [Kinds -> [Packages -> [there : BOOLEAN, files : SUBSET Parts,
                                         bytes : SUBSET Packages]]]
    /\ stage \in [Runs -> Stages]
    /\ seen \in [Runs -> 0..MaxPackage] /\ sealed \in [Runs -> 0..MaxPackage]
    /\ entryKey \in [Runs -> 0..MaxPackage]
    /\ \A r \in Runs : stage[r] \notin {"start", "failed"} => entryKey[r] # 0
    /\ staging \in [Runs -> [files : SUBSET Members, bytes : SUBSET Packages]]
    /\ used \in [Runs -> SUBSET Packages]

\* A directory in the cache holds the bytes of the package its name is made of, though the
\* package was replaced while it was copied and other processes copied it too
\* (UnifiedModel.hpp:118-123, iild_package.py:127-133).
EntryNamesItsBytes == \A k \in Kinds, v \in Packages :
    entry[k][v].there => entry[k][v].bytes = {v}

\* A directory appears with all its files and is never written again; what is missing from
\* it, the system has removed.
EntryPublishedWhole ==
    [][\A k \in Kinds, v \in Packages :
          \/ entry'[k][v].files \subseteq entry[k][v].files
          \/ entry[k][v].files = {} /\ entry'[k][v].files = Parts]_packageVars

\* An image that is returned was made from one package, the one the request was given.
ImageFromOnePackage == \A r \in Runs : stage[r] = "done" => used[r] = {seen[r]}

\* The library returns no image of a package that has been replaced (UnifiedModel.hpp:34-45).
\* The worker may: its digest is taken after the extraction (unified_image.py:140).
NativeImageIsPresent ==
    [][\A r \in Runs : kind[r] = "native" /\ stage'[r] = "done" =>
          stage[r] = "done" \/ used[r] = {package}]_packageVars

\* The worker never generates with members that differ from their published digests
\* (iild_package.py:66-77, 104-107).
WorkerVerifiesDigests == \A r \in Runs :
    kind[r] = "worker" /\ stage[r] = "done" => used[r] \cap Corrupt = {}

\* Whatever processes share the cache, whatever is replaced, purged or killed: a directory of the
\* cache is whole and of its package, and an image is of the package that was asked for.
PackageKept ==
    /\ [](PackageTypeOK /\ EntryNamesItsBytes) /\ EntryPublishedWhole
    /\ [](ImageFromOnePackage /\ WorkerVerifiesDigests) /\ NativeImageIsPresent
=============================================================================
