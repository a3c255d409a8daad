------------------------------ MODULE MCStores ------------------------------
(***************************************************************************)
(* Small instances of the modules about files that several processes want, *)
(* for TLC.  They share no state; a behaviour is one of one of them, and   *)
(* the others stay in an initial state.                                    *)
(***************************************************************************)
EXTENDS MCRemoteBatch, PackageCache, ImagePublication, FileIdentities, ConvertedWeights

CONSTANTS a, b, p, q, r1, r2, f1, f2, f3

VARIABLE store   \* the module whose behaviour it is

Stores == {"batch", "package", "image", "identity", "conversion"}
Idle(s) == store # s

-----------------------------------------------------------------------------
ImageJob(way, names, overwrite) == [way |-> way, names |-> names, overwrite |-> overwrite]
PairJob == ImageJob("pair", <<p>>, FALSE)
MCImageJobs == {ImageJob("native", <<p>>, TRUE),
                ImageJob("diffusers", <<p, q>>, FALSE), PairJob, ImageJob("folder", <<p>>, FALSE)}
NoPictures == [n \in Names |-> Blank]
MCBefore == {NoPictures, [NoPictures EXCEPT ![p] = Stranger]}

\* One reader at a time and two of different kinds.
OneReader == r1 :> "configuration" @@ r2 :> "off"
MCCasts == {r1 :> "digest" @@ r2 :> "digest", OneReader, r1 :> "native" @@ r2 :> "off"}
MCReads == [digest |-> {f1}, configuration |-> {f1, f2, f3}, native |-> {f1, f2}]

\* Every state of a source has a key of its own; or the hash gives all of them the same.
MCKey(s) == s
MCOneKey(s) == 1

\* Runs of one kind are interchangeable.
StoreSymmetry == Permutations({a, b})

-----------------------------------------------------------------------------
StoresInit ==
    /\ store \in Stores
    /\ IF Idle("batch") THEN outputs = Free /\ ask = [c \in Clients |-> CHOOSE w \in BatchJobs : w.default]
       ELSE TRUE
    /\ BatchInit
    /\ IF Idle("package") THEN kind = [r \in Runs |-> "native"] ELSE TRUE
    /\ PackageInit
    /\ IF Idle("image")
       THEN job = [m \in Makers |-> PairJob] /\ pictures = NoPictures /\ folder = EmptyFolder
       ELSE TRUE
    /\ ImageInit
    /\ IF Idle("identity")
       THEN role = OneReader /\ metadata = FALSE /\ history = [f \in HashedFiles |-> <<1>>] ELSE TRUE
    /\ IdentityInit
    /\ IF Idle("conversion") THEN product = [c \in Converters |-> "q8"] /\ hashed = TRUE ELSE TRUE
    /\ ConversionInit

OthersStay ==
    /\ UNCHANGED store
    /\ IF Idle("batch") THEN UNCHANGED batchVars ELSE TRUE
    /\ IF Idle("package") THEN UNCHANGED packageVars ELSE TRUE
    /\ IF Idle("image") THEN UNCHANGED imageVars ELSE TRUE
    /\ IF Idle("identity") THEN UNCHANGED identityVars ELSE TRUE
    /\ IF Idle("conversion") THEN UNCHANGED conversionVars ELSE TRUE

StoresNext ==
    \/ store = "batch" /\ BatchNext /\ OthersStay
    \/ store = "package" /\ PackageNext /\ OthersStay
    \/ store = "image" /\ ImageNext /\ OthersStay
    \/ store = "identity" /\ IdentityNext /\ OthersStay
    \/ store = "conversion" /\ ConversionNext /\ OthersStay

StoresSpec == StoresInit /\ [][StoresNext]_<<store, batchVars, packageVars, imageVars, identityVars,
                                            conversionVars>>

\* The behaviours of the conversions alone, for the violation.
OnlyConversions == store = "conversion" /\ StoresSpec
=============================================================================
