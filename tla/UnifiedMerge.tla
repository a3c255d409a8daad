----------------------------- MODULE UnifiedMerge -----------------------------
(***************************************************************************)
(* iild-merge --mode unified (model_merge_unified.py): checkpoints of one  *)
(* ecosystem become the ordered stages of a package, each adapter is fused *)
(* into the nearest checkpoint before it that has its targets, and the     *)
(* package is built, looked through and published.                         *)
(*                                                                         *)
(* An adapter that does not match the base is left out before the stages   *)
(* are planned, so that the planner's branches for adapters without a      *)
(* match (bridges, synthetic targets, later checkpoints) are not reached   *)
(* from here and are not modelled.                                         *)
(***************************************************************************)
EXTENDS Integers, Sequences, SequencesExt, FiniteSets, FiniteSetsExt, SortedSets

CONSTANTS
    Cascades,       \* the requests, a sequence of sets
    MaxStages       \* stages a package may have (64)

\* The targets of an adapter are looked for in the base and in the checkpoints.
Ingredients == [kind : {"checkpoint", "lora"}, fit : {"fits", "foreign", "unusable", "directory"}, matches : SUBSET Nat]
IsCascade(c) ==
    /\ c.materials \in Seq(Ingredients)
    /\ \A i \in DOMAIN c.materials : c.materials[i].matches \subseteq
           {0} \cup {j \in DOMAIN c.materials : c.materials[j].kind = "checkpoint"}

ASSUME CascadeAssumption == \A n \in DOMAIN Cascades : \A c \in Cascades[n] : IsCascade(c)

VARIABLES
    cascade,        \* the request: materials, weights, and who interferes
    progress,       \* where it is
    revision,       \* per source, how often its file has changed
    hashes,         \* per source, the revision that was hashed
    plan,           \* the stages: source, strength and adapters
    members,        \* per stage built: the revisions it was made of, and those its digest is of
    archive,        \* what is at --output
    reason          \* why it failed

cascadeVars == <<cascade, progress, revision, hashes, plan, members, archive, reason>>

Places   == DOMAIN cascade.materials
Origins  == {0} \cup Places              \* 0 is the base
IsLora(i) == i # 0 /\ cascade.materials[i].kind = "lora"

CascadeInit ==
    /\ \E n \in DOMAIN Cascades : cascade \in Cascades[n]
    /\ progress = "resolve"
    /\ revision = [i \in Origins |-> 1]
    /\ hashes = [i \in Origins |-> 0]
    /\ plan = <<>>
    /\ members = <<>>
    /\ archive = IF cascade.rival = "before" THEN "theirs" ELSE "none"
    /\ reason = "none"

GiveUpCascade(why) ==
    /\ progress' = "failed" /\ reason' = why
    /\ UNCHANGED <<cascade, revision, hashes, plan, members, archive>>

Proceed(to) == progress' = to /\ UNCHANGED <<cascade, archive, reason>>

ResolveCascade ==
    /\ progress = "resolve"
    /\ IF archive # "none" THEN GiveUpCascade("output exists")
       ELSE Proceed("inspect") /\ UNCHANGED <<revision, hashes, plan, members>>

-----------------------------------------------------------------------------
(* Planning. *)

\* A checkpoint of the base's ecosystem; an adapter with all its targets in the base.
Kept == {i \in Places : IF IsLora(i) THEN 0 \in cascade.materials[i].matches
                         ELSE cascade.materials[i].fit \in {"fits", "directory"}}

Stages == Ascending({0} \cup {i \in Kept : ~IsLora(i)})

\* Strengths in twentieths: 0.35 for a checkpoint and 1 for an adapter unless they are given.
StrengthOf(i) ==
    IF i = 0 THEN 20
    ELSE IF cascade.weights # <<>> THEN cascade.weights[i]
    ELSE IF IsLora(i) THEN 20 ELSE 7

\* Mutant: the last checkpoint that matches, before the adapter or after it.
TargetMutant(i) == Max({j \in Range(Stages) : j \in cascade.materials[i].matches})

\* The nearest checkpoint before it that has its targets: at least the base has.
Target(i) == Max({j \in Range(Stages) : j \in cascade.materials[i].matches /\ j < i})

AdaptersOf(j) == Ascending({i \in Kept : IsLora(i) /\ Target(i) = j})

Obstacle ==
    IF \E i \in Places : cascade.materials[i].fit = "unusable" THEN "unusable"
    ELSE IF Kept = {} THEN "nothing fits"
    ELSE IF \E i \in Kept : ~IsLora(i) /\ StrengthOf(i) > 20 THEN "strength"
    ELSE IF Len(Stages) > MaxStages THEN "too many stages"
    ELSE IF \E i \in Kept : cascade.materials[i].fit = "directory" THEN "directory"
    ELSE "none"

\* Everything that the structure tells is found out before anything is hashed.
InspectCascade ==
    /\ progress = "inspect"
    /\ IF Obstacle # "none" THEN GiveUpCascade(Obstacle)
       ELSE Proceed("hash") /\ UNCHANGED <<revision, hashes, plan, members>>

HashCascade ==
    /\ progress = "hash"
    /\ hashes' = revision
    /\ Proceed("plan") /\ UNCHANGED <<revision, plan, members>>

PlanStages ==
    /\ progress = "plan"
    /\ plan' = [n \in DOMAIN Stages |->
                  [source |-> Stages[n], strength |-> StrengthOf(Stages[n]),
                   loras |-> [k \in DOMAIN AdaptersOf(Stages[n]) |->
                                [source |-> AdaptersOf(Stages[n])[k],
                                 strength |-> StrengthOf(AdaptersOf(Stages[n])[k])]]]]
    /\ Proceed("build") /\ UNCHANGED <<revision, hashes, members>>

-----------------------------------------------------------------------------
(* Building. *)

Used(stage) == {stage.source} \cup {stage.loras[k].source : k \in DOMAIN stage.loras}

\* A stage with adapters is a merge of its own, of what its sources are now, hashed when it is
\* written; one without is a copy under the digest its source was found to have.
BuildMember ==
    LET next == plan[Len(members) + 1]
        now  == [i \in Used(next) |-> revision[i]]
    IN /\ progress = "build" /\ Len(members) < Len(plan)
       /\ members' = Append(members,
            [bytes |-> now,
             digest |-> IF next.loras # <<>> THEN now ELSE [i \in Used(next) |-> hashes[i]]])
       /\ Proceed("build") /\ UNCHANGED <<revision, hashes, plan>>

\* Every source given, kept or not, has to be what was hashed.
Still == revision = hashes

VerifyCascade ==
    /\ progress = "build" /\ Len(members) = Len(plan)
    /\ IF ~Still THEN GiveUpCascade("source changed")
       ELSE IF archive # "none" THEN GiveUpCascade("output exists")
       ELSE Proceed("archive") /\ UNCHANGED <<revision, hashes, plan, members>>

\* The archive is written, opened again and its members hashed; the output is looked at once more.
WriteArchive ==
    /\ progress = "archive"
    /\ IF \E n \in DOMAIN members : members[n].bytes # members[n].digest THEN GiveUpCascade("digest")
       ELSE IF archive # "none" THEN GiveUpCascade("output exists")
       ELSE Proceed("link") /\ UNCHANGED <<revision, hashes, plan, members>>

Taken == archive # "none"

LinkArchive ==
    /\ progress = "link"
    /\ IF Taken THEN GiveUpCascade("output exists")
       ELSE /\ progress' = "done"
            /\ archive' = IF archive = "none" THEN "ours" ELSE "replaced"
            /\ UNCHANGED <<cascade, revision, hashes, plan, members, reason>>

Running == progress \notin {"resolve", "done", "failed"}

\* Another program replaces a source, once.
EditOrigin(i) ==
    /\ Running /\ i \in cascade.restless \cap Origins /\ revision[i] = 1
    /\ revision' = [revision EXCEPT ![i] = 2]
    /\ UNCHANGED <<cascade, progress, hashes, plan, members, archive, reason>>

\* Another merge publishes at the same name.
OtherArchive ==
    /\ Running /\ cascade.rival = "during" /\ archive = "none"
    /\ archive' = "theirs"
    /\ UNCHANGED <<cascade, progress, revision, hashes, plan, members, reason>>

CascadeNext ==
    \/ ResolveCascade \/ InspectCascade \/ HashCascade \/ PlanStages
    \/ BuildMember \/ VerifyCascade \/ WriteArchive \/ LinkArchive
    \/ \E i \in Origins : EditOrigin(i)
    \/ OtherArchive

CascadeSpec == CascadeInit /\ [][CascadeNext]_cascadeVars

-----------------------------------------------------------------------------
(* What a package promises. *)

\* Every adapter that is kept is in exactly one stage, with its own strength, in a checkpoint
\* that has its targets and comes before it, and no other such checkpoint is between them
\* (model_merge_unified.py:54-72, 106-111).
EachAdapterOnce ==
    plan # <<>> =>
      \A i \in Kept : IsLora(i) => \E n \in DOMAIN plan : \E k \in DOMAIN plan[n].loras :
         /\ \A m \in DOMAIN plan : \A l \in DOMAIN plan[m].loras : plan[m].loras[l].source = i <=> m = n /\ l = k
         /\ plan[n].source \in cascade.materials[i].matches
         /\ plan[n].source < i
         /\ \A j \in cascade.materials[i].matches \cap Kept : j < i => j <= plan[n].source
         /\ plan[n].loras[k].strength = (IF cascade.weights = <<>> THEN 20 ELSE cascade.weights[i])

\* The adapters of a stage are applied in the order they were given, and the stages follow the
\* order of their checkpoints, the base first (model_merge_unified.py:54-55, 112).
OrderIsKept ==
    /\ plan # <<>> => plan[1].source = 0
    /\ \A m, n \in DOMAIN plan : m < n => plan[m].source < plan[n].source
    /\ \A n \in DOMAIN plan : \A j, k \in DOMAIN plan[n].loras :
          j < k => plan[n].loras[j].source < plan[n].loras[k].source

\* A published package is made of what its report records: each member's bytes are those of its
\* digest and of the sources as they were hashed, though a fused member is made of what its
\* sources are when its turn comes (model_merge_unified.py:144-166, 190-197).
MembersOfRecordedSources ==
    progress = "done" =>
        \A n \in DOMAIN members :
            /\ members[n].digest = members[n].bytes
            /\ \A i \in DOMAIN members[n].bytes : members[n].bytes[i] = hashes[i]

\* Nothing that was published at the output in the meantime is replaced
\* (model_merge_unified.py:192-204).
CascadeReplacesNothing == archive # "replaced"

\* A package is what was planned, the plan is what was asked for, and the report says so.
CascadeOfItsPlan == EachAdapterOnce /\ OrderIsKept /\ MembersOfRecordedSources /\ CascadeReplacesNothing
=============================================================================
