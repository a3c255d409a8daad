---------------------------- MODULE WeightedMerge ----------------------------
(***************************************************************************)
(* iild-merge, weighted modes (model_merge.py, model_merge_options.py,     *)
(* model_merge_verify.py): materials are inspected, filtered by what fits  *)
(* the base, given coefficients, added to the base tensor by tensor, saved *)
(* and published without replacing anything.                               *)
(*                                                                         *)
(* Numbers are integers over one denominator, "unit", of the merge; NaN    *)
(* stands for every value that is not finite.  Which tensor of a material  *)
(* a tensor of the base gets is the business of module Projection: here a  *)
(* material says of each tensor of the base what it holds for it.          *)
(***************************************************************************)
EXTENDS Integers, Sequences, SequencesExt, FiniteSets, SortedSets

CONSTANTS
    MergeOrders,   \* the requests, a sequence of sets
    Tensors,       \* the tensors of the base, in the order they are merged
    Coordinates,   \* coordinates of a tensor
    NaN,           \* what a coordinate may be instead of a number
    Limit          \* the largest number of the base's storage type

Policies == {"strict", "common-layer", "base-layout"}
Ways     == {"fits", "foreign", "raw", "unusable", "pipeline"}
Held     == {"there", "absent", "unreadable", "quantized"}
OrNaN(S) == S \cup {NaN}
MaterialType ==
    [kind : {"checkpoint", "lora"}, fit : Ways,
     holds : [Range(Tensors) -> [state : Held, at : [Coordinates -> OrNaN(Int)]]]]
BaseType ==
    [type : {"float", "broken scale", "state", "buffer"},
     at : [Coordinates -> OrNaN(-Limit..Limit)]]

\* A request as its options let it through: no weights, or one for each material.  A tensor that is
\* not of floating point numbers has no other than finite ones, and no adapter is quantized.
IsMergeOrder(o) ==
    /\ o \in [mode : {"sum", "difference"}, policy : Policies, weights : Seq(Nat),
             base : [Range(Tensors) -> BaseType], materials : Seq(MaterialType),
             restless : SUBSET Nat, rival : {"none", "before", "during"}]
    /\ o.weights = <<>> \/ Len(o.weights) = Len(o.materials)
    /\ \A t \in Range(Tensors) : o.base[t].type = "buffer" => \A c \in Coordinates : o.base[t].at[c] # NaN
    /\ \A i \in DOMAIN o.materials, t \in Range(Tensors) :
          o.materials[i].kind = "lora" /\ o.materials[i].fit # "raw" => o.materials[i].holds[t].state # "quantized"

ASSUME MergeAssumption ==
    /\ NaN \notin Int /\ Limit \in Nat
    /\ Tensors \in Seq(Range(Tensors))
    /\ \A n \in DOMAIN MergeOrders : \A o \in MergeOrders[n] : IsMergeOrder(o)

VARIABLES
    merge,      \* the request: mode, policy, weights, base, materials, and who interferes
    stage,      \* where the merge is
    edition,    \* per source, how often its file has changed
    hashed,     \* per source, the edition whose digest is recorded
    included,   \* the materials that are merged, by their place in the request
    shares,     \* the resolved coefficients: unit, base, and one per included material
    readOf,     \* per source, the editions tensors were read from
    outcome,    \* per tensor done: its coordinates (times unit), merged, changed
    output,     \* what is at --output
    trouble     \* why it failed

mergeVars == <<merge, stage, edition, hashed, included, shares, readOf, outcome, output, trouble>>

Materials == DOMAIN merge.materials
Sources   == {0} \cup Materials
Repairs   == merge.policy # "strict"
Forces    == merge.policy = "base-layout"
Sum       == merge.mode = "sum"

MergeInit ==
    /\ \E n \in DOMAIN MergeOrders : merge \in MergeOrders[n]
    /\ stage = "resolve"
    /\ edition = [s \in Sources |-> 1]
    /\ hashed = [s \in Sources |-> 0]
    /\ included = <<>>
    /\ shares = [unit |-> 0, base |-> 0, of |-> <<>>]
    /\ readOf = [s \in Sources |-> {}]
    /\ outcome = <<>>
    /\ output \in IF merge.rival = "before" THEN {"theirs"} ELSE {"none"}
    /\ trouble = "none"

FailMerge(why) ==
    /\ trouble' = why
    /\ stage' = "failed"
    /\ UNCHANGED <<merge, edition, hashed, included, shares, readOf, outcome, output>>

-----------------------------------------------------------------------------
(* What is merged. *)

\* The request is refused where its output exists, before any model is opened.
ResolveMerge ==
    /\ stage = "resolve"
    /\ IF output # "none" THEN FailMerge("output exists")
       ELSE /\ stage' = "inspect"
            /\ UNCHANGED <<merge, edition, hashed, included, shares, readOf, outcome, output, trouble>>

\* An adapter that cannot be read as one is a checkpoint where the base's layout is forced.
KindOf(i) == IF Forces /\ merge.materials[i].fit = "raw" THEN "checkpoint" ELSE merge.materials[i].kind

\* A material that fits the base, or any that can be read where it is forced to.
Usable(i) ==
    LET fit == merge.materials[i].fit
    IN fit # "unusable" /\ (fit = "fits" \/ Forces)

\* A pipeline directory with adapter keys is forced in and then refused when it is opened;
\* a strict merge wants every tensor of the base in every checkpoint.
Opens(i) ==
    LET m == merge.materials[i]
    IN /\ ~(KindOf(i) = "lora" /\ m.fit = "pipeline")
       /\ \/ Repairs \/ KindOf(i) = "lora"
          \/ \A t \in Range(Tensors) : m.holds[t].state # "absent"

Selected == Ascending({i \in Materials : Usable(i)})

Refusal ==
    IF ~Repairs /\ \E i \in Materials : merge.materials[i].fit = "unusable" THEN "unusable"
    ELSE IF ~Repairs /\ Selected = <<>> THEN "nothing fits"
    ELSE IF \E i \in Range(Selected) : ~Opens(i) THEN "layout"
    ELSE "none"

\* A strict sum wants coefficients of at most one.
TooHeavy == /\ Sum /\ ~Repairs /\ merge.weights # <<>>
            /\ SumFunctionOnSet(merge.weights, {i \in Range(Selected) : KindOf(i) = "checkpoint"}) > 4

\* Everything is tried on the structure alone before gigabytes are hashed.
InspectStructure ==
    /\ stage = "inspect"
    /\ IF Refusal # "none" THEN FailMerge(Refusal)
       ELSE IF TooHeavy THEN FailMerge("weights")
       ELSE /\ stage' = "hash"
            /\ UNCHANGED <<merge, edition, hashed, included, shares, readOf, outcome, output, trouble>>

\* The digests of all the sources, also of those that will be left out.
HashSources ==
    /\ stage = "hash"
    /\ hashed' = [s \in Sources |-> IF s \in Materials /\ merge.materials[s].fit = "unusable"
                                    THEN 0 ELSE edition[s]]
    /\ stage' = "filter"
    /\ UNCHANGED <<merge, edition, included, shares, readOf, outcome, output, trouble>>

\* Coefficients in quarters go with their materials; a default depends on what is left.
Paired == [k \in DOMAIN Selected |-> merge.weights[Selected[k]]]

\* A sum of more than one is brought to one, the adapters' coefficients left alone; adapters
\* take nothing from the base, nor does anything in a difference.
Resolved ==
    LET checkpoints == {k \in DOMAIN Selected : KindOf(Selected[k]) = "checkpoint"}
        count   == Cardinality(checkpoints)
        default == IF Sum THEN count + 1 ELSE 2
        total   == SumFunctionOnSet(Paired, checkpoints)
    IN IF merge.weights = <<>> \/ Selected = <<>>
       THEN [unit |-> default, base |-> IF Sum THEN default - count ELSE default,
             of |-> [k \in DOMAIN Selected |-> IF k \in checkpoints THEN 1 ELSE default]]
       ELSE IF Sum /\ total > 4
       THEN [unit |-> 4 * total, base |-> 0,
             of |-> [k \in DOMAIN Selected |-> Paired[k] * IF k \in checkpoints THEN 4 ELSE total]]
       ELSE [unit |-> 4, base |-> IF Sum THEN 4 - total ELSE 4, of |-> Paired]

\* Filtered again, on the hashed sources, opened, and given coefficients.
OpenMaterials ==
    /\ stage = "filter"
    /\ included' = Selected
    /\ shares' = Resolved
    /\ stage' = "merge"
    /\ UNCHANGED <<merge, edition, hashed, readOf, outcome, output, trouble>>

-----------------------------------------------------------------------------
(* One tensor. *)

Clean(at) == [c \in Coordinates |-> IF at[c] = NaN THEN 0 ELSE at[c]]
Broken(at) == {c \in Coordinates : at[c] = NaN}

\* Mutant: one look, before the read.
AvailableMutant(m, t) == m.holds[t].state \in {"there", "quantized"} \/ (m.holds[t].state = "absent" /\ Forces)

\* A checkpoint has something for a tensor; the second look, after the read, finds a
\* quantization that could not be undone.
Available(m, t) ==
    LET state == m.holds[t].state
    IN \/ state = "there"
       \/ state = "quantized" /\ ~Repairs
       \/ state = "absent" /\ Forces

\* What is read: a tensor forced into being is zero, a failed one is the base's.
Contents(m, t, base) ==
    CASE m.holds[t].state = "absent"    -> [c \in Coordinates |-> 0]
      [] m.holds[t].state = "quantized" /\ Repairs -> base
      [] OTHER                          -> m.holds[t].at

\* What a checkpoint adds at a coordinate: its share of its own number, of the base's where it
\* has none and numbers are summed, of nothing where they are subtracted.
FromCheckpoint(i, w, t, base) ==
    LET m == merge.materials[i]
        x == Contents(m, t, base)
    IN [c \in Coordinates |->
          IF ~Available(m, t) \/ x[c] = NaN THEN (IF Sum THEN w * base[c] ELSE 0)
          ELSE IF Sum THEN w * x[c] ELSE -(w * x[c])]

\* An adapter adds its delta, whatever the base's share is.
FromAdapter(i, w, t) ==
    LET m == merge.materials[i]
    IN [c \in Coordinates |->
          IF m.holds[t].state # "there" THEN 0
          ELSE (IF Sum THEN w ELSE -w) * Clean(m.holds[t].at)[c]]

\* A material counts as applied when some number of its own was used.
Applies(i, w, t) ==
    LET m == merge.materials[i]
    IN /\ w # 0
       /\ IF KindOf(i) = "checkpoint"
          THEN Available(m, t) /\ (m.holds[t].state = "absent" \/ Broken(m.holds[t].at) # Coordinates)
          ELSE /\ m.holds[t].state = "there"
               /\ Repairs => \E c \in Coordinates : Clean(m.holds[t].at)[c] # 0

Clamped(n) == IF n > Limit * shares.unit THEN Limit * shares.unit
              ELSE IF n < -(Limit * shares.unit) THEN -(Limit * shares.unit) ELSE n

\* A strict merge refuses what a repairing one replaces.
StrictRefusal(t) ==
    LET base == merge.base[t]
        used == {k \in DOMAIN included : shares.of[k] # 0}
        M(k) == merge.materials[included[k]]
    IN ~Repairs /\
       IF base.type = "buffer"
       THEN \E k \in DOMAIN included :
               /\ KindOf(included[k]) = "checkpoint"
               /\ M(k).holds[t].state = "unreadable" \/ M(k).holds[t].at # base.at
       ELSE \/ Broken(base.at) # {}
            \/ \E k \in DOMAIN included :
                  /\ KindOf(included[k]) = "lora" \/ k \in used
                  /\ M(k).holds[t].state # "absent"
                  /\ M(k).holds[t].state = "unreadable" \/ Broken(M(k).holds[t].at) # {}

\* A tensor of run-time state, or one whose quantization is broken, stays the base's.
Preserved(t) == merge.base[t].type = "buffer" \/ (Repairs /\ merge.base[t].type \in {"state", "broken scale"})

Cleaned(t) == IF Repairs /\ merge.base[t].type # "buffer" THEN Clean(merge.base[t].at) ELSE merge.base[t].at
Scaled1(at) == [c \in Coordinates |-> at[c] * shares.unit]

\* The base's share and what each material adds to it.
Blend(t) ==
    LET base == Cleaned(t)
        Part(k) == IF KindOf(included[k]) = "checkpoint"
                   THEN FromCheckpoint(included[k], shares.of[k], t, base)
                   ELSE FromAdapter(included[k], shares.of[k], t)
    IN [c \in Coordinates |-> shares.base * base[c]
                              + SumFunction([k \in DOMAIN included |-> Part(k)[c]])]

\* A tensor to which nothing was applied is the base's again, not the sum that was begun.
Applied(t) == \E k \in DOMAIN included : Applies(included[k], shares.of[k], t)

\* Whether the saved tensor is another than the base's: a repaired coordinate is a change.
Differs(t, at) == \E c \in Coordinates : merge.base[t].at[c] = NaN \/ at[c] # merge.base[t].at[c] * shares.unit

\* What a merged tensor says of its change; one that stays says whether it was repaired.
SaysChanged(t, kept, at) == IF kept THEN Broken(merge.base[t].at) # {} ELSE Differs(t, at)

MergeTensor ==
    LET t     == Tensors[Len(outcome) + 1]
        kept  == Preserved(t) \/ ~Applied(t)
        whole == IF kept THEN Scaled1(Cleaned(t)) ELSE Blend(t)
        at    == [c \in Coordinates |-> Clamped(whole[c])]
    IN /\ stage = "merge"
       /\ Len(outcome) < Len(Tensors)
       /\ IF StrictRefusal(t) \/ (~Repairs /\ at # whole) THEN FailMerge("numbers")
          ELSE /\ outcome' = Append(outcome, [at |-> at, merged |-> ~kept, changed |-> SaysChanged(t, kept, at)])
               /\ readOf' = [s \in Sources |-> IF s = 0 \/ (s \in Range(included) /\ ~Preserved(t))
                                               THEN readOf[s] \cup {edition[s]} ELSE readOf[s]]
               /\ UNCHANGED <<merge, stage, edition, hashed, included, shares, output, trouble>>

-----------------------------------------------------------------------------
(* Saving and publication. *)

Count(Test(_)) == Cardinality({k \in DOMAIN outcome : Test(k)})

\* Every saved tensor is opened again; the changes are counted anew against the base.
VerifySaved ==
    /\ stage = "merge"
    /\ Len(outcome) = Len(Tensors)
    /\ IF Count(LAMBDA k : Differs(Tensors[k], outcome[k].at)) # Count(LAMBDA k : outcome[k].changed)
       THEN FailMerge("count")
       ELSE /\ stage' = "verify"
            /\ UNCHANGED <<merge, edition, hashed, included, shares, readOf, outcome, output, trouble>>

\* Mutant: the sources are not looked at again.
SameSourcesMutant == TRUE

\* The sources have to be what was hashed.
SameSources == \A s \in Sources : hashed[s] \in {0, edition[s]}

VerifyMerged ==
    /\ stage = "verify"
    /\ IF ~SameSources THEN FailMerge("source changed")
       ELSE /\ stage' = "publish"
            /\ UNCHANGED <<merge, edition, hashed, included, shares, readOf, outcome, output, trouble>>

\* A look at the output, which may be out of date when the file is linked.
CheckOutput ==
    /\ stage = "publish"
    /\ IF output # "none" THEN FailMerge("output exists")
       ELSE /\ stage' = "link"
            /\ UNCHANGED <<merge, edition, hashed, included, shares, readOf, outcome, output, trouble>>

\* link, or the rename of a directory that is not empty, fails on a name that is taken.
LinkFails == output # "none"

LinkOutput ==
    /\ stage = "link"
    /\ IF LinkFails THEN FailMerge("output exists")
       ELSE /\ output' = IF output = "none" THEN "ours" ELSE "replaced"
            /\ stage' = "done"
            /\ UNCHANGED <<merge, edition, hashed, included, shares, readOf, outcome, trouble>>

\* Another program replaces a source, once.
EditSource(s) ==
    /\ s \in merge.restless \cap Sources
    /\ stage \notin {"resolve", "done", "failed"}
    /\ edition[s] = 1
    /\ edition' = [edition EXCEPT ![s] = 2]
    /\ UNCHANGED <<merge, stage, hashed, included, shares, readOf, outcome, output, trouble>>

\* Another merge publishes at the same name.
RivalPublishes ==
    /\ merge.rival = "during"
    /\ stage \notin {"resolve", "done", "failed"}
    /\ output = "none"
    /\ output' = "theirs"
    /\ UNCHANGED <<merge, stage, edition, hashed, included, shares, readOf, outcome, trouble>>

MergeNext ==
    \/ ResolveMerge \/ InspectStructure \/ HashSources \/ OpenMaterials
    \/ MergeTensor \/ VerifySaved \/ VerifyMerged \/ CheckOutput \/ LinkOutput
    \/ \E s \in Sources : EditSource(s)
    \/ RivalPublishes

MergeSpec == MergeInit /\ [][MergeNext]_mergeVars

-----------------------------------------------------------------------------
(* What a merge promises. *)

\* Every variable keeps its type, and a merge that failed says why (model_merge.py:407-540).
MergeTypeOK ==
    /\ stage \in {"resolve", "inspect", "hash", "filter", "merge", "verify", "publish", "link", "done", "failed"}
    /\ Range(included) \subseteq Materials
    /\ DOMAIN shares.of = DOMAIN included
    /\ \A k \in DOMAIN outcome : outcome[k].at \in [Coordinates -> Int]
    /\ output \in {"none", "ours", "theirs", "replaced"}
    /\ (stage = "failed") = (trouble # "none")

\* The coefficients that a request asks for, material by material, in units of shares.unit:
\* its own, brought down with those of the other checkpoints that are merged if their sum is
\* more than one, or the default.
Wanted(i) ==
    LET checkpoints == {j \in Range(included) : KindOf(j) = "checkpoint"}
        total == SumFunctionOnSet(merge.weights, checkpoints)
        even  == IF Sum THEN Cardinality(checkpoints) + 1 ELSE 2
    IN IF merge.weights = <<>> THEN IF i \in checkpoints THEN shares.unit \div even ELSE shares.unit
       ELSE IF Sum /\ i \in checkpoints /\ total > 4 THEN (merge.weights[i] * shares.unit) \div total
       ELSE (merge.weights[i] * shares.unit) \div 4

\* How far a material moves a coordinate from the base: towards its own number in a sum, by
\* its number in a difference, not at all where it has none.
Moves(i, t, c) ==
    LET m == merge.materials[i]
        x == IF m.holds[t].state = "absent" THEN 0 ELSE m.holds[t].at[c]
        has == /\ \/ m.holds[t].state = "there"
                  \/ m.holds[t].state = "absent" /\ Forces /\ KindOf(i) = "checkpoint"
                  \/ m.holds[t].state = "quantized" /\ ~Repairs
               /\ x # NaN
    IN IF ~has THEN 0
       ELSE IF ~Sum THEN -(Wanted(i) * x)
       ELSE Wanted(i) * (IF KindOf(i) = "lora" THEN x ELSE x - Cleaned(t)[c])

\* Every published number is the base's moved by each included material by its own coefficient,
\* within the range of the storage.  A coefficient that slips to another material when one is
\* left out, a missing share that is not given back, a base that is subtracted for a tensor the
\* material lacks would all break it (model_merge.py:230-240, 280-353, model_merge_options.py:184-211).
EachMovesTheBase ==
    \A k \in DOMAIN outcome :
        LET t == Tensors[k]
        IN ~Preserved(t) =>
             \A c \in Coordinates :
                outcome[k].at[c] = Clamped(shares.unit * Cleaned(t)[c]
                                           + SumFunction([i \in Range(included) |-> Moves(i, t, c)]))

\* A merge that repairs fails for no material's sake: only for its output's, for a source that
\* changed, or for a pipeline directory with adapter keys, which is forced in and cannot be
\* opened (model_merge.py:84-85).  In particular the two counts of changed tensors, one taken
\* while merging and one of the saved file, always agree (model_merge.py:354-371, 515-516).
RepairNeverFails ==
    (Repairs /\ \A i \in Materials : merge.materials[i].fit # "pipeline")
        => trouble \in {"none", "output exists", "source changed"}

\* A merge that is published was read from what its report records: every tensor of an included
\* source from the edition that was hashed (model_merge.py:407-416, 517-519).
ReportOfItsSources ==
    stage \in {"publish", "link", "done"} => \A s \in Sources : readOf[s] \subseteq {hashed[s]}

\* Nothing that another merge published at the output, before or during this one, is replaced
\* (model_merge.py:520-529).
MergeReplacesNothing == output # "replaced"

\* The report says no_effect exactly when the saved file has the base's numbers, all of them
\* finite; a merge that only repaired the base has an effect (model_merge.py:506-512).
ResultIsTrue ==
    stage = "done" =>
        LET changed == Count(LAMBDA k : outcome[k].changed)
            Same(k) == /\ Broken(merge.base[Tensors[k]].at) = {}
                       /\ outcome[k].at = Scaled1(merge.base[Tensors[k]].at)
        IN (changed = 0) = \A k \in DOMAIN outcome : Same(k)

\* A merge that is published replaces nothing and says the truth of its sources and its result, and
\* one that repairs does not fail for a material.
MergeIsTrue ==
    MergeTypeOK /\ RepairNeverFails /\ ReportOfItsSources /\ MergeReplacesNothing /\ ResultIsTrue

\* A merge, published or refused, is true in both ways: in its numbers and in what it says of them.
MergesAreTrue == MergeIsTrue /\ EachMovesTheBase
=============================================================================
