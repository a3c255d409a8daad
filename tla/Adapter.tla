-------------------------------- MODULE Adapter --------------------------------
(***************************************************************************)
(* The projections of a LoRA adapter, made into the deltas that a merge    *)
(* adds (model_merge_lora.py: prepare_lora).  Exports may name one         *)
(* projection twice, under the names of two programs: equal ones that fit  *)
(* as they are are applied once, different ones that meet in a tensor are  *)
(* all applied.                                                            *)
(***************************************************************************)
EXTENDS Integers, Sequences, FiniteSets, FiniteSetsExt, SortedSets

CONSTANT Adapters     \* adapters and what the base has for their modules

\* The tensors are met in an order, each is of one side, and what they are added to has rows.
IsAdapter(a) ==
    /\ Len(a.keys) \in Nat /\ DOMAIN a.keys = 1..Len(a.keys)
    /\ \A k \in DOMAIN a.keys :
          /\ a.keys[k].side \in {"down", "up"}
          /\ \A t \in a.targets[a.keys[k].module] : t.rows # {}
    /\ a.remap.rows # {}

ASSUME AdapterAssumption == \A a \in Adapters : IsAdapter(a)

VARIABLES
    adapter,          \* keys: its tensors [module, side, value]; alpha: the modules with one;
                      \* targets, fitting, remap: what the base has for a module; policy
    modules,          \* the modules in the order they were met
    deltas,           \* the deltas so far
    turn,             \* the module that is prepared next
    prepared          \* "reading", "pairing", "ready", or why the adapter is refused

adapterVars == <<adapter, modules, deltas, turn, prepared>>

AdapterInit ==
    /\ adapter \in Adapters
    /\ modules = <<>>
    /\ deltas = <<>>
    /\ turn = 1
    /\ prepared = "reading"

RefuseAdapter(why) == prepared' = why /\ UNCHANGED <<adapter, modules, deltas, turn>>

KeysOf(module, side) == {k \in DOMAIN adapter.keys : adapter.keys[k].module = module /\ adapter.keys[k].side = side}
Named == {adapter.keys[k].module : k \in DOMAIN adapter.keys}
FirstKey(module) == Min(KeysOf(module, "down") \cup KeysOf(module, "up"))
FirstKeys == {FirstKey(m) : m \in Named}

\* Each module has one tensor for each side, and only modules have an alpha.
CollectPairs ==
    /\ prepared = "reading"
    /\ IF \E m \in Named, s \in {"down", "up"} : Cardinality(KeysOf(m, s)) > 1 THEN RefuseAdapter("duplicate")
       ELSE IF Named = {} \/ ~(adapter.alpha \subseteq Named) THEN RefuseAdapter("unmatched alpha")
       ELSE /\ modules' = [n \in 1..Cardinality(FirstKeys) |-> adapter.keys[Nth(FirstKeys, n)].module]
            /\ prepared' = "pairing"
            /\ UNCHANGED <<adapter, deltas, turn>>

Value(m, side) == adapter.keys[CHOOSE k \in KeysOf(m, side) : TRUE].value

\* The one target of a module; a synthetic policy finds one where the names do not.
Located(m) == Cardinality(adapter.targets[m]) = 1
TargetOf(m) == IF Located(m) THEN CHOOSE t \in adapter.targets[m] : TRUE ELSE adapter.remap

\* An alpha of the module scales it.  One that the synthetic policy adapts, to another target or
\* to another shape, has a report of that, and the report names the module.
Delta(m) == [module |-> m, target |-> TargetOf(m), down |-> Value(m, "down"), up |-> Value(m, "up"),
             scale |-> IF m \in adapter.alpha THEN 1 ELSE 2,
             adaptation |-> IF Located(m) /\ adapter.fitting[m] THEN {} ELSE {m}]

\* Two slices of a tensor, or the tensor and a slice of it, meet.
Overlap(s, t) == s.tensor = t.tensor /\ s.rows \cap t.rows # {}

\* Mutant: the values are not compared.
IdenticalMutant(d, e) == d.target = e.target /\ d.scale = e.scale /\ d.adaptation = e.adaptation

\* The same target, scale and both projections, and the same report if there is one.
Identical(d, e) ==
    /\ d.target = e.target /\ d.scale = e.scale /\ d.adaptation = e.adaptation
    /\ d.down = e.down /\ d.up = e.up

\* The next module: paired, with a target it fits, and not already there.
PrepareModule ==
    LET m == modules[turn]
    IN /\ prepared = "pairing" /\ turn <= Len(modules)
       /\ IF KeysOf(m, "down") = {} \/ KeysOf(m, "up") = {} THEN RefuseAdapter("unpaired")
          ELSE IF adapter.policy = "strict" /\ ~Located(m) THEN RefuseAdapter("target")
          ELSE IF adapter.policy = "strict" /\ ~adapter.fitting[m] THEN RefuseAdapter("shape")
          ELSE /\ deltas' = IF \E k \in DOMAIN deltas : /\ Overlap(deltas[k].target, TargetOf(m))
                                                       /\ Identical(deltas[k], Delta(m))
                            THEN deltas ELSE Append(deltas, Delta(m))
               /\ turn' = turn + 1
               /\ UNCHANGED <<adapter, modules, prepared>>

AllPrepared ==
    /\ prepared = "pairing" /\ turn > Len(modules)
    /\ prepared' = "ready"
    /\ UNCHANGED <<adapter, modules, deltas, turn>>

AdapterNext == CollectPairs \/ PrepareModule \/ AllPrepared
AdapterSpec == AdapterInit /\ [][AdapterNext]_adapterVars

-----------------------------------------------------------------------------

\* What a module adds to the base: where, how much, and by which two tensors.
Branch(d) == <<d.target, d.scale, d.down, d.up>>

\* Every learned branch of an adapter is applied, whichever names it comes under and in whatever
\* order; two deltas of one branch come from two names, and not both fit as they are
\* (model_merge_lora.py:191-212, "identical-projections-once; distinct-projections-additive").
BranchesOnce ==
    prepared = "ready" =>
        /\ {Branch(deltas[k]) : k \in DOMAIN deltas} = {Branch(Delta(m)) : m \in Named}
        /\ \A j, k \in DOMAIN deltas : j # k /\ Branch(deltas[j]) = Branch(deltas[k]) =>
              /\ deltas[j].module # deltas[k].module
              /\ deltas[j].adaptation # {} \/ deltas[k].adaptation # {}
=============================================================================
