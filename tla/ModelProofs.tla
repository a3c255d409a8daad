---------------------------- MODULE ModelProofs -----------------------------
(***************************************************************************)
(* Proofs about what the commands make of models.                          *)
(*                                                                         *)
(* Adapter: for any adapters, every learned branch of one is applied once. *)
(*                                                                         *)
(* UnifiedMerge: for any requests of any length, a package is what was     *)
(* planned, out of what was hashed.                                        *)
(*                                                                         *)
(* WeightedMerge: for any requests, materials and numbers, every published *)
(* number is the base's moved by each material by its own coefficient.     *)
(*                                                                         *)
(* Projection: for any two layouts of any tensors and shapes, the mapping  *)
(* keeps the order and the ends of the blocks, and the fit of a shape the  *)
(* order and the ends of its axes.                                         *)
(***************************************************************************)
EXTENDS Adapter, UnifiedMerge, WeightedMerge, Projection, DataLemmas

-----------------------------------------------------------------------------
(* Adapter *)

\* The modules of an adapter once they are collected: all of them.
Collected == Len(modules) \in Nat /\ DOMAIN modules = 1..Len(modules) /\ {modules[n] : n \in DOMAIN modules} = Named

\* The deltas of an adapter, one for each module.
Deltas == {Delta(m) : m \in Named}

\* What of a delta is compared: all but the name of its module.
Compared(d) == <<d.target, d.scale, d.adaptation, d.down, d.up>>

\* The deltas of the first n modules: what is compared is there of each of them, and none twice.
PreparedTo(n) ==
    /\ deltas \in Seq(Deltas)
    /\ \A k \in DOMAIN deltas : \E i \in 1..n : deltas[k] = Delta(modules[i])
    /\ \A i \in 1..n : \E k \in DOMAIN deltas : Compared(deltas[k]) = Compared(Delta(modules[i]))
    /\ \A j, k \in DOMAIN deltas : j # k => Compared(deltas[j]) # Compared(deltas[k])

\* What every reachable state of an adapter is: the invariant that is inductive.
AdapterInv ==
    /\ IsAdapter(adapter)
    /\ (prepared = "reading" => deltas = <<>> /\ turn = 1)
    /\ (prepared = "pairing" => Collected /\ turn \in 1..Len(modules) + 1 /\ PreparedTo(turn - 1))
    /\ (prepared = "ready" => Collected /\ PreparedTo(Len(modules)))

\* The first tensor of a module is one of its tensors.
LEMMA FirstOfModule ==
    ASSUME IsAdapter(adapter), NEW m \in Named
    PROVE  FirstKey(m) \in DOMAIN adapter.keys /\ adapter.keys[FirstKey(m)].module = m
<1>1. PICK K : K = KeysOf(m, "down") \cup KeysOf(m, "up")
  OBVIOUS
<1>2. K \in SUBSET Nat
  BY <1>1 DEF KeysOf, IsAdapter
<1>3. K # {}
  <2>1. PICK k \in DOMAIN adapter.keys : adapter.keys[k].module = m
    BY DEF Named
  <2>2. adapter.keys[k].side \in {"down", "up"}
    BY DEF IsAdapter
  <2>3. k \in K
    BY <1>1, <2>1, <2>2 DEF KeysOf
  <2>4. QED
    BY <2>3
<1>4. \E x \in K : \A y \in K : x <= y
  BY <1>2, <1>3, LeastNatural
<1>5. FirstKey(m) = CHOOSE x \in K : \A y \in K : x <= y
  BY <1>1 DEF FirstKey, Min
<1>6. FirstKey(m) \in K
  BY <1>4, <1>5
<1>7. QED
  BY <1>1, <1>6 DEF KeysOf

\* What the pairs are collected in is all the modules.
LEMMA Collecting ==
    ASSUME IsAdapter(adapter),
           modules' = [n \in 1..Cardinality(FirstKeys) |-> adapter.keys[Nth(FirstKeys, n)].module],
           UNCHANGED adapter
    PROVE  Collected'
<1>1. PICK F, c, s : F = FirstKeys /\ c = Cardinality(F) /\ s = modules'
  <2>1. PICK F : F = FirstKeys
    OBVIOUS
  <2>2. QED
    BY <2>1
<1>2. F \subseteq DOMAIN adapter.keys /\ DOMAIN adapter.keys = 1..Len(adapter.keys) /\ Len(adapter.keys) \in Nat
  BY <1>1, FirstOfModule DEF FirstKeys, IsAdapter
<1>3. IsFiniteSet(F)
  <2>1. IsFiniteSet(1..Len(adapter.keys))
    BY <1>2, FirstNumbers
  <2>2. QED
    BY <1>2, <2>1, FS_Subset
<1>4. F \in SUBSET Int
  <2>1. ASSUME NEW x \in F
        PROVE  x \in Int
    <3>1. x \in 1..Len(adapter.keys)
      BY <1>2
    <3>2. QED
      BY <3>1
  <2>2. QED
    BY <2>1
<1>5. Sorted(F)
  BY <1>3, <1>4, AscendingSorts
<1>6. c \in Nat /\ (\A n \in 1..c : Nth(F, n) \in F) /\ (\A x \in F : \E n \in 1..c : Nth(F, n) = x)
  BY <1>1, <1>5 DEF Sorted
<1>7. s = [n \in 1..c |-> adapter.keys[Nth(F, n)].module]
  BY <1>1
<1>8. Len(s) \in Nat /\ DOMAIN s = 1..Len(s) /\ DOMAIN s = 1..c
  BY <1>6, <1>7
<1>9. {s[n] : n \in DOMAIN s} = Named
  <2>1. ASSUME NEW n \in DOMAIN s
        PROVE  s[n] \in Named
    <3>1. Nth(F, n) \in DOMAIN adapter.keys /\ s[n] = adapter.keys[Nth(F, n)].module
      BY <1>2, <1>6, <1>7, <1>8
    <3>2. QED
      BY <3>1 DEF Named
  <2>2. ASSUME NEW m \in Named
        PROVE  \E n \in DOMAIN s : s[n] = m
    <3>1. FirstKey(m) \in F /\ adapter.keys[FirstKey(m)].module = m
      BY <1>1, FirstOfModule DEF FirstKeys
    <3>2. PICK n \in 1..c : Nth(F, n) = FirstKey(m)
      BY <1>6, <3>1
    <3>3. s[n] = m /\ n \in DOMAIN s
      BY <1>7, <1>8, <3>1, <3>2
    <3>4. QED
      BY <3>3
  <2>3. QED
    BY <2>1, <2>2
<1>10. Named' = Named
  BY DEF Named
<1>11. QED
  BY <1>1, <1>8, <1>9, <1>10 DEF Collected

\* What a module is added to has rows.
LEMMA TargetHasRows ==
    ASSUME IsAdapter(adapter), NEW m \in Named
    PROVE  TargetOf(m).rows # {}
<1>1. (\A t \in adapter.targets[m] : t.rows # {}) /\ adapter.remap.rows # {}
  BY DEF IsAdapter, Named
<1>2. CASE Located(m)
  <2>1. adapter.targets[m] # {}
    BY <1>2, FS_EmptySet DEF Located
  <2>2. TargetOf(m) = CHOOSE t \in adapter.targets[m] : TRUE
    BY <1>2 DEF TargetOf
  <2>3. TargetOf(m) \in adapter.targets[m]
    BY <2>1, <2>2
  <2>4. QED
    BY <1>1, <2>3
<1>3. CASE ~Located(m)
  BY <1>1, <1>3 DEF TargetOf
<1>4. QED
  BY <1>2, <1>3

\* Two deltas are found identical if what is compared is equal.
LEMMA SameBranch ==
    ASSUME IsAdapter(adapter), NEW m \in Named, NEW p \in Named
    PROVE  Compared(Delta(p)) = Compared(Delta(m)) <=> Overlap(Delta(p).target, TargetOf(m)) /\ Identical(Delta(p), Delta(m))
<1>1. PICK d, e : d = Delta(p) /\ e = Delta(m)
  OBVIOUS
<1>2. e.target = TargetOf(m)
  BY <1>1 DEF Delta
<1>3. e.target.rows # {}
  BY <1>2, TargetHasRows
<1>4. Compared(d) = Compared(e) <=> Identical(d, e)
  BY DEF Compared, Identical
<1>5. Identical(d, e) => Overlap(d.target, e.target)
  <2>1. HAVE Identical(d, e)
  <2>2. d.target = e.target
    BY <2>1 DEF Identical
  <2>3. QED
    BY <1>3, <2>2 DEF Overlap
<1>6. QED
  BY <1>1, <1>2, <1>4, <1>5

\* A module is prepared: its branch is there, and was before or is new.
LEMMA Preparing ==
    ASSUME AdapterInv, prepared = "pairing", turn <= Len(modules), UNCHANGED <<adapter, modules, prepared>>,
           turn' = turn + 1,
           deltas' = IF \E k \in DOMAIN deltas : /\ Overlap(deltas[k].target, TargetOf(modules[turn]))
                                                 /\ Identical(deltas[k], Delta(modules[turn]))
                     THEN deltas ELSE Append(deltas, Delta(modules[turn]))
    PROVE  AdapterInv'
<1>1. PICK t, m, l : t = turn /\ m = modules[t] /\ l = Len(deltas)
  <2>1. PICK t : t = turn
    OBVIOUS
  <2>2. QED
    BY <2>1
<1>2. IsAdapter(adapter) /\ Collected /\ t \in 1..Len(modules) + 1 /\ Len(modules) \in Nat /\ t \in Nat /\ PreparedTo(t - 1)
  BY <1>1 DEF AdapterInv, Collected
<1>3. t \in 1..Len(modules) /\ t \in DOMAIN modules /\ m \in Named /\ t + 1 \in 1..Len(modules) + 1
  <2>1. t \in 1..Len(modules) /\ t + 1 \in 1..Len(modules) + 1
    BY <1>1, <1>2
  <2>2. QED
    BY <1>1, <1>2, <2>1 DEF Collected
<1>4. /\ deltas \in Seq(Deltas) /\ l \in Nat /\ DOMAIN deltas = 1..l
      /\ \A k \in DOMAIN deltas : \E i \in 1..t - 1 : deltas[k] = Delta(modules[i])
      /\ \A i \in 1..t - 1 : \E k \in DOMAIN deltas : Compared(deltas[k]) = Compared(Delta(modules[i]))
      /\ \A j, k \in DOMAIN deltas : j # k => Compared(deltas[j]) # Compared(deltas[k])
  BY <1>1, <1>2 DEF PreparedTo
<1>5. \A k \in DOMAIN deltas : \E p \in Named : deltas[k] = Delta(p)
  BY <1>4 DEF Deltas
<1>6. Deltas' = Deltas /\ Named' = Named /\ \A p : Delta(p)' = Delta(p)
  <2>1. Named' = Named
    BY DEF Named
  <2>2. \A p : Delta(p)' = Delta(p)
    <3>1. \A p, side : Value(p, side)' = Value(p, side)
      BY DEF Value, KeysOf
    <3>2. \A p : Located(p)' = Located(p) /\ TargetOf(p)' = TargetOf(p)
      BY DEF Located, TargetOf
    <3>3. QED
      BY <3>1, <3>2 DEF Delta
  <2>3. QED
    BY <2>1, <2>2 DEF Deltas
<1>7. 1..t - 1 \subseteq 1..t /\ t \in 1..t /\ \A i \in 1..t : i \in 1..t - 1 \/ i = t
  BY <1>2, <1>3
<1>8. ASSUME \E k \in DOMAIN deltas : Overlap(deltas[k].target, TargetOf(m)) /\ Identical(deltas[k], Delta(m))
      PROVE  /\ deltas' \in Seq(Deltas)
             /\ \A k \in DOMAIN deltas' : \E i \in 1..t : deltas'[k] = Delta(modules[i])
             /\ \A i \in 1..t : \E k \in DOMAIN deltas' : Compared(deltas'[k]) = Compared(Delta(modules[i]))
             /\ \A j, k \in DOMAIN deltas' : j # k => Compared(deltas'[j]) # Compared(deltas'[k])
  <2>1. deltas' = deltas
    BY <1>1, <1>8
  <2>2. PICK k \in DOMAIN deltas : Compared(deltas[k]) = Compared(Delta(m))
    BY <1>2, <1>3, <1>5, <1>8, SameBranch
  <2>3. \A j \in DOMAIN deltas : \E i \in 1..t : deltas[j] = Delta(modules[i])
    BY <1>4, <1>7
  <2>4. \A i \in 1..t : \E j \in DOMAIN deltas : Compared(deltas[j]) = Compared(Delta(modules[i]))
    BY <1>1, <1>4, <1>7, <2>2
  <2>5. QED
    BY <1>4, <2>1, <2>3, <2>4
<1>9. ASSUME ~ \E k \in DOMAIN deltas : Overlap(deltas[k].target, TargetOf(m)) /\ Identical(deltas[k], Delta(m))
      PROVE  /\ deltas' \in Seq(Deltas)
             /\ \A k \in DOMAIN deltas' : \E i \in 1..t : deltas'[k] = Delta(modules[i])
             /\ \A i \in 1..t : \E k \in DOMAIN deltas' : Compared(deltas'[k]) = Compared(Delta(modules[i]))
             /\ \A j, k \in DOMAIN deltas' : j # k => Compared(deltas'[j]) # Compared(deltas'[k])
  <2>1. PICK d : d = Delta(m)
    OBVIOUS
  <2>2. deltas' = Append(deltas, d) /\ d \in Deltas
    BY <1>1, <1>3, <1>9, <2>1 DEF Deltas
  <2>3. deltas' \in Seq(Deltas) /\ DOMAIN deltas' = 1..l + 1 /\ deltas'[l + 1] = d
        /\ \A k \in 1..l : deltas'[k] = deltas[k]
    BY <1>1, <1>4, <2>2
  <2>4. \A k \in 1..l + 1 : k \in 1..l \/ k = l + 1
    BY <1>4
  <2>5. \A k \in 1..l : k \in 1..l + 1 /\ k # l + 1
    BY <1>4
  <2>6. l + 1 \in 1..l + 1
    BY <1>4
  <2>7. \A k \in DOMAIN deltas : Compared(deltas[k]) # Compared(d)
    BY <1>2, <1>3, <1>5, <1>9, <2>1, SameBranch
  <2>8. ASSUME NEW k \in DOMAIN deltas'
        PROVE  \E i \in 1..t : deltas'[k] = Delta(modules[i])
    <3>1. CASE k \in 1..l
      BY <1>4, <1>7, <2>3, <3>1
    <3>2. CASE k = l + 1
      BY <1>1, <1>7, <2>1, <2>3, <3>2
    <3>3. QED
      BY <2>3, <2>4, <3>1, <3>2
  <2>9. ASSUME NEW i \in 1..t
        PROVE  \E k \in DOMAIN deltas' : Compared(deltas'[k]) = Compared(Delta(modules[i]))
    <3>1. CASE i \in 1..t - 1
      <4>1. PICK k \in 1..l : Compared(deltas[k]) = Compared(Delta(modules[i]))
        BY <1>4, <3>1
      <4>2. k \in DOMAIN deltas' /\ deltas'[k] = deltas[k]
        BY <2>3, <2>5
      <4>3. QED
        BY <4>1, <4>2
    <3>2. CASE i = t
      BY <1>1, <2>1, <2>3, <2>6, <3>2
    <3>3. QED
      BY <1>7, <3>1, <3>2
  <2>10. ASSUME NEW j \in DOMAIN deltas', NEW k \in DOMAIN deltas', j # k
         PROVE  Compared(deltas'[j]) # Compared(deltas'[k])
    <3>1. CASE j \in 1..l /\ k \in 1..l
      BY <1>4, <2>3, <2>10, <3>1
    <3>2. CASE j \in 1..l /\ k = l + 1
      BY <1>4, <2>3, <2>7, <3>2
    <3>3. CASE j = l + 1 /\ k \in 1..l
      BY <1>4, <2>3, <2>7, <3>3
    <3>4. QED
      BY <2>3, <2>4, <2>10, <3>1, <3>2, <3>3
  <2>11. QED
    BY <2>3, <2>8, <2>9, <2>10
<1>10. /\ deltas' \in Seq(Deltas)
       /\ \A k \in DOMAIN deltas' : \E i \in 1..t : deltas'[k] = Delta(modules[i])
       /\ \A i \in 1..t : \E k \in DOMAIN deltas' : Compared(deltas'[k]) = Compared(Delta(modules[i]))
       /\ \A j, k \in DOMAIN deltas' : j # k => Compared(deltas'[j]) # Compared(deltas'[k])
  BY <1>8, <1>9
<1>11. turn' - 1 = t
  BY <1>1, <1>2
<1>12. PreparedTo(turn - 1)'
  BY <1>6, <1>10, <1>11 DEF PreparedTo
<1>13. Collected' /\ IsAdapter(adapter)' /\ turn' \in 1..Len(modules') + 1
  BY <1>1, <1>2, <1>3, <1>6 DEF Collected, IsAdapter
<1>14. QED
  BY <1>12, <1>13 DEF AdapterInv

\* It holds of every adapter at the start.
LEMMA AdapterInitInv == AdapterInit => AdapterInv
  BY AdapterAssumption DEF AdapterInit, AdapterInv

\* Every step keeps it.
LEMMA AdapterNextInv == AdapterInv /\ [AdapterNext]_adapterVars => AdapterInv'
<1> SUFFICES ASSUME AdapterInv, [AdapterNext]_adapterVars PROVE AdapterInv'
  OBVIOUS
<1>1. ASSUME UNCHANGED <<adapter, modules, deltas, turn>>
      PROVE  (IsAdapter(adapter) => IsAdapter(adapter)') /\ (Collected => Collected') /\ \A n : PreparedTo(n) => PreparedTo(n)'
  <2>1. Named' = Named /\ \A p : Delta(p)' = Delta(p)
    <3>1. Named' = Named
      BY <1>1 DEF Named
    <3>2. \A p : Delta(p)' = Delta(p)
      BY <1>1 DEF Delta, TargetOf, Located, Value, KeysOf
    <3>3. QED
      BY <3>1, <3>2
  <2>2. Deltas' = Deltas
    BY <2>1 DEF Deltas
  <2>3. \A n : PreparedTo(n) => PreparedTo(n)'
    BY <1>1, <2>1, <2>2 DEF PreparedTo
  <2>4. QED
    BY <1>1, <2>1, <2>3 DEF IsAdapter, Collected
<1>2. ASSUME NEW why, why \notin {"reading", "pairing", "ready"}, RefuseAdapter(why)
      PROVE  AdapterInv'
  BY <1>1, <1>2 DEF RefuseAdapter, AdapterInv
<1>3. CASE CollectPairs
  <2>1. CASE RefuseAdapter("duplicate") \/ RefuseAdapter("unmatched alpha")
    BY <1>2, <2>1
  <2>2. CASE /\ modules' = [n \in 1..Cardinality(FirstKeys) |-> adapter.keys[Nth(FirstKeys, n)].module]
             /\ prepared' = "pairing" /\ UNCHANGED <<adapter, deltas, turn>>
    <3>1. IsAdapter(adapter)' /\ deltas' = <<>> /\ turn' = 1
      BY <1>3, <2>2 DEF AdapterInv, CollectPairs, IsAdapter
    <3>2. Collected'
      BY <2>2, Collecting DEF AdapterInv
    <3>3. 1 \in 1..Len(modules') + 1
      BY <3>2 DEF Collected
    <3>4. PreparedTo(turn - 1)'
      BY <3>1 DEF PreparedTo
    <3>5. QED
      BY <2>2, <3>1, <3>2, <3>3, <3>4 DEF AdapterInv
  <2>3. QED
    BY <1>3, <2>1, <2>2 DEF CollectPairs
<1>4. CASE PrepareModule
  <2>1. CASE RefuseAdapter("unpaired") \/ RefuseAdapter("target") \/ RefuseAdapter("shape")
    BY <1>2, <2>1
  <2>2. CASE /\ deltas' = IF \E k \in DOMAIN deltas : /\ Overlap(deltas[k].target, TargetOf(modules[turn]))
                                                      /\ Identical(deltas[k], Delta(modules[turn]))
                          THEN deltas ELSE Append(deltas, Delta(modules[turn]))
             /\ turn' = turn + 1 /\ UNCHANGED <<adapter, modules, prepared>>
    BY <1>4, <2>2, Preparing DEF PrepareModule
  <2>3. QED
    BY <1>4, <2>1, <2>2 DEF PrepareModule
<1>5. CASE AllPrepared
  <2>1. Collected /\ PreparedTo(turn - 1) /\ turn \in 1..Len(modules) + 1 /\ turn > Len(modules) /\ Len(modules) \in Nat
    BY <1>5 DEF AllPrepared, AdapterInv, Collected
  <2>2. turn - 1 = Len(modules)
    BY <2>1
  <2>3. PreparedTo(Len(modules))
    BY <2>1, <2>2
  <2>4. prepared' = "ready" /\ UNCHANGED <<adapter, modules, deltas, turn>>
    BY <1>5 DEF AllPrepared
  <2>5. QED
    BY <1>1, <2>1, <2>3, <2>4 DEF AdapterInv
<1>6. CASE UNCHANGED adapterVars
  BY <1>1, <1>6 DEF adapterVars, AdapterInv
<1>7. QED
  BY <1>3, <1>4, <1>5, <1>6 DEF AdapterNext

\* What it says once all modules are prepared.
LEMMA BranchesPromised == AdapterInv => BranchesOnce
<1> SUFFICES ASSUME AdapterInv, prepared = "ready" PROVE BranchesOnce
  BY DEF BranchesOnce
<1>1. Collected /\ PreparedTo(Len(modules)) /\ DOMAIN modules = 1..Len(modules) /\ {modules[n] : n \in DOMAIN modules} = Named
  BY DEF AdapterInv, Collected
<1>2. PICK B, C : B = {Branch(deltas[k]) : k \in DOMAIN deltas} /\ C = {Branch(Delta(m)) : m \in Named}
  OBVIOUS
<1>3. \A k \in DOMAIN deltas : \E m \in Named : deltas[k] = Delta(m)
  <2>1. SUFFICES ASSUME NEW k \in DOMAIN deltas PROVE \E m \in Named : deltas[k] = Delta(m)
    OBVIOUS
  <2>2. PICK i \in 1..Len(modules) : deltas[k] = Delta(modules[i])
    BY <1>1 DEF PreparedTo
  <2>3. modules[i] \in Named
    BY <1>1
  <2>4. QED
    BY <2>2, <2>3
<1>4. ASSUME NEW m \in Named
      PROVE  Branch(Delta(m)) \in B
  <2>1. PICK i \in 1..Len(modules) : modules[i] = m
    BY <1>1
  <2>2. PICK k \in DOMAIN deltas : Compared(deltas[k]) = Compared(Delta(modules[i]))
    BY <1>1 DEF PreparedTo
  <2>3. Branch(deltas[k]) = Branch(Delta(m))
    BY <2>1, <2>2 DEF Compared, Branch
  <2>4. QED
    BY <1>2, <2>3
<1>5. B = C
  BY <1>2, <1>3, <1>4
<1>6. ASSUME NEW j \in DOMAIN deltas, NEW k \in DOMAIN deltas, j # k, Branch(deltas[j]) = Branch(deltas[k])
      PROVE  /\ deltas[j].module # deltas[k].module
             /\ deltas[j].adaptation # {} \/ deltas[k].adaptation # {}
  <2>1. Compared(deltas[j]) # Compared(deltas[k])
    BY <1>1, <1>6 DEF PreparedTo
  <2>2. deltas[j].adaptation # deltas[k].adaptation
    BY <1>6, <2>1 DEF Compared, Branch
  <2>3. PICK m \in Named, p \in Named : deltas[j] = Delta(m) /\ deltas[k] = Delta(p)
    BY <1>3
  <2>4. Delta(m).module = m /\ Delta(p).module = p
    BY DEF Delta
  <2>5. m # p
    BY <2>2, <2>3
  <2>6. QED
    BY <2>2, <2>3, <2>4, <2>5
<1>7. QED
  BY <1>2, <1>5, <1>6 DEF BranchesOnce

\* Every learned branch of an adapter is applied, whatever names it comes under, and twice only if it comes
\* under two names and was adapted, for any adapters, targets and values (model_merge_lora.py, prepare_lora).
THEOREM BranchesTrue == AdapterSpec => []BranchesOnce
  BY AdapterInitInv, AdapterNextInv, BranchesPromised, PTL DEF AdapterSpec
-----------------------------------------------------------------------------
(* UnifiedMerge *)

\* The checkpoints of a package with its base, and the adapters of one of them.
StageSet == {0} \cup {i \in Kept : ~IsLora(i)}
Fused(j) == {i \in Kept : IsLora(i) /\ Target(i) = j}

\* The plan of a request.
PlanOf == [n \in DOMAIN Stages |->
             [source |-> Stages[n], strength |-> StrengthOf(Stages[n]),
              loras |-> [k \in DOMAIN AdaptersOf(Stages[n]) |->
                           [source |-> AdaptersOf(Stages[n])[k],
                            strength |-> StrengthOf(AdaptersOf(Stages[n])[k])]]]]

\* What the plan is made of: finite sets of numbers, in order.
LEMMA PlanParts ==
    ASSUME IsCascade(cascade)
    PROVE  /\ Places \subseteq Nat \ {0} /\ Kept \subseteq Places /\ StageSet \subseteq Origins
           /\ Sorted(StageSet) /\ \A j : Sorted(Fused(j))
           /\ Range(Stages) = StageSet /\ Stages = Ascending(StageSet) /\ \A j : AdaptersOf(j) = Ascending(Fused(j))
<1>1. Len(cascade.materials) \in Nat /\ Places = 1..Len(cascade.materials)
  BY DEF IsCascade, Places
<1>2. Places \subseteq Nat \ {0} /\ Kept \subseteq Places
  BY <1>1 DEF Kept
<1>3. IsFiniteSet(Kept)
  <2>1. IsFiniteSet(1..Len(cascade.materials))
    BY <1>1, FirstNumbers
  <2>2. QED
    BY <1>1, <1>2, <2>1, FS_Subset
<1>4. Sorted(StageSet) /\ StageSet \subseteq Origins
  <2>1. {i \in Kept : ~IsLora(i)} \subseteq Kept
    OBVIOUS
  <2>2. IsFiniteSet({i \in Kept : ~IsLora(i)})
    BY <1>3, <2>1, FS_Subset
  <2>3. IsFiniteSet(StageSet)
    BY <2>2, FS_AddElement, StageSet = {i \in Kept : ~IsLora(i)} \cup {0} DEF StageSet
  <2>4. StageSet \subseteq Origins
    BY <1>2, <2>1 DEF StageSet, Origins
  <2>6. StageSet \in SUBSET Int
    <3>1. ASSUME NEW x \in StageSet
          PROVE  x \in Int
      <4>1. x = 0 \/ x \in Kept
        BY DEF StageSet
      <4>2. CASE x = 0
        BY <4>2
      <4>3. CASE x \in Kept
        <5>1. x \in Nat
          BY <1>2, <4>3
        <5>2. QED
          BY <5>1
      <4>4. QED
        BY <4>1, <4>2, <4>3
    <3>2. QED
      BY <3>1
  <2>5. QED
    BY <2>3, <2>4, <2>6, AscendingSorts
<1>5. ASSUME NEW j
      PROVE  Sorted(Fused(j))
  <2>1. Fused(j) \subseteq Kept
    BY DEF Fused
  <2>4. Fused(j) \in SUBSET Int
    <3>1. ASSUME NEW x \in Fused(j)
          PROVE  x \in Int
      <4>1. x \in Kept
        BY <2>1
      <4>2. x \in Nat
        BY <1>2, <4>1
      <4>3. QED
        BY <4>2
    <3>2. QED
      BY <3>1
  <2>2. IsFiniteSet(Fused(j))
    BY <1>3, <2>1, FS_Subset
  <2>3. QED
    BY <2>2, <2>4, AscendingSorts
<1>6. Stages = Ascending(StageSet) /\ \A j : AdaptersOf(j) = Ascending(Fused(j))
  BY DEF Stages, StageSet, AdaptersOf, Fused
<1>7. Range(Stages) = StageSet
  <2>1. PICK S, s : S = StageSet /\ s = Stages
    OBVIOUS
  <2>2. /\ Cardinality(S) \in Nat /\ s \in Seq(S) /\ Len(s) = Cardinality(S)
        /\ \A n \in 1..Cardinality(S) : s[n] = Nth(S, n) /\ Nth(S, n) \in S
        /\ \A x \in S : \E n \in 1..Cardinality(S) : Nth(S, n) = x
    BY <1>4, <1>6, <2>1 DEF Sorted
  <2>3. DOMAIN s = 1..Cardinality(S)
    BY <2>2
  <2>4. Range(s) = S
    BY <2>2, <2>3 DEF Range
  <2>5. QED
    BY <2>1, <2>4
<1>8. QED
  BY <1>2, <1>4, <1>5, <1>6, <1>7

\* The nearest checkpoint before an adapter: there is one, the base.
LEMMA TargetFacts ==
    ASSUME IsCascade(cascade), NEW i \in Kept, IsLora(i)
    PROVE  /\ Target(i) \in StageSet /\ Target(i) \in cascade.materials[i].matches /\ Target(i) < i
           /\ \A j \in cascade.materials[i].matches \cap Kept : j < i => j <= Target(i)
<1>1. PICK T : T = {j \in Range(Stages) : j \in cascade.materials[i].matches /\ j < i}
  OBVIOUS
<1>2. Range(Stages) = StageSet /\ StageSet \subseteq Nat /\ i \in Nat \ {0} /\ 0 \in StageSet
  BY PlanParts DEF StageSet, Origins
<1>3. 0 \in cascade.materials[i].matches
  BY DEF Kept
<1>4. T \in SUBSET Nat /\ 0 \in T /\ \A x \in T : x <= i
  <2>1. T \in SUBSET Nat
    BY <1>1, <1>2
  <2>2. 0 < i
    BY <1>2
  <2>3. 0 \in T
    BY <1>1, <1>2, <1>3, <2>2
  <2>4. ASSUME NEW x \in T
        PROVE  x <= i
    <3>1. x < i /\ x \in Nat /\ i \in Nat
      BY <1>1, <1>2, <2>1
    <3>2. QED
      BY <3>1
  <2>5. QED
    BY <2>1, <2>3, <2>4
<1>5. \E x \in T : \A y \in T : y <= x
  BY <1>2, <1>4, GreatestNatural
<1>6. \E x \in T : \A y \in T : x >= y
  BY <1>4, <1>5
<1>7. Target(i) = CHOOSE x \in T : \A y \in T : x >= y
  BY <1>1 DEF Target, Max
<1>8. Target(i) \in T /\ \A y \in T : y <= Target(i)
  BY <1>4, <1>6, <1>7
<1>9. ASSUME NEW j \in cascade.materials[i].matches \cap Kept, j < i
      PROVE  j \in T
  <2>1. i \in DOMAIN cascade.materials /\ j \in Places /\ j # 0
    BY PlanParts DEF Places
  <2>2. cascade.materials[j].kind = "checkpoint"
    BY <1>9, <2>1 DEF IsCascade
  <2>3. j \in StageSet
    BY <1>9, <2>2 DEF StageSet, IsLora
  <2>4. QED
    BY <1>1, <1>2, <1>9, <2>3
<1>10. QED
  BY <1>1, <1>2, <1>8, <1>9

\* The stages of the plan and their adapters.
LEMMA PlannedStage ==
    ASSUME IsCascade(cascade)
    PROVE  /\ DOMAIN PlanOf = 1..Cardinality(StageSet)
           /\ \A n \in DOMAIN PlanOf :
                 /\ PlanOf[n].source = Nth(StageSet, n) /\ PlanOf[n].source \in StageSet
                 /\ DOMAIN PlanOf[n].loras = 1..Cardinality(Fused(PlanOf[n].source))
                 /\ \A k \in DOMAIN PlanOf[n].loras :
                       /\ PlanOf[n].loras[k].source = Nth(Fused(PlanOf[n].source), k)
                       /\ PlanOf[n].loras[k].source \in Fused(PlanOf[n].source)
                       /\ PlanOf[n].loras[k].strength = StrengthOf(PlanOf[n].loras[k].source)
<1>1. DOMAIN Stages = 1..Cardinality(StageSet) /\ \A n \in DOMAIN Stages : Stages[n] = Nth(StageSet, n) /\ Stages[n] \in StageSet
  <2>1. Stages = Ascending(StageSet) /\ Sorted(StageSet)
    BY PlanParts
  <2>2. DOMAIN Stages = 1..Cardinality(StageSet)
    BY <2>1 DEF Ascending
  <2>3. QED
    BY <2>1, <2>2 DEF Sorted
<1>2. ASSUME NEW j
      PROVE  /\ DOMAIN AdaptersOf(j) = 1..Cardinality(Fused(j))
             /\ \A k \in DOMAIN AdaptersOf(j) : AdaptersOf(j)[k] = Nth(Fused(j), k) /\ AdaptersOf(j)[k] \in Fused(j)
  <2>1. AdaptersOf(j) = Ascending(Fused(j)) /\ Sorted(Fused(j))
    BY PlanParts
  <2>2. DOMAIN AdaptersOf(j) = 1..Cardinality(Fused(j))
    BY <2>1 DEF Ascending
  <2>3. QED
    BY <2>1, <2>2 DEF Sorted
<1>3. DOMAIN PlanOf = DOMAIN Stages
  BY DEF PlanOf
<1>4. ASSUME NEW n \in DOMAIN PlanOf
      PROVE  /\ PlanOf[n].source = Stages[n]
             /\ PlanOf[n].loras = [k \in DOMAIN AdaptersOf(Stages[n]) |->
                                     [source |-> AdaptersOf(Stages[n])[k],
                                      strength |-> StrengthOf(AdaptersOf(Stages[n])[k])]]
  BY <1>3 DEF PlanOf
<1>5. ASSUME NEW n \in DOMAIN PlanOf
      PROVE  /\ DOMAIN PlanOf[n].loras = 1..Cardinality(Fused(PlanOf[n].source))
             /\ \A k \in DOMAIN PlanOf[n].loras :
                   /\ PlanOf[n].loras[k].source = Nth(Fused(PlanOf[n].source), k)
                   /\ PlanOf[n].loras[k].source \in Fused(PlanOf[n].source)
                   /\ PlanOf[n].loras[k].strength = StrengthOf(PlanOf[n].loras[k].source)
  <2>1. PICK j, a : j = Stages[n] /\ a = AdaptersOf(j)
    <3>1. PICK j : j = Stages[n]
      OBVIOUS
    <3>2. QED
      BY <3>1
  <2>2. PICK p : p = PlanOf[n].loras
    OBVIOUS
  <2>3. PlanOf[n].source = j /\ p = [k \in DOMAIN a |-> [source |-> a[k], strength |-> StrengthOf(a[k])]]
    BY <1>4, <2>1, <2>2
  <2>4. DOMAIN a = 1..Cardinality(Fused(j)) /\ \A k \in DOMAIN a : a[k] = Nth(Fused(j), k) /\ a[k] \in Fused(j)
    BY <1>2, <2>1
  <2>5. DOMAIN p = DOMAIN a /\ \A k \in DOMAIN a : p[k].source = a[k] /\ p[k].strength = StrengthOf(a[k])
    BY <2>3
  <2>6. QED
    BY <2>2, <2>3, <2>4, <2>5
<1>6. QED
  BY <1>1, <1>3, <1>4, <1>5

\* The numbers of a set have one place each.
LEMMA OnePlace ==
    ASSUME NEW S \in SUBSET Int, Sorted(S), NEW m \in 1..Cardinality(S), NEW n \in 1..Cardinality(S), Nth(S, m) = Nth(S, n)
    PROVE  m = n
<1>1. PICK x, c : x = Nth(S, m) /\ c = Cardinality(S)
  OBVIOUS
<1>2. x \in Int /\ ~(x < x) /\ c \in Nat /\ m \in 1..c /\ n \in 1..c
  <2>1. x \in S
    BY <1>1 DEF Sorted
  <2>2. x \in Int
    BY <2>1
  <2>3. ~(x < x)
    BY <2>2
  <2>4. c \in Nat
    BY <1>1 DEF Sorted
  <2>5. QED
    BY <1>1, <2>2, <2>3, <2>4
<1>3. ~(m < n) /\ ~(n < m)
  BY <1>1, <1>2 DEF Sorted
<1>4. QED
  BY <1>2, <1>3

\* Every adapter has its place in the plan.
LEMMA AdapterPlanned == ASSUME IsCascade(cascade), plan = PlanOf PROVE EachAdapterOnce
<1> SUFFICES ASSUME NEW i \in Kept, IsLora(i)
             PROVE  \E n \in DOMAIN plan : \E k \in DOMAIN plan[n].loras :
                       /\ \A m \in DOMAIN plan : \A l \in DOMAIN plan[m].loras :
                             plan[m].loras[l].source = i <=> m = n /\ l = k
                       /\ plan[n].source \in cascade.materials[i].matches
                       /\ plan[n].source < i
                       /\ \A j \in cascade.materials[i].matches \cap Kept : j < i => j <= plan[n].source
                       /\ plan[n].loras[k].strength = (IF cascade.weights = <<>> THEN 20 ELSE cascade.weights[i])
  BY DEF EachAdapterOnce
<1>1. PICK t : t = Target(i)
  OBVIOUS
<1>2. /\ t \in StageSet /\ t \in cascade.materials[i].matches /\ t < i
      /\ \A j \in cascade.materials[i].matches \cap Kept : j < i => j <= t
  BY <1>1, TargetFacts
<1>3. Sorted(StageSet) /\ StageSet \in SUBSET Int /\ Sorted(Fused(t)) /\ Fused(t) \in SUBSET Int /\ i \in Fused(t) /\ i # 0
  <2>1. Kept \subseteq Places /\ Places \subseteq Nat \ {0} /\ StageSet \subseteq Origins /\ Origins \subseteq Nat
    BY PlanParts DEF Origins
  <2>2. Sorted(StageSet) /\ Sorted(Fused(t))
    BY PlanParts
  <2>3. Fused(t) \subseteq Kept /\ i \in Fused(t)
    BY <1>1 DEF Fused
  <2>4. i \in Nat \ {0}
    BY <2>1
  <2>5. \A x \in Nat : x \in Int
    OBVIOUS
  <2>6. StageSet \in SUBSET Int
    BY <2>1, <2>5
  <2>7. Fused(t) \in SUBSET Int
    BY <2>1, <2>3, <2>5
  <2>8. QED
    BY <2>2, <2>3, <2>4, <2>6, <2>7
<1>4. PICK n \in 1..Cardinality(StageSet) : Nth(StageSet, n) = t
  BY <1>2, <1>3 DEF Sorted
<1>5. PICK k \in 1..Cardinality(Fused(t)) : Nth(Fused(t), k) = i
  BY <1>3 DEF Sorted
<1>6. n \in DOMAIN plan /\ plan[n].source = t /\ k \in DOMAIN plan[n].loras /\ plan[n].loras[k].source = i
      /\ plan[n].loras[k].strength = StrengthOf(i)
  <2>1. n \in DOMAIN plan /\ plan[n].source = t
    BY <1>4, PlannedStage
  <2>2. k \in DOMAIN plan[n].loras
    BY <1>5, <2>1, PlannedStage
  <2>3. plan[n].loras[k].source = i
    BY <1>5, <2>1, <2>2, PlannedStage
  <2>4. plan[n].loras[k].strength = StrengthOf(plan[n].loras[k].source)
    BY <2>1, <2>2, PlannedStage
  <2>5. QED
    BY <2>1, <2>2, <2>3, <2>4
<1>7. ASSUME NEW m \in DOMAIN plan, NEW l \in DOMAIN plan[m].loras, plan[m].loras[l].source = i
      PROVE  m = n /\ l = k
  <2>1. m \in 1..Cardinality(StageSet) /\ plan[m].source = Nth(StageSet, m)
    BY PlannedStage
  <2>2. l \in 1..Cardinality(Fused(plan[m].source)) /\ Nth(Fused(plan[m].source), l) = i /\ i \in Fused(plan[m].source)
    BY <1>7, PlannedStage
  <2>3. plan[m].source = t
    BY <1>1, <2>2 DEF Fused
  <2>4. m = n
    BY <1>3, <1>4, <2>1, <2>3, OnePlace
  <2>5. l = k
    BY <1>3, <1>5, <2>2, <2>3, OnePlace
  <2>6. QED
    BY <2>4, <2>5
<1>8. StrengthOf(i) = (IF cascade.weights = <<>> THEN 20 ELSE cascade.weights[i])
  BY <1>3 DEF StrengthOf
<1>9. QED
  BY <1>2, <1>6, <1>7, <1>8

\* The plan is in order.
LEMMA PlanOrdered == ASSUME IsCascade(cascade), plan = PlanOf PROVE OrderIsKept
<1>1. Sorted(StageSet) /\ (\A j : Sorted(Fused(j))) /\ StageSet \subseteq Nat
  BY PlanParts DEF Origins
<1>2. plan[1].source = 0
  <2>1. 0 \in StageSet
    BY DEF StageSet
  <2>2. PICK n \in 1..Cardinality(StageSet) : Nth(StageSet, n) = 0
    BY <1>1, <2>1 DEF Sorted
  <2>3. 1 \in 1..Cardinality(StageSet) /\ Cardinality(StageSet) \in Nat
    BY <1>1, <2>2 DEF Sorted
  <2>4. Nth(StageSet, 1) \in Nat
    BY <1>1, <2>3 DEF Sorted
  <2>5. 1 < n => Nth(StageSet, 1) < 0
    BY <1>1, <2>2, <2>3 DEF Sorted
  <2>6. Nth(StageSet, 1) = 0
    <3>1. n \in Nat /\ 1 <= n
      BY <2>3
    <3>2. n = 1
      BY <2>4, <2>5, <3>1
    <3>3. QED
      BY <2>2, <3>2
  <2>7. QED
    BY <2>3, <2>6, PlannedStage
<1>3. \A m, n \in DOMAIN plan : m < n => plan[m].source < plan[n].source
  <2>1. \A m, n \in 1..Cardinality(StageSet) : m < n => Nth(StageSet, m) < Nth(StageSet, n)
    BY <1>1 DEF Sorted
  <2>2. QED
    BY <2>1, PlannedStage
<1>4. ASSUME NEW n \in DOMAIN plan, NEW j \in DOMAIN plan[n].loras, NEW k \in DOMAIN plan[n].loras, j < k
      PROVE  plan[n].loras[j].source < plan[n].loras[k].source
  <2>1. PICK F : F = Fused(plan[n].source)
    OBVIOUS
  <2>2. j \in 1..Cardinality(F) /\ k \in 1..Cardinality(F) /\ plan[n].loras[j].source = Nth(F, j) /\ plan[n].loras[k].source = Nth(F, k)
    BY <2>1, PlannedStage
  <2>3. Sorted(F)
    BY <1>1, <2>1
  <2>4. QED
    BY <1>4, <2>2, <2>3 DEF Sorted
<1>5. QED
  BY <1>2, <1>3, <1>4 DEF OrderIsKept

\* What a built stage is: the revisions of its sources, and those its digest is of.
Made == UNION {[bytes : [D -> {1, 2}], digest : [D -> {0, 1, 2}]] : D \in SUBSET Origins}

\* A stage is made of what its sources were when it was built, and the hashes are older; what
\* the verification lets pass is made of what was hashed.
MadeOfHashed == \A n \in DOMAIN members : \A i \in DOMAIN members[n].bytes : members[n].bytes[i] = hashes[i]
MadeSince    == \A n \in DOMAIN members : \A i \in DOMAIN members[n].bytes :
                    hashes[i] <= members[n].bytes[i] /\ members[n].bytes[i] <= revision[i]
DigestsHold  == \A n \in DOMAIN members : members[n].digest = members[n].bytes

\* What every reachable state of a cascade is: the invariant that is inductive.
CascadeInv ==
    /\ IsCascade(cascade)
    /\ revision \in [Origins -> {1, 2}] /\ hashes \in [Origins -> {0, 1, 2}]
    /\ members \in Seq(Made)
    /\ archive \in {"none", "theirs", "ours"}
    /\ (plan = <<>> \/ plan = PlanOf)
    /\ \A i \in Origins : hashes[i] <= revision[i]
    /\ (progress \in {"resolve", "inspect", "hash", "plan"} => members = <<>>)
    /\ MadeSince
    /\ (progress \in {"archive", "link", "done"} => MadeOfHashed)
    /\ (progress \in {"link", "done"} => DigestsHold)

\* The plan of a request depends on nothing else.
LEMMA PlanStays == ASSUME UNCHANGED cascade PROVE PlanOf' = PlanOf /\ Origins' = Origins
<1>1. Origins' = Origins
  BY DEF Origins, Places
<1>2. PlanOf' = PlanOf
  BY DEF PlanOf, Stages, AdaptersOf, StrengthOf, Kept, Target, IsLora, Places
<1>3. QED
  BY <1>1, <1>2

\* A step that builds nothing and hashes nothing keeps the invariant, if it gets no further than
\* the members allow.
LEMMA CascadeStays ==
    ASSUME CascadeInv, UNCHANGED <<cascade, revision, hashes, members>>,
           plan' = plan \/ plan' = PlanOf, archive' \in {"none", "theirs", "ours"},
           progress' \in {"resolve", "inspect", "hash", "plan"} => members = <<>>,
           progress' \in {"archive", "link", "done"} => MadeOfHashed,
           progress' \in {"link", "done"} => DigestsHold
    PROVE  CascadeInv'
<1>1. PlanOf' = PlanOf /\ Origins' = Origins
  BY PlanStays
<1>2. IsCascade(cascade)'
  BY DEF CascadeInv, IsCascade
<1>3. Made' = Made
  BY <1>1 DEF Made
<1>4. MadeSince' /\ (MadeOfHashed => MadeOfHashed') /\ (DigestsHold => DigestsHold')
  BY DEF CascadeInv, MadeSince, MadeOfHashed, DigestsHold
<1>5. (plan = <<>> \/ plan = PlanOf)'
  BY <1>1 DEF CascadeInv
<1>6. revision' \in [Origins' -> {1, 2}] /\ hashes' \in [Origins' -> {0, 1, 2}] /\ members' \in Seq(Made')
  BY <1>1, <1>3 DEF CascadeInv
<1>7. \A i \in Origins' : hashes'[i] <= revision'[i]
  BY <1>1 DEF CascadeInv
<1>8. QED
  BY <1>2, <1>4, <1>5, <1>6, <1>7 DEF CascadeInv

\* It holds of every request at the start.
LEMMA CascadeInitInv == CascadeInit => CascadeInv
<1> SUFFICES ASSUME CascadeInit PROVE CascadeInv
  OBVIOUS
<1>1. IsCascade(cascade)
  BY CascadeAssumption DEF CascadeInit
<1>2. revision \in [Origins -> {1, 2}] /\ hashes \in [Origins -> {0, 1, 2}] /\ \A i \in Origins : hashes[i] <= revision[i]
  BY DEF CascadeInit
<1>3. members = <<>> /\ plan = <<>> /\ progress = "resolve" /\ archive \in {"none", "theirs", "ours"}
  BY DEF CascadeInit
<1>4. members \in Seq(Made) /\ MadeSince
  BY <1>3 DEF MadeSince
<1>5. QED
  BY <1>1, <1>2, <1>3, <1>4 DEF CascadeInv

\* Giving up keeps it.
LEMMA GivingUpInv == ASSUME CascadeInv, NEW why, GiveUpCascade(why) PROVE CascadeInv'
  BY CascadeStays DEF GiveUpCascade, CascadeInv

\* Before anything is built.
LEMMA PreparingInv ==
    ASSUME CascadeInv, ResolveCascade \/ InspectCascade \/ HashCascade \/ PlanStages
    PROVE  CascadeInv'
<1>1. CASE ResolveCascade
  <2>1. CASE GiveUpCascade("output exists")
    BY <2>1, GivingUpInv
  <2>2. CASE Proceed("inspect") /\ UNCHANGED <<revision, hashes, plan, members>>
    BY <1>1, <2>2, CascadeStays DEF ResolveCascade, Proceed, CascadeInv
  <2>3. QED
    BY <1>1, <2>1, <2>2 DEF ResolveCascade
<1>2. CASE InspectCascade
  <2>1. CASE GiveUpCascade(Obstacle)
    BY <2>1, GivingUpInv
  <2>2. CASE Proceed("hash") /\ UNCHANGED <<revision, hashes, plan, members>>
    BY <1>2, <2>2, CascadeStays DEF InspectCascade, Proceed, CascadeInv
  <2>3. QED
    BY <1>2, <2>1, <2>2 DEF InspectCascade
<1>3. CASE HashCascade
  <2>1. PlanOf' = PlanOf /\ Origins' = Origins
    BY <1>3, PlanStays DEF HashCascade, Proceed
  <2>2. IsCascade(cascade)' /\ archive' \in {"none", "theirs", "ours"} /\ (plan = <<>> \/ plan = PlanOf)' /\ progress' = "plan"
    BY <1>3, <2>1 DEF HashCascade, Proceed, CascadeInv, IsCascade
  <2>3. members = <<>> /\ members' = <<>>
    BY <1>3 DEF HashCascade, CascadeInv
  <2>4. members' \in Seq(Made)' /\ MadeSince'
    BY <2>3 DEF MadeSince
  <2>5. revision' = revision /\ hashes' = revision /\ revision \in [Origins -> {1, 2}]
    BY <1>3 DEF HashCascade, CascadeInv
  <2>6. revision' \in [Origins' -> {1, 2}] /\ hashes' \in [Origins' -> {0, 1, 2}] /\ \A i \in Origins' : hashes'[i] <= revision'[i]
    BY <2>1, <2>5
  <2>7. QED
    BY <2>2, <2>3, <2>4, <2>6 DEF CascadeInv
<1>4. CASE PlanStages
  <2>1. plan' = PlanOf
    BY <1>4 DEF PlanStages, PlanOf
  <2>2. QED
    BY <1>4, <2>1, CascadeStays DEF PlanStages, Proceed, CascadeInv
<1>5. QED
  BY <1>1, <1>2, <1>3, <1>4

\* What a stage is made of are sources of the request.
LEMMA StagesUse ==
    ASSUME IsCascade(cascade), plan = PlanOf, NEW n \in DOMAIN plan
    PROVE  Used(plan[n]) \subseteq Origins
<1>1. StageSet \subseteq Origins /\ Kept \subseteq Places
  BY PlanParts
<1>2. plan[n].source \in Origins
  BY <1>1, PlannedStage
<1>3. ASSUME NEW k \in DOMAIN plan[n].loras
      PROVE  plan[n].loras[k].source \in Origins
  <2>1. plan[n].loras[k].source \in Fused(plan[n].source)
    BY PlannedStage
  <2>2. QED
    BY <1>1, <2>1 DEF Fused, Origins
<1>4. QED
  BY <1>2, <1>3 DEF Used

\* A stage is built of what its sources are.
LEMMA BuildInv == ASSUME CascadeInv, BuildMember PROVE CascadeInv'
<1>1. PICK n, next, U : n = Len(members) + 1 /\ next = plan[n] /\ U = Used(next)
  <2>1. PICK n : n = Len(members) + 1
    OBVIOUS
  <2>2. PICK next : next = plan[n]
    OBVIOUS
  <2>3. QED
    BY <2>1, <2>2
<1>2. PICK now : now = [i \in U |-> revision[i]]
  OBVIOUS
<1>3. PICK digest : digest = IF next.loras # <<>> THEN now ELSE [i \in U |-> hashes[i]]
  OBVIOUS
<1>4. /\ progress = "build" /\ Len(members) < Len(plan) /\ members' = Append(members, [bytes |-> now, digest |-> digest])
      /\ progress' = "build" /\ UNCHANGED <<cascade, archive, reason, revision, hashes, plan>>
  BY <1>1, <1>2, <1>3 DEF BuildMember, Proceed
<1>5. members \in Seq(Made) /\ Len(members) \in Nat /\ n \in Nat \ {0}
  BY <1>1 DEF CascadeInv
<1>6. plan = PlanOf /\ n \in DOMAIN plan
  <2>1. plan # <<>>
    BY <1>4, <1>5
  <2>2. plan = PlanOf
    BY <2>1 DEF CascadeInv
  <2>3. DOMAIN plan = 1..Cardinality(StageSet) /\ Cardinality(StageSet) \in Nat
    BY <2>2, PlannedStage, PlanParts DEF CascadeInv, Sorted
  <2>4. Len(plan) = Cardinality(StageSet)
    BY <2>3
  <2>5. QED
    BY <1>1, <1>4, <1>5, <2>2, <2>3, <2>4
<1>7. U \subseteq Origins
  BY <1>1, <1>6, StagesUse DEF CascadeInv
<1>8. now \in [U -> {1, 2}] /\ digest \in [U -> {0, 1, 2}]
  <2>1. now \in [U -> {1, 2}] /\ now \in [U -> {0, 1, 2}]
    BY <1>2, <1>7 DEF CascadeInv
  <2>2. [i \in U |-> hashes[i]] \in [U -> {0, 1, 2}]
    BY <1>7 DEF CascadeInv
  <2>3. QED
    BY <1>3, <2>1, <2>2
<1>9. [bytes |-> now, digest |-> digest] \in Made
  BY <1>7, <1>8 DEF Made
<1>10. members' \in Seq(Made)
  BY <1>4, <1>5, <1>9
<1>11. PlanOf' = PlanOf /\ Origins' = Origins
  BY <1>4, PlanStays
<1>12. Made' = Made
  BY <1>11 DEF Made
<1>13. MadeSince'
  <2>1. ASSUME NEW m \in DOMAIN members', NEW i \in DOMAIN members'[m].bytes
        PROVE  hashes'[i] <= members'[m].bytes[i] /\ members'[m].bytes[i] <= revision'[i]
    <3>1. DOMAIN members' = 1..n /\ DOMAIN members = 1..n - 1 /\ members'[n] = [bytes |-> now, digest |-> digest]
          /\ \A k \in 1..n - 1 : members'[k] = members[k]
      BY <1>1, <1>4, <1>5
    <3>2. CASE m = n
      <4>1. members'[m].bytes = now /\ i \in U /\ i \in Origins /\ now[i] = revision[i]
        BY <1>2, <1>7, <3>1, <3>2
      <4>2. revision[i] \in {1, 2} /\ hashes[i] <= revision[i]
        BY <4>1 DEF CascadeInv
      <4>3. revision[i] <= revision[i]
        BY <4>2
      <4>4. QED
        BY <1>4, <4>1, <4>2, <4>3
    <3>3. CASE m # n
      <4>1. m \in 1..n - 1
        BY <1>5, <3>1, <3>3
      <4>2. members'[m] = members[m] /\ m \in DOMAIN members
        BY <3>1, <4>1
      <4>3. QED
        BY <1>4, <4>2 DEF CascadeInv, MadeSince
    <3>4. QED
      BY <3>2, <3>3
  <2>2. QED
    BY <2>1 DEF MadeSince
<1>14. IsCascade(cascade)' /\ revision' \in [Origins' -> {1, 2}] /\ hashes' \in [Origins' -> {0, 1, 2}]
       /\ (\A i \in Origins' : hashes'[i] <= revision'[i]) /\ archive' \in {"none", "theirs", "ours"}
  BY <1>4, <1>11 DEF CascadeInv, IsCascade
<1>15. plan' = PlanOf'
  BY <1>4, <1>6, <1>11
<1>16. QED
  BY <1>4, <1>10, <1>12, <1>13, <1>14, <1>15 DEF CascadeInv

\* What is verified is made of what was hashed: nothing has changed since.
LEMMA PublishingInv == ASSUME CascadeInv, VerifyCascade \/ WriteArchive \/ LinkArchive PROVE CascadeInv'
<1>1. CASE VerifyCascade
  <2>1. CASE GiveUpCascade("source changed") \/ GiveUpCascade("output exists")
    BY <2>1, GivingUpInv
  <2>2. CASE Still /\ Proceed("archive") /\ UNCHANGED <<revision, hashes, plan, members>>
    <3>1. ASSUME NEW n \in DOMAIN members, NEW i \in DOMAIN members[n].bytes
          PROVE  members[n].bytes[i] = hashes[i]
      <4>1. members[n] \in Made
        BY DEF CascadeInv
      <4>2. PICK D \in SUBSET Origins : members[n] \in [bytes : [D -> {1, 2}], digest : [D -> {0, 1, 2}]]
        BY <4>1 DEF Made
      <4>3. i \in Origins /\ members[n].bytes[i] \in {1, 2}
        BY <4>2
      <4>4. hashes[i] = revision[i]
        BY <2>2 DEF Still
      <4>5. hashes[i] <= members[n].bytes[i] /\ members[n].bytes[i] <= revision[i]
        BY DEF CascadeInv, MadeSince
      <4>6. hashes[i] \in {0, 1, 2}
        BY <4>3 DEF CascadeInv
      <4>7. QED
        BY <4>3, <4>4, <4>5, <4>6
    <3>2. MadeOfHashed
      BY <3>1 DEF MadeOfHashed
    <3>3. QED
      BY <2>2, <3>2, CascadeStays DEF Proceed, CascadeInv
  <2>3. QED
    BY <1>1, <2>1, <2>2 DEF VerifyCascade
<1>2. CASE WriteArchive
  <2>1. CASE GiveUpCascade("digest") \/ GiveUpCascade("output exists")
    BY <2>1, GivingUpInv
  <2>2. CASE /\ ~ \E n \in DOMAIN members : members[n].bytes # members[n].digest
             /\ Proceed("link") /\ UNCHANGED <<revision, hashes, plan, members>>
    <3>1. MadeOfHashed
      BY <1>2 DEF WriteArchive, CascadeInv
    <3>2. DigestsHold
      BY <2>2 DEF DigestsHold
    <3>3. QED
      BY <2>2, <3>1, <3>2, CascadeStays DEF Proceed, CascadeInv
  <2>3. QED
    BY <1>2, <2>1, <2>2 DEF WriteArchive
<1>3. CASE LinkArchive
  <2>1. CASE GiveUpCascade("output exists")
    BY <2>1, GivingUpInv
  <2>2. CASE /\ ~Taken /\ progress' = "done" /\ archive' = IF archive = "none" THEN "ours" ELSE "replaced"
             /\ UNCHANGED <<cascade, revision, hashes, plan, members, reason>>
    <3>1. archive' = "ours"
      BY <2>2 DEF Taken
    <3>2. MadeOfHashed /\ DigestsHold
      BY <1>3 DEF LinkArchive, CascadeInv
    <3>3. QED
      BY <2>2, <3>1, <3>2, CascadeStays
  <2>3. QED
    BY <1>3, <2>1, <2>2 DEF LinkArchive
<1>4. QED
  BY <1>1, <1>2, <1>3

\* Another program replaces a source: what is built stays older than it.
LEMMA EditInv == ASSUME CascadeInv, NEW i \in Origins, EditOrigin(i) PROVE CascadeInv'
<1>1. /\ revision[i] = 1 /\ revision' = [revision EXCEPT ![i] = 2]
      /\ UNCHANGED <<cascade, progress, hashes, plan, members, archive, reason>>
  BY DEF EditOrigin
<1>2. PlanOf' = PlanOf /\ Origins' = Origins
  BY <1>1, PlanStays
<1>3. revision' \in [Origins -> {1, 2}] /\ \A j \in Origins : revision[j] <= revision'[j]
  <2>1. revision \in [Origins -> {1, 2}]
    BY DEF CascadeInv
  <2>2. ASSUME NEW j \in Origins
        PROVE  revision[j] <= revision'[j]
    <3>1. revision[j] \in {1, 2} /\ revision'[j] = IF j = i THEN 2 ELSE revision[j]
      BY <1>1, <2>1
    <3>2. QED
      BY <1>1, <3>1
  <2>3. QED
    BY <1>1, <2>1, <2>2
<1>4. \A j \in Origins : hashes[j] \in {0, 1, 2} /\ revision[j] \in {1, 2} /\ revision'[j] \in {1, 2} /\ hashes[j] <= revision[j]
  BY <1>3 DEF CascadeInv
<1>5. \A j \in Origins : hashes[j] <= revision'[j]
  <2>1. ASSUME NEW j \in Origins
        PROVE  hashes[j] <= revision'[j]
    <3>1. hashes[j] \in {0, 1, 2} /\ revision[j] \in {1, 2} /\ revision'[j] \in {1, 2}
          /\ hashes[j] <= revision[j] /\ revision[j] <= revision'[j]
      BY <1>3, <1>4
    <3>2. QED
      BY <3>1
  <2>2. QED
    BY <2>1
<1>6. MadeSince'
  <2>1. ASSUME NEW n \in DOMAIN members, NEW j \in DOMAIN members[n].bytes
        PROVE  hashes[j] <= members[n].bytes[j] /\ members[n].bytes[j] <= revision'[j]
    <3>1. members[n] \in Made
      BY DEF CascadeInv
    <3>2. PICK D \in SUBSET Origins : members[n] \in [bytes : [D -> {1, 2}], digest : [D -> {0, 1, 2}]]
      BY <3>1 DEF Made
    <3>3. j \in Origins /\ members[n].bytes[j] \in {1, 2}
      BY <3>2
    <3>4. hashes[j] <= members[n].bytes[j] /\ members[n].bytes[j] <= revision[j]
      BY DEF CascadeInv, MadeSince
    <3>5. revision[j] <= revision'[j] /\ revision[j] \in {1, 2} /\ revision'[j] \in {1, 2}
      BY <1>3, <1>4, <3>3
    <3>6. members[n].bytes[j] <= revision'[j]
      BY <3>3, <3>4, <3>5
    <3>7. QED
      BY <3>4, <3>6
  <2>2. QED
    BY <1>1, <2>1 DEF MadeSince
<1>7. IsCascade(cascade)' /\ Made' = Made /\ plan' = plan /\ hashes' = hashes
  BY <1>1, <1>2 DEF CascadeInv, IsCascade, Made
<1>8. (MadeOfHashed => MadeOfHashed') /\ (DigestsHold => DigestsHold')
  BY <1>1 DEF MadeOfHashed, DigestsHold
<1>9. (plan = <<>> \/ plan = PlanOf)' /\ hashes' \in [Origins' -> {0, 1, 2}] /\ members' \in Seq(Made')
      /\ archive' \in {"none", "theirs", "ours"} /\ progress' = progress /\ members' = members
  BY <1>1, <1>2, <1>7 DEF CascadeInv
<1>10. revision' \in [Origins' -> {1, 2}] /\ \A j \in Origins' : hashes'[j] <= revision'[j]
  BY <1>1, <1>2, <1>3, <1>5
<1>11. QED
  BY <1>6, <1>7, <1>8, <1>9, <1>10 DEF CascadeInv

\* Every step keeps it.
LEMMA CascadeNextInv == CascadeInv /\ [CascadeNext]_cascadeVars => CascadeInv'
<1> SUFFICES ASSUME CascadeInv, [CascadeNext]_cascadeVars PROVE CascadeInv'
  OBVIOUS
<1>1. CASE ResolveCascade \/ InspectCascade \/ HashCascade \/ PlanStages
  BY <1>1, PreparingInv
<1>2. CASE BuildMember
  BY <1>2, BuildInv
<1>3. CASE VerifyCascade \/ WriteArchive \/ LinkArchive
  BY <1>3, PublishingInv
<1>4. CASE \E i \in Origins : EditOrigin(i)
  BY <1>4, EditInv
<1>5. CASE OtherArchive
  BY <1>5, CascadeStays DEF OtherArchive, CascadeInv
<1>6. CASE UNCHANGED cascadeVars
  BY <1>6, CascadeStays DEF cascadeVars, CascadeInv
<1>7. QED
  BY <1>1, <1>2, <1>3, <1>4, <1>5, <1>6 DEF CascadeNext

\* What it says, once a plan is there and once a package is.
LEMMA CascadePromised == CascadeInv => CascadeOfItsPlan
<1> SUFFICES ASSUME CascadeInv PROVE CascadeOfItsPlan
  OBVIOUS
<1>1. EachAdapterOnce /\ OrderIsKept
  <2>1. CASE plan = <<>>
    BY <2>1 DEF EachAdapterOnce, OrderIsKept
  <2>2. CASE plan = PlanOf
    BY <2>2, AdapterPlanned, PlanOrdered DEF CascadeInv
  <2>3. QED
    BY <2>1, <2>2 DEF CascadeInv
<1>2. MembersOfRecordedSources
  BY DEF MembersOfRecordedSources, CascadeInv, MadeOfHashed, DigestsHold
<1>3. CascadeReplacesNothing
  BY DEF CascadeReplacesNothing, CascadeInv
<1>4. QED
  BY <1>1, <1>2, <1>3 DEF CascadeOfItsPlan

\* A cascade is what was planned: every adapter kept is in one stage, the nearest checkpoint
\* before it that has its targets, in order, and a published package is of the revisions that
\* were hashed and replaces nothing, for any requests of any length (model_merge_unified.py).
THEOREM CascadeTrue == CascadeSpec => []CascadeOfItsPlan
  BY CascadeInitInv, CascadeNextInv, CascadePromised, PTL DEF CascadeSpec

-----------------------------------------------------------------------------
(* WeightedMerge *)

\* The materials that are usable, and the places of the checkpoints among them.
Chosen      == {i \in Materials : Usable(i)}
Checkpoints == {k \in DOMAIN Selected : KindOf(Selected[k]) = "checkpoint"}
Default     == IF Sum THEN Cardinality(Checkpoints) + 1 ELSE 2
Total       == SumFunctionOnSet(Paired, Checkpoints)

\* What is selected is what is usable, each material once.
SelectsEach ==
    /\ DOMAIN Selected = 1..Len(Selected) /\ Len(Selected) \in Nat
    /\ \A k \in DOMAIN Selected : Selected[k] \in Materials /\ Usable(Selected[k])
    /\ \A i \in Materials : Usable(i) => \E k \in DOMAIN Selected : Selected[k] = i
    /\ \A j, k \in DOMAIN Selected : Selected[j] = Selected[k] => j = k
    /\ IsFiniteSet(DOMAIN Selected) /\ IsFiniteSet(Checkpoints) /\ Cardinality(Checkpoints) \in Nat

\* A request's materials are numbered.
LEMMA MaterialsAre ==
    ASSUME IsMergeOrder(merge)
    PROVE  Materials = 1..Len(merge.materials) /\ Len(merge.materials) \in Nat
BY DEF IsMergeOrder, Materials

\* The usable materials are selected.
LEMMA SelectedIs == ASSUME IsMergeOrder(merge) PROVE SelectsEach
<1>1. Materials = 1..Len(merge.materials) /\ Len(merge.materials) \in Nat
  BY MaterialsAre
<1>2. Chosen \in SUBSET Int /\ Chosen \in SUBSET Materials
  BY <1>1 DEF Chosen
<1>3. IsFiniteSet(Chosen)
  <2>1. IsFiniteSet(Materials)
    BY <1>1, FirstNumbers
  <2>2. QED
    BY <1>2, <2>1, FS_Subset
<1>4. Sorted(Chosen)
  BY <1>2, <1>3, AscendingSorts
<1>5. PICK c, s : c = Cardinality(Chosen) /\ s = Selected /\ s = Ascending(Chosen)
  BY DEF Selected, Chosen
<1>6. /\ c \in Nat /\ DOMAIN s = 1..c /\ Len(s) = c
      /\ \A n \in 1..c : s[n] = Nth(Chosen, n) /\ s[n] \in Chosen
      /\ \A m, n \in 1..c : m < n => s[m] < s[n]
      /\ \A x \in Chosen : \E n \in 1..c : s[n] = x
  BY <1>4, <1>5 DEF Sorted, Ascending
<1>7. \A m, n \in 1..c : s[m] = s[n] => m = n
  <2> SUFFICES ASSUME NEW m \in 1..c, NEW n \in 1..c, s[m] = s[n]
               PROVE  m = n
    OBVIOUS
  <2>1. s[m] \in Int /\ s[n] \in Int
    BY <1>2, <1>6
  <2>2. ~(m < n) /\ ~(n < m)
    BY <1>6, <2>1
  <2>3. QED
    BY <1>6, <2>2
<1>8. IsFiniteSet(DOMAIN s)
  BY <1>6, FirstNumbers
<1>9. IsFiniteSet(Checkpoints) /\ Cardinality(Checkpoints) \in Nat
  <2>1. Checkpoints \in SUBSET (DOMAIN s)
    BY <1>5 DEF Checkpoints
  <2>2. QED
    BY <1>8, <2>1, FS_Subset, FS_CardinalityType
<1>10. QED
  BY <1>5, <1>6, <1>7, <1>8, <1>9 DEF SelectsEach, Chosen

\* The coefficients add up: what the checkpoints take of a sum, the base leaves; a difference
\* leaves it its all.
SharesTrue ==
    /\ Resolved.unit \in Nat \ {0} /\ Resolved.base \in Int /\ DOMAIN Resolved.of = DOMAIN Selected
    /\ \A k \in DOMAIN Selected : Resolved.of[k] \in Nat
    /\ Resolved.base + (IF Sum THEN SumFunctionOnSet(Resolved.of, Checkpoints) ELSE 0) = Resolved.unit

\* Coefficients go with their materials.
LEMMA PairedIs ==
    ASSUME IsMergeOrder(merge), merge.weights # <<>>
    PROVE  /\ DOMAIN Paired = DOMAIN Selected
           /\ \A k \in DOMAIN Selected : Paired[k] = merge.weights[Selected[k]] /\ Paired[k] \in Nat
           /\ Total \in Int
<1>1. Materials = 1..Len(merge.materials) /\ Len(merge.materials) \in Nat /\ SelectsEach
  BY MaterialsAre, SelectedIs
<1>2. \A i \in Materials : merge.weights[i] \in Nat
  BY <1>1 DEF IsMergeOrder
<1>3. \A k \in DOMAIN Selected : Paired[k] = merge.weights[Selected[k]] /\ Paired[k] \in Nat
  BY <1>1, <1>2 DEF Paired, SelectsEach
<1>4. IsFiniteSet(Checkpoints) /\ \A k \in Checkpoints : Paired[k] \in Int
  BY <1>1, <1>3 DEF SelectsEach, Checkpoints
<1>5. QED
  BY <1>3, <1>4, SumTyped DEF Total, Paired

\* The default coefficients add up.
LEMMA DefaultShares ==
    ASSUME IsMergeOrder(merge), merge.weights = <<>> \/ Selected = <<>>
    PROVE  SharesTrue
<1>1. PICK n \in Nat, d \in Nat \ {0} : n = Cardinality(Checkpoints) /\ d = Default /\ (Sum => d = n + 1)
  BY SelectedIs DEF SelectsEach, Default
<1>2. Resolved = [unit |-> d, base |-> IF Sum THEN d - n ELSE d,
                  of |-> [k \in DOMAIN Selected |-> IF k \in Checkpoints THEN 1 ELSE d]]
  BY <1>1 DEF Resolved, Default, Checkpoints
<1>3. IsFiniteSet(Checkpoints) /\ Checkpoints \subseteq DOMAIN Selected
  BY SelectedIs DEF SelectsEach, Checkpoints
<1>4. \A k \in Checkpoints : Resolved.of[k] = IF k \in Checkpoints THEN 1 ELSE 0
  BY <1>2, <1>3
<1>5. SumFunctionOnSet(Resolved.of, Checkpoints) = 1 * Cardinality(Checkpoints)
  <2>1. PICK f, C : f = Resolved.of /\ C = Checkpoints
    OBVIOUS
  <2>2. IsFiniteSet(C) /\ C \in SUBSET C /\ 1 \in Int /\ \A k \in C : f[k] = IF k \in C THEN 1 ELSE 0
    BY <1>3, <1>4, <2>1
  <2>3. SumFunctionOnSet(f, C) = 1 * Cardinality(C)
    BY ONLY <2>2, SumConstant
  <2>4. QED
    BY <2>1, <2>3
<1>6. SumFunctionOnSet(Resolved.of, Checkpoints) = n
  BY <1>1, <1>5
<1>7. Resolved.unit = d /\ Resolved.base = (IF Sum THEN d - n ELSE d) /\ DOMAIN Resolved.of = DOMAIN Selected
  BY <1>2
<1>8. \A k \in DOMAIN Selected : Resolved.of[k] \in Nat
  BY <1>1, <1>2
<1>9. Resolved.base + (IF Sum THEN n ELSE 0) = d
  BY <1>1, <1>7
<1>10. QED
  BY <1>1, <1>6, <1>7, <1>8, <1>9 DEF SharesTrue

\* Coefficients that ask for more than one are brought down to it.
LEMMA HeavyShares ==
    ASSUME IsMergeOrder(merge), merge.weights # <<>>, Selected # <<>>, Sum, Total > 4
    PROVE  SharesTrue
<1>1. PICK u \in Nat : u = Total /\ u > 4
  BY PairedIs
<1>2. Resolved = [unit |-> 4 * u, base |-> 0,
                  of |-> [k \in DOMAIN Selected |-> Paired[k] * IF k \in Checkpoints THEN 4 ELSE u]]
  BY <1>1 DEF Resolved, Total, Checkpoints
<1>3. IsFiniteSet(Checkpoints) /\ Checkpoints \subseteq DOMAIN Selected
  BY SelectedIs DEF SelectsEach, Checkpoints
<1>4. \A k \in DOMAIN Selected : Paired[k] \in Nat
  BY PairedIs
<1>5. \A k \in DOMAIN Selected : Resolved.of[k] \in Nat
  <2> SUFFICES ASSUME NEW k \in DOMAIN Selected
               PROVE  Resolved.of[k] \in Nat
    OBVIOUS
  <2>1. PICK p \in Nat : p = Paired[k]
    BY <1>4
  <2>2. p * 4 \in Nat /\ p * u \in Nat
    BY <1>1
  <2>3. QED
    BY <1>2, <2>1, <2>2
<1>6. \A k \in Checkpoints : /\ Paired[k] \in Int /\ Paired[k] \in Int
                             /\ Resolved.of[k] = 4 * Paired[k] + 0 * Paired[k]
  BY <1>2, <1>3, <1>4
<1>7. SumFunctionOnSet(Resolved.of, Checkpoints) = 4 * Total + 0 * Total
  BY <1>3, <1>6, SumLinear DEF Total
<1>8. 4 * u + 0 * u = 4 * u /\ 4 * u \in Nat \ {0} /\ 0 + 4 * u = 4 * u
  BY <1>1
<1>9. Resolved.unit = 4 * u /\ Resolved.base = 0 /\ DOMAIN Resolved.of = DOMAIN Selected
  BY <1>2
<1>10. SumFunctionOnSet(Resolved.of, Checkpoints) = 4 * u
  BY <1>1, <1>7, <1>8
<1>11. QED
  BY <1>5, <1>8, <1>9, <1>10 DEF SharesTrue

\* Others are what was asked for.
LEMMA PlainShares ==
    ASSUME IsMergeOrder(merge), merge.weights # <<>>, Selected # <<>>, ~(Sum /\ Total > 4)
    PROVE  SharesTrue
<1>1. PICK u \in Int : u = Total
  BY PairedIs
<1>2. Resolved = [unit |-> 4, base |-> IF Sum THEN 4 - u ELSE 4, of |-> Paired]
  BY <1>1 DEF Resolved, Total, Checkpoints
<1>3. DOMAIN Paired = DOMAIN Selected /\ \A k \in DOMAIN Selected : Paired[k] \in Nat
  BY PairedIs
<1>4. Resolved.unit = 4 /\ Resolved.base = (IF Sum THEN 4 - u ELSE 4) /\ Resolved.of = Paired
  BY <1>2
<1>5. SumFunctionOnSet(Resolved.of, Checkpoints) = u
  BY <1>1, <1>4 DEF Total
<1>6. QED
  BY <1>1, <1>3, <1>4, <1>5 DEF SharesTrue

\* So they always add up.
LEMMA SharesAre == ASSUME IsMergeOrder(merge) PROVE SharesTrue
BY DefaultShares, HeavyShares, PlainShares

\* Each material gets the coefficient that was wanted for it.
LEMMA WantedIs ==
    ASSUME IsMergeOrder(merge), included = Selected, shares = Resolved, NEW k \in DOMAIN Selected
    PROVE  Wanted(Selected[k]) = shares.of[k]
<1> DEFINE J == {j \in Range(included) : KindOf(j) = "checkpoint"}
           i == Selected[k]
<1>1. SelectsEach
  BY SelectedIs
<1>2. J = {Selected[l] : l \in Checkpoints}
  BY DEF Range, Checkpoints
<1>3. i \in J <=> k \in Checkpoints
  BY DEF Range, Checkpoints
<1>4. Cardinality(J) = Cardinality(Checkpoints)
  <2>1. PICK h : h = [l \in Checkpoints |-> Selected[l]]
    OBVIOUS
  <2>2. Checkpoints \subseteq DOMAIN Selected /\ \A j, l \in DOMAIN Selected : Selected[j] = Selected[l] => j = l
    BY <1>1 DEF SelectsEach, Checkpoints
  <2>3. h \in Surjection(Checkpoints, J) /\ h \in Injection(Checkpoints, J)
    BY <1>2, <2>1, <2>2 DEF Surjection, Injection, IsInjective
  <2>4. IsFiniteSet(Checkpoints)
    BY <1>1 DEF SelectsEach
  <2>5. QED
    BY <2>3, <2>4, FS_Surjection
<1>5. CASE merge.weights = <<>>
  <2>1. PICK n \in Nat, d \in Nat \ {0} : n = Cardinality(Checkpoints) /\ d = Default /\ (IF Sum THEN n + 1 ELSE 2) = d
    BY <1>1 DEF SelectsEach, Default
  <2>2. Resolved = [unit |-> d, base |-> IF Sum THEN d - n ELSE d,
                    of |-> [l \in DOMAIN Selected |-> IF l \in Checkpoints THEN 1 ELSE d]]
    BY <1>5, <2>1 DEF Resolved, Default, Checkpoints
  <2>3. shares.unit = d /\ shares.of[k] = IF k \in Checkpoints THEN 1 ELSE d
    BY <2>2
  <2>4. Wanted(i) = IF i \in J THEN d \div d ELSE d
    BY <1>4, <1>5, <2>1, <2>3 DEF Wanted
  <2>5. d \div d = 1
    BY <2>1
  <2>6. QED
    BY <1>3, <2>3, <2>4, <2>5
<1>6. CASE merge.weights # <<>>
  <2>1. Selected # <<>>
    BY <1>1 DEF SelectsEach
  <2>2. DOMAIN Paired = DOMAIN Selected /\ \A l \in DOMAIN Selected : Paired[l] = merge.weights[Selected[l]] /\ Paired[l] \in Nat
    BY <1>6, PairedIs
  <2>3. PICK u \in Int : u = Total
    BY <1>6, PairedIs
  <2>4. SumFunctionOnSet(merge.weights, J) = u
    <3>1. Checkpoints \subseteq DOMAIN Selected
      BY DEF Checkpoints
    <3>2. \A l \in Checkpoints : merge.weights[Selected[l]] \in Int /\ Paired[l] = merge.weights[Selected[l]]
      BY <2>2, <3>1
    <3>3. IsFiniteSet(Checkpoints) /\ \A j, l \in Checkpoints : Selected[j] = Selected[l] => j = l
      BY <1>1, <3>1 DEF SelectsEach
    <3>4. SumFunctionOnSet(Paired, Checkpoints) = SumFunctionOnSet(merge.weights, {Selected[l] : l \in Checkpoints})
      BY <3>2, <3>3, SumOnto
    <3>5. QED
      BY <1>2, <2>3, <3>4 DEF Total
  <2>5. PICK w \in Nat : w = merge.weights[i] /\ w = Paired[k]
    BY <2>2
  <2>6. Wanted(i) = IF Sum /\ i \in J /\ u > 4 THEN (w * shares.unit) \div u ELSE (w * shares.unit) \div 4
    BY <1>6, <2>4, <2>5 DEF Wanted
  <2>7. CASE Sum /\ u > 4
    <3>1. Resolved = [unit |-> 4 * u, base |-> 0,
                      of |-> [l \in DOMAIN Selected |-> Paired[l] * IF l \in Checkpoints THEN 4 ELSE u]]
      BY <1>6, <2>1, <2>3, <2>7 DEF Resolved, Total, Checkpoints
    <3>2. shares.unit = 4 * u /\ shares.of[k] = w * IF k \in Checkpoints THEN 4 ELSE u
      BY <2>5, <3>1
    <3>3. (w * (4 * u)) \div u = w * 4
      <4>1. PICK q \in Nat : q = w * 4
        BY <2>5
      <4>2. w * (4 * u) = q * u /\ u \in Nat \ {0}
        BY <2>3, <2>7, <4>1
      <4>3. (q * u) \div u = q
        BY <4>1, <4>2
      <4>4. QED
        BY <4>1, <4>2, <4>3
    <3>4. (w * (4 * u)) \div 4 = w * u
      <4>1. PICK q \in Int : q = w * u
        BY <2>3, <2>5
      <4>2. w * (4 * u) = q * 4
        BY <2>3, <2>5, <4>1
      <4>3. (q * 4) \div 4 = q
        BY <4>1
      <4>4. QED
        BY <4>1, <4>2, <4>3
    <3>5. QED
      BY <1>3, <2>6, <2>7, <3>2, <3>3, <3>4
  <2>8. CASE ~(Sum /\ u > 4)
    <3>1. Resolved = [unit |-> 4, base |-> IF Sum THEN 4 - u ELSE 4, of |-> Paired]
      BY <1>6, <2>1, <2>3, <2>8 DEF Resolved, Total, Checkpoints
    <3>2. shares.unit = 4 /\ shares.of[k] = w
      BY <2>5, <3>1
    <3>3. (w * 4) \div 4 = w
      BY <2>5
    <3>4. QED
      BY <2>6, <2>8, <3>2, <3>3
  <2>9. QED
    BY <2>7, <2>8
<1>7. QED
  BY <1>5, <1>6

-----------------------------------------------------------------------------
\* What the merge works on once its materials are open.
Working == included = Selected /\ shares = Resolved

\* What a material adds to a coordinate.
PartOf(k, t, c) ==
    IF KindOf(included[k]) = "checkpoint"
    THEN FromCheckpoint(included[k], shares.of[k], t, Cleaned(t))[c]
    ELSE FromAdapter(included[k], shares.of[k], t)[c]

\* What is held for a tensor is of its type.
LEMMA HoldsAre ==
    ASSUME IsMergeOrder(merge), NEW t \in Range(Tensors), NEW i \in Materials
    PROVE  /\ merge.materials[i].kind \in {"checkpoint", "lora"} /\ merge.materials[i].fit \in Ways
           /\ merge.materials[i].holds[t].state \in Held
           /\ DOMAIN merge.materials[i].holds[t].at = Coordinates
           /\ \A c \in Coordinates : merge.materials[i].holds[t].at[c] \in Int \cup {NaN}
           /\ KindOf(i) \in {"checkpoint", "lora"}
           /\ Usable(i) /\ KindOf(i) = "lora" => merge.materials[i].holds[t].state # "quantized"
<1>1. merge.materials \in Seq(MaterialType) /\ i \in DOMAIN merge.materials
  BY DEF IsMergeOrder, Materials
<1>2. merge.materials[i] \in MaterialType
  BY <1>1
<1>3. PICK m \in MaterialType : m = merge.materials[i]
  BY <1>2
<1>4. m.holds[t] \in [state : Held, at : [Coordinates -> OrNaN(Int)]] /\ m.kind \in {"checkpoint", "lora"} /\ m.fit \in Ways
  BY <1>3 DEF MaterialType
<1>5. /\ m.holds[t].state \in Held /\ DOMAIN m.holds[t].at = Coordinates
      /\ \A c \in Coordinates : m.holds[t].at[c] \in Int \cup {NaN}
  BY <1>4 DEF OrNaN
<1>6. m.kind = "lora" /\ m.fit # "raw" => m.holds[t].state # "quantized"
  BY <1>1, <1>3 DEF IsMergeOrder
<1>7. KindOf(i) \in {"checkpoint", "lora"}
  BY <1>3, <1>4 DEF KindOf
<1>8. Usable(i) /\ KindOf(i) = "lora" => m.kind = "lora" /\ m.fit # "raw"
  BY <1>3, <1>4 DEF Usable, KindOf
<1>9. QED
  BY <1>3, <1>4, <1>5, <1>6, <1>7, <1>8

\* The base of a tensor that is merged is of numbers, and is what the request has where it has one.
LEMMA BaseIs ==
    ASSUME IsMergeOrder(merge), NEW t \in Range(Tensors)
    PROVE  /\ merge.base[t].type \in {"float", "broken scale", "state", "buffer"}
           /\ DOMAIN merge.base[t].at = Coordinates
           /\ \A c \in Coordinates : merge.base[t].at[c] \in (-Limit..Limit) \cup {NaN}
           /\ merge.base[t].type = "buffer" => \A c \in Coordinates : merge.base[t].at[c] # NaN
<1>1. PICK b \in BaseType : b = merge.base[t]
  BY DEF IsMergeOrder
<1>2. QED
  BY <1>1 DEF BaseType, OrNaN, IsMergeOrder

\* A cleaned base has a number of the storage's range at every coordinate.
LEMMA CleanedIs ==
    ASSUME IsMergeOrder(merge), NEW t \in Range(Tensors), ~StrictRefusal(t), NEW c \in Coordinates
    PROVE  /\ Cleaned(t)[c] \in -Limit..Limit /\ Limit \in Nat
           /\ merge.base[t].at[c] # NaN => Cleaned(t)[c] = merge.base[t].at[c]
<1>1. merge.base[t].at[c] \in (-Limit..Limit) \cup {NaN} /\ Limit \in Nat /\ NaN \notin Int
  BY BaseIs, MergeAssumption
<1>2. CASE merge.base[t].type = "buffer"
  BY <1>1, <1>2, BaseIs DEF Cleaned
<1>3. CASE merge.base[t].type # "buffer" /\ Repairs
  BY <1>1, <1>3 DEF Cleaned, Clean
<1>4. CASE merge.base[t].type # "buffer" /\ ~Repairs
  <2>1. c \notin Broken(merge.base[t].at)
    BY <1>4 DEF StrictRefusal
  <2>2. QED
    BY <1>1, <1>4, <2>1 DEF Cleaned, Broken
<1>5. QED
  BY <1>2, <1>3, <1>4

\* A checkpoint moves the base and takes its share of it, if it takes one.
LEMMA CheckpointPart ==
    ASSUME IsMergeOrder(merge), NEW t \in Range(Tensors), ~StrictRefusal(t), NEW c \in Coordinates,
           NEW i \in Materials, KindOf(i) = "checkpoint", NEW w \in Nat, Wanted(i) = w
    PROVE  /\ Moves(i, t, c) \in Int
           /\ FromCheckpoint(i, w, t, Cleaned(t))[c] = Moves(i, t, c) + (IF Sum THEN w * Cleaned(t)[c] ELSE 0)
           /\ (w = 0 \/ ~Applies(i, w, t)) => Moves(i, t, c) = 0
<1>1. PICK b \in Int : b = Cleaned(t)[c]
  BY CleanedIs
<1>2. PICK m, s, x : m = merge.materials[i] /\ s = m.holds[t].state /\ x = m.holds[t].at[c]
  OBVIOUS
<1>3. s \in Held /\ x \in Int \cup {NaN} /\ NaN \notin Int /\ 0 # NaN
  BY <1>2, HoldsAre, MergeAssumption
<1>4. Moves(i, t, c) = LET y == IF s = "absent" THEN 0 ELSE x
                       IN IF ~(Available(m, t) /\ y # NaN) THEN 0
                          ELSE IF ~Sum THEN -(w * y) ELSE w * (y - b)
  BY <1>1, <1>2, <1>3 DEF Moves, Available, Held
<1>5. FromCheckpoint(i, w, t, Cleaned(t))[c] =
         LET y == Contents(m, t, Cleaned(t))[c]
         IN IF ~Available(m, t) \/ y = NaN THEN (IF Sum THEN w * b ELSE 0)
            ELSE IF Sum THEN w * y ELSE -(w * y)
  BY <1>1, <1>2 DEF FromCheckpoint
<1>6. Available(m, t) => Contents(m, t, Cleaned(t))[c] = IF s = "absent" THEN 0 ELSE x
  BY <1>2, <1>3 DEF Available, Contents, Held
<1>7. PICK y \in Int \cup {NaN} : y = IF s = "absent" THEN 0 ELSE x
  BY <1>3
<1>8. CASE Available(m, t) /\ y # NaN
  <2>1. y \in Int /\ w * (y - b) \in Int /\ -(w * y) \in Int /\ w * (y - b) + w * b = w * y
    BY <1>1, <1>7, <1>8
  <2>2. Moves(i, t, c) = IF ~Sum THEN -(w * y) ELSE w * (y - b)
    BY <1>4, <1>7, <1>8
  <2>3. FromCheckpoint(i, w, t, Cleaned(t))[c] = IF Sum THEN w * y ELSE -(w * y)
    BY <1>5, <1>6, <1>7, <1>8
  <2>4. Applies(i, w, t) \/ w = 0
    <3>1. s = "absent" \/ c \notin Broken(m.holds[t].at)
      BY <1>2, <1>7, <1>8 DEF Broken
    <3>2. QED
      BY <1>2, <1>8, <3>1 DEF Applies
  <2>5. w = 0 => w * (y - b) = 0 /\ -(w * y) = 0
    BY <1>1, <2>1
  <2>6. QED
    BY <1>1, <2>1, <2>2, <2>3, <2>4, <2>5
<1>9. CASE ~(Available(m, t) /\ y # NaN)
  <2>1. Moves(i, t, c) = 0
    BY <1>4, <1>7, <1>9
  <2>2. FromCheckpoint(i, w, t, Cleaned(t))[c] = IF Sum THEN w * b ELSE 0
    BY <1>5, <1>6, <1>7, <1>9
  <2>3. w * b \in Int /\ 0 + w * b = w * b
    BY <1>1
  <2>4. QED
    BY <1>1, <2>1, <2>2, <2>3
<1>10. QED
  BY <1>8, <1>9

\* An adapter moves the base and takes nothing of it.
LEMMA AdapterPart ==
    ASSUME IsMergeOrder(merge), NEW t \in Range(Tensors), ~StrictRefusal(t), NEW c \in Coordinates,
           NEW i \in Materials, Usable(i), KindOf(i) = "lora", NEW w \in Nat, Wanted(i) = w
    PROVE  /\ Moves(i, t, c) \in Int
           /\ FromAdapter(i, w, t)[c] = Moves(i, t, c)
           /\ (w = 0 \/ ~Applies(i, w, t)) => Moves(i, t, c) = 0
<1>1. PICK m, s, x : m = merge.materials[i] /\ s = m.holds[t].state /\ x = m.holds[t].at[c]
  OBVIOUS
<1>2. s \in Held /\ x \in Int \cup {NaN} /\ NaN \notin Int /\ 0 # NaN /\ s # "quantized"
  BY <1>1, HoldsAre, MergeAssumption
<1>3. Moves(i, t, c) = IF s # "there" \/ x = NaN THEN 0 ELSE IF ~Sum THEN -(w * x) ELSE w * x
  BY <1>1, <1>2 DEF Moves, Held
<1>4. PICK y \in Int : y = IF x = NaN THEN 0 ELSE x
  BY <1>2
<1>5. Clean(m.holds[t].at)[c] = y
  BY <1>1, <1>4 DEF Clean
<1>6. FromAdapter(i, w, t)[c] = IF s # "there" THEN 0 ELSE (IF Sum THEN w ELSE -w) * y
  BY <1>1, <1>5 DEF FromAdapter
<1>7. /\ w * 0 = 0 /\ (-w) * 0 = 0 /\ (-w) * y = -(w * y) /\ w * y \in Int /\ -(w * y) \in Int
      /\ (w = 0 \/ y = 0 => w * y = 0 /\ -(w * y) = 0)
  BY <1>4
<1>8. Moves(i, t, c) = IF s # "there" THEN 0 ELSE IF ~Sum THEN -(w * y) ELSE w * y
  BY <1>2, <1>3, <1>4, <1>7
<1>9. s = "there" /\ y # 0 => w = 0 \/ Applies(i, w, t)
  BY <1>1, <1>5 DEF Applies
<1>10. QED
  BY <1>6, <1>7, <1>8, <1>9

\* How far the materials move a coordinate of a tensor.
MovesOf(t, c) == [i \in Range(included) |-> Moves(i, t, c)]

\* What the materials add to the base's share is what moves the whole base; without a material
\* that applies it is not moved.
LEMMA BlendIs ==
    ASSUME IsMergeOrder(merge), Working, NEW t \in Range(Tensors), ~StrictRefusal(t), NEW c \in Coordinates
    PROVE  /\ SumFunction(MovesOf(t, c)) \in Int
           /\ Blend(t)[c] = shares.unit * Cleaned(t)[c] + SumFunction(MovesOf(t, c))
           /\ ~Applied(t) => SumFunction(MovesOf(t, c)) = 0
<1> DEFINE D == DOMAIN Selected
           P == [k \in D |-> PartOf(k, t, c)]
           M == [k \in D |-> Moves(Selected[k], t, c)]
           C == [k \in D |-> IF Sum /\ k \in Checkpoints THEN shares.of[k] ELSE 0]
<1>1. PICK b \in Int : b = Cleaned(t)[c]
  BY CleanedIs
<1>2. SelectsEach /\ SharesTrue /\ included = Selected /\ shares = Resolved
  BY SelectedIs, SharesAre DEF Working
<1>3. IsFiniteSet(D) /\ Checkpoints \subseteq D /\ IsFiniteSet(Checkpoints)
  BY <1>2 DEF SelectsEach, Checkpoints
<1>4. ASSUME NEW k \in D
      PROVE  /\ M[k] \in Int /\ C[k] \in Int /\ P[k] = 1 * M[k] + b * C[k]
             /\ Moves(Selected[k], t, c) = M[k]
             /\ ~Applied(t) => M[k] = 0
  <2>1. PICK i \in Materials : i = Selected[k] /\ i = included[k] /\ Usable(i)
    BY <1>2 DEF SelectsEach
  <2>2. PICK w \in Nat : w = shares.of[k] /\ Wanted(i) = w
    BY <1>2, <2>1, WantedIs DEF SharesTrue
  <2>3. ~Applied(t) => ~Applies(i, w, t)
    BY <1>2, <2>1, <2>2 DEF Applied
  <2>4. KindOf(i) = "checkpoint" <=> k \in Checkpoints
    BY <2>1 DEF Checkpoints
  <2>5. CASE KindOf(i) = "checkpoint"
    <3>1. PICK m \in Int : m = Moves(i, t, c)
      BY <2>2, <2>5, CheckpointPart
    <3>2. PartOf(k, t, c) = m + (IF Sum THEN w * b ELSE 0)
      BY <1>1, <2>1, <2>2, <2>5, <3>1, CheckpointPart DEF PartOf
    <3>3. C[k] = IF Sum THEN w ELSE 0
      BY <2>2, <2>4, <2>5
    <3>4. m + (IF Sum THEN w * b ELSE 0) = 1 * m + b * (IF Sum THEN w ELSE 0)
      BY <1>1, <2>2, <3>1
    <3>5. ~Applied(t) => m = 0
      BY <2>2, <2>3, <2>5, <3>1, CheckpointPart
    <3>6. M[k] = m /\ P[k] = PartOf(k, t, c)
      BY <2>1, <3>1
    <3>7. C[k] \in Int
      BY <2>2, <3>3
    <3>8. P[k] = 1 * M[k] + b * C[k]
      BY <3>2, <3>3, <3>4, <3>6
    <3>9. QED
      BY <2>1, <3>1, <3>5, <3>6, <3>7, <3>8
  <2>6. CASE KindOf(i) # "checkpoint"
    <3>1. KindOf(i) = "lora"
      BY <2>6, HoldsAre
    <3>2. PICK m \in Int : m = Moves(i, t, c)
      BY <2>1, <2>2, <3>1, AdapterPart
    <3>3. PartOf(k, t, c) = m
      BY <2>1, <2>2, <2>6, <3>1, <3>2, AdapterPart DEF PartOf
    <3>4. C[k] = 0 /\ 1 * m + b * 0 = m
      BY <1>1, <2>4, <2>6, <3>2
    <3>5. ~Applied(t) => m = 0
      BY <2>1, <2>2, <2>3, <3>1, <3>2, AdapterPart
    <3>6. M[k] = m /\ P[k] = PartOf(k, t, c)
      BY <2>1, <3>2
    <3>7. QED
      BY <2>1, <3>2, <3>3, <3>4, <3>5, <3>6
  <2>7. QED
    BY <2>5, <2>6
<1>5. Blend(t)[c] = shares.base * b + SumFunctionOnSet(P, D)
  BY <1>1, <1>2 DEF Blend, PartOf, SumFunction
<1>6. PICK p \in Int, m \in Int, s \in Int :
         p = SumFunctionOnSet(P, D) /\ m = SumFunctionOnSet(M, D) /\ s = SumFunctionOnSet(C, D)
  <2>1. \A k \in D : P[k] \in Int /\ M[k] \in Int /\ C[k] \in Int
    BY <1>1, <1>4
  <2> HIDE DEF P, M, C, D
  <2>2. QED
    BY <1>3, <2>1, SumTyped
<1>7. p = 1 * m + b * s
  <2>1. \A k \in D : M[k] \in Int /\ C[k] \in Int /\ P[k] = 1 * M[k] + b * C[k]
    BY <1>4
  <2> HIDE DEF P, M, C, D
  <2>2. QED
    BY <1>1, <1>3, <1>6, <2>1, SumLinear
<1>8. s = IF Sum THEN SumFunctionOnSet(Resolved.of, Checkpoints) ELSE 0
  <2>1. CASE Sum
    <3>1. \A k \in D : C[k] \in Int
      BY <1>4
    <3>2. (\A k \in D \ Checkpoints : C[k] = 0) /\ (\A k \in Checkpoints : Resolved.of[k] \in Int /\ C[k] = Resolved.of[k])
      BY <1>2, <1>3, <2>1 DEF SharesTrue
    <3> HIDE DEF C, D
    <3>3. SumFunctionOnSet(C, D) = SumFunctionOnSet(C, Checkpoints)
      BY <1>3, <3>1, <3>2, SumWithin
    <3>4. SumFunctionOnSet(C, Checkpoints) = SumFunctionOnSet(Resolved.of, Checkpoints)
      BY <1>3, <3>2, SumSame
    <3>5. QED
      BY <1>6, <2>1, <3>3, <3>4
  <2>2. CASE ~Sum
    <3>1. \A k \in D : C[k] = 0
      BY <2>2
    <3> HIDE DEF C, D
    <3>2. SumFunctionOnSet(C, D) = 0
      BY <1>3, <3>1, SumZero
    <3>3. QED
      BY <1>6, <2>2, <3>2
  <2>3. QED
    BY <2>1, <2>2
<1>9. SumFunction(MovesOf(t, c)) = m
  <2>1. Range(included) = {Selected[k] : k \in D} /\ DOMAIN MovesOf(t, c) = {Selected[k] : k \in D}
    BY <1>2 DEF Range, MovesOf
  <2>2. \A k \in D : MovesOf(t, c)[Selected[k]] \in Int /\ M[k] = MovesOf(t, c)[Selected[k]]
    <3>1. \A k \in D : Selected[k] \in Range(included)
      BY <2>1
    <3>2. \A k \in D : MovesOf(t, c)[Selected[k]] = Moves(Selected[k], t, c)
      BY <3>1 DEF MovesOf
    <3>3. QED
      BY <1>4, <3>2
  <2>3. \A k, l \in D : Selected[k] = Selected[l] => k = l
    BY <1>2 DEF SelectsEach
  <2> HIDE DEF M, D
  <2>4. SumFunctionOnSet(M, D) = SumFunctionOnSet(MovesOf(t, c), {Selected[k] : k \in D})
    BY <1>3, <2>2, <2>3, SumOnto
  <2>5. QED
    BY <1>6, <2>1, <2>4 DEF SumFunction
<1>10. ~Applied(t) => m = 0
  <2> SUFFICES ASSUME ~Applied(t) PROVE m = 0
    OBVIOUS
  <2>1. \A k \in D : M[k] = 0
    BY <1>4
  <2> HIDE DEF M, D
  <2>2. SumFunctionOnSet(M, D) = 0
    BY <1>3, <2>1, SumZero
  <2>3. QED
    BY <1>6, <2>2
<1>11. Blend(t)[c] = shares.unit * b + m
  <2>1. PICK u \in Int, d \in Int : u = shares.unit /\ d = shares.base /\ d + s = u
    <3>1. Resolved.base + s = Resolved.unit /\ Resolved.base \in Int /\ Resolved.unit \in Int
      BY <1>2, <1>8 DEF SharesTrue
    <3>2. QED
      BY <1>2, <3>1
  <2>2. d * b + (1 * m + b * s) = u * b + m
    <3>1. d * b + b * s = (d + s) * b
      BY <1>1, <1>6, <2>1
    <3>2. QED
      BY <1>1, <1>6, <2>1, <3>1
  <2>3. QED
    BY <1>5, <1>6, <1>7, <2>1, <2>2
<1>12. QED
  BY <1>1, <1>6, <1>9, <1>10, <1>11

\* What is said of a tensor is true of it: its numbers, and whether they are other than the base's.
OutcomeTrue(o, t) ==
    /\ o.changed <=> Differs(t, o.at)
    /\ ~Preserved(t) => \A c \in Coordinates :
          o.at[c] = Clamped(shares.unit * Cleaned(t)[c] + SumFunction(MovesOf(t, c)))

\* A number of the storage's range is stored as it is, and any integer as one.
LEMMA ClampedIs ==
    ASSUME NEW u \in Nat, u = shares.unit
    PROVE  /\ \A n \in Int : Clamped(n) \in Int
           /\ \A x \in -Limit..Limit : x * u \in Int /\ u * x = x * u /\ Clamped(x * u) = x * u
<1>1. PICK l \in Nat : l = Limit
  BY MergeAssumption
<1>2. PICK v \in Nat : v = l * u
  BY <1>1
<1>3. \A n : Clamped(n) = IF n > v THEN v ELSE IF n < -v THEN -v ELSE n
  BY <1>1, <1>2 DEF Clamped
<1>4. ASSUME NEW x \in -Limit..Limit
      PROVE  x * u \in Int /\ u * x = x * u /\ x * u <= v /\ -v <= x * u
  <2>1. x \in Int /\ x <= l /\ -l <= x
    BY <1>1
  <2>2. x * u \in Int /\ u * x = x * u
    BY <2>1
  <2>3. x * u <= l * u /\ (-l) * u <= x * u /\ (-l) * u = -(l * u)
    BY <1>1, <2>1
  <2>4. QED
    BY <1>2, <2>2, <2>3
<1>5. \A n \in Int : Clamped(n) \in Int
  BY <1>2, <1>3
<1>6. ASSUME NEW x \in -Limit..Limit
      PROVE  Clamped(x * u) = x * u
  <2>1. PICK n \in Int : n = x * u /\ n <= v /\ -v <= n
    BY <1>4
  <2>2. ~(n > v) /\ ~(n < -v)
    BY <1>2, <2>1
  <2>3. QED
    BY <1>3, <2>1, <2>2
<1>7. QED
  BY <1>4, <1>5, <1>6

\* A tensor that was merged, or stayed the base's, is as it is said to be.
LEMMA TensorIs ==
    ASSUME IsMergeOrder(merge), Working, NEW t \in Range(Tensors), ~StrictRefusal(t),
           NEW kept \in BOOLEAN, kept <=> (Preserved(t) \/ ~Applied(t)),
           NEW whole, whole = IF kept THEN Scaled1(Cleaned(t)) ELSE Blend(t),
           NEW at, at = [c \in Coordinates |-> Clamped(whole[c])],
           NEW o, o.at = at, o.changed = SaysChanged(t, kept, at)
    PROVE  at \in [Coordinates -> Int] /\ SaysChanged(t, kept, at) \in BOOLEAN /\ OutcomeTrue(o, t)
<1>1. PICK u \in Nat : u = shares.unit
  BY SharesAre DEF SharesTrue, Working
<1>2. \A c \in Coordinates : Cleaned(t)[c] \in -Limit..Limit /\ SumFunction(MovesOf(t, c)) \in Int
  BY CleanedIs, BlendIs
<1>3. ASSUME NEW c \in Coordinates
      PROVE  /\ at[c] \in Int
             /\ ~Preserved(t) => at[c] = Clamped(shares.unit * Cleaned(t)[c] + SumFunction(MovesOf(t, c)))
             /\ kept => at[c] = Cleaned(t)[c] * shares.unit
  <2>1. PICK b \in -Limit..Limit, n \in Int : b = Cleaned(t)[c] /\ n = SumFunction(MovesOf(t, c))
    BY <1>2
  <2>2. b * u \in Int /\ u * b = b * u /\ Clamped(b * u) = b * u /\ u * b + n \in Int /\ u * b + 0 = b * u
    <3>1. b * u \in Int /\ u * b = b * u /\ Clamped(b * u) = b * u
      BY <1>1, ClampedIs
    <3>2. QED
      BY <2>1, <3>1
  <2>3. CASE kept
    <3>1. whole[c] = b * u
      BY <1>1, <2>1, <2>3 DEF Scaled1
    <3>2. at[c] = b * u
      BY <2>2, <3>1
    <3>3. ~Preserved(t) => n = 0
      BY <2>1, <2>3, BlendIs
    <3>4. QED
      BY <1>1, <2>1, <2>2, <3>2, <3>3
  <2>4. CASE ~kept
    <3>1. whole[c] = u * b + n
      BY <1>1, <2>1, <2>4, BlendIs
    <3>2. at[c] = Clamped(u * b + n)
      BY <3>1
    <3>3. Clamped(u * b + n) \in Int
      BY <1>1, <2>2, ClampedIs
    <3>4. QED
      BY <1>1, <2>1, <2>4, <3>2, <3>3
  <2>5. QED
    BY <2>3, <2>4
<1>4. at \in [Coordinates -> Int]
  BY <1>3
<1>5. kept => (Broken(merge.base[t].at) # {} <=> Differs(t, at))
  <2> SUFFICES ASSUME kept PROVE Broken(merge.base[t].at) # {} <=> Differs(t, at)
    OBVIOUS
  <2>1. \A c \in Coordinates : merge.base[t].at[c] # NaN => at[c] = merge.base[t].at[c] * shares.unit
    BY <1>3, CleanedIs
  <2>2. QED
    BY <2>1 DEF Differs, Broken
<1>6. SaysChanged(t, kept, at) \in BOOLEAN /\ (SaysChanged(t, kept, at) <=> Differs(t, at))
  <2>1. Differs(t, at) \in BOOLEAN
    BY DEF Differs
  <2>2. QED
    BY <1>5, <2>1 DEF SaysChanged
<1>7. OutcomeTrue(o, t)
  BY <1>3, <1>6 DEF OutcomeTrue
<1>8. QED
  BY <1>4, <1>6, <1>7

-----------------------------------------------------------------------------
Outcomes    == [at : [Coordinates -> Int], merged : BOOLEAN, changed : BOOLEAN]
BeforeMerge == {"resolve", "inspect", "hash", "filter"}
AfterVerify == {"publish", "link", "done"}

\* The request is one, a merge that failed says why, and nothing that was published is replaced.
MergeTyped ==
    /\ IsMergeOrder(merge)
    /\ stage \in BeforeMerge \cup {"merge", "verify"} \cup AfterVerify \cup {"failed"}
    /\ stage = "failed" <=> trouble # "none"
    /\ output \in {"none", "ours", "theirs"}
    /\ edition \in [Sources -> {1, 2}] /\ hashed \in [Sources -> 0..2] /\ readOf \in [Sources -> SUBSET {1, 2}]
    /\ outcome \in Seq(Outcomes) /\ Len(outcome) <= Len(Tensors)

\* Materials and coefficients are those of the request once they are open.
MergeChoice ==
    \/ /\ included = <<>> /\ outcome = <<>> /\ shares = [unit |-> 0, base |-> 0, of |-> <<>>]
       /\ stage \in BeforeMerge \cup {"failed"}
    \/ Working /\ stage \notin BeforeMerge

\* Every tensor that is done is as it is said to be.
MergeOutcomes == \A k \in DOMAIN outcome : OutcomeTrue(outcome[k], Tensors[k])

\* What is read of a source is no older than its digest and no younger than the source; once
\* verified, it is what the digest is of.
MergeEditions ==
    \A s \in Sources :
        /\ hashed[s] <= edition[s]
        /\ \A e \in readOf[s] : hashed[s] # 0 /\ hashed[s] <= e /\ e <= edition[s]
        /\ stage \notin {"resolve", "inspect", "hash", "failed"} /\ (s = 0 \/ Usable(s)) => hashed[s] # 0
        /\ stage \in BeforeMerge => readOf[s] = {}
        /\ stage \in AfterVerify => readOf[s] \subseteq {hashed[s]}

\* The inductive invariant.
MergeInv == MergeTyped /\ MergeChoice /\ MergeOutcomes /\ MergeEditions /\ RepairNeverFails

-----------------------------------------------------------------------------
\* What is a request's stays with it.
LEMMA MergeStays ==
    ASSUME UNCHANGED merge
    PROVE  /\ IsMergeOrder(merge)' <=> IsMergeOrder(merge)
           /\ Selected' = Selected /\ Resolved' = Resolved /\ Materials' = Materials /\ Sources' = Sources
           /\ Repairs' = Repairs /\ Sum' = Sum
           /\ \A i : (Usable(i)' <=> Usable(i)) /\ KindOf(i)' = KindOf(i)
           /\ \A t : (Preserved(t)' <=> Preserved(t)) /\ Cleaned(t)' = Cleaned(t)
<1>1. Materials' = Materials /\ Sources' = Sources /\ Repairs' = Repairs /\ Forces' = Forces /\ Sum' = Sum
  BY DEF Materials, Sources, Repairs, Forces, Sum
<1>2. \A i : (Usable(i)' <=> Usable(i)) /\ KindOf(i)' = KindOf(i)
  BY <1>1 DEF Usable, KindOf
<1>3. Selected' = Selected
  BY <1>1, <1>2 DEF Selected
<1>4. Paired' = Paired
  BY <1>3 DEF Paired
<1>5. Resolved' = Resolved
  BY <1>1, <1>2, <1>3, <1>4 DEF Resolved
<1>6. \A t : (Preserved(t)' <=> Preserved(t)) /\ Cleaned(t)' = Cleaned(t)
  BY <1>1 DEF Preserved, Cleaned, Clean
<1>7. QED
  BY <1>1, <1>2, <1>3, <1>5, <1>6 DEF IsMergeOrder

\* What is said of a tensor stays true while materials and coefficients stay.
LEMMA OutcomeStays ==
    ASSUME UNCHANGED <<merge, included, shares>>
    PROVE  \A o, t : OutcomeTrue(o, t)' <=> OutcomeTrue(o, t)
<1>1. /\ Repairs' = Repairs /\ Sum' = Sum /\ Forces' = Forces
      /\ \A i : KindOf(i)' = KindOf(i)
      /\ \A t : (Preserved(t)' <=> Preserved(t)) /\ Cleaned(t)' = Cleaned(t)
  BY MergeStays DEF Forces
<1>2. \A i : Wanted(i)' = Wanted(i)
  BY <1>1 DEF Wanted
<1>3. \A i, t, c : Moves(i, t, c)' = Moves(i, t, c)
  BY <1>1, <1>2 DEF Moves
<1>4. \A t, c : MovesOf(t, c)' = MovesOf(t, c)
  BY <1>3 DEF MovesOf
<1>5. \A n : Clamped(n)' = Clamped(n)
  BY DEF Clamped
<1>6. \A t, at : Differs(t, at)' <=> Differs(t, at)
  BY DEF Differs
<1>7. QED
  BY <1>1, <1>4, <1>5, <1>6 DEF OutcomeTrue

\* Materials and coefficients that are open stay open.
LEMMA ChoiceStays ==
    ASSUME MergeChoice, UNCHANGED <<merge, included, shares, outcome>>
    PROVE  /\ stage' \in BeforeMerge \cup {"failed"} /\ stage \in BeforeMerge => MergeChoice'
           /\ stage' \notin BeforeMerge /\ stage \notin BeforeMerge \cup {"failed"} => MergeChoice'
           /\ stage' = "failed" => MergeChoice'
           /\ stage' = stage => MergeChoice'
<1>1. Working' <=> Working
  BY MergeStays DEF Working
<1>2. QED
  BY <1>1 DEF MergeChoice, BeforeMerge

\* A merge that fails, for a reason that it may.
LEMMA FailKeeps ==
    ASSUME MergeInv, NEW why, why # "none", FailMerge(why),
           (Repairs /\ \A i \in Materials : merge.materials[i].fit # "pipeline")
               => why \in {"output exists", "source changed"}
    PROVE  MergeInv'
<1>1. /\ trouble' = why /\ stage' = "failed"
      /\ UNCHANGED <<merge, edition, hashed, included, shares, readOf, outcome, output>>
  BY DEF FailMerge
<1>2. MergeTyped'
  BY <1>1, MergeStays DEF MergeInv, MergeTyped, AfterVerify
<1>3. MergeChoice'
  BY <1>1, ChoiceStays DEF MergeInv
<1>4. MergeOutcomes'
  BY <1>1, OutcomeStays DEF MergeInv, MergeOutcomes
<1>5. MergeEditions'
  BY <1>1, MergeStays DEF MergeInv, MergeEditions, AfterVerify, BeforeMerge
<1>6. RepairNeverFails'
  BY <1>1, MergeStays DEF RepairNeverFails
<1>7. QED
  BY <1>2, <1>3, <1>4, <1>5, <1>6 DEF MergeInv

\* A step that only goes on, to the next stage.
LEMMA GoesOn ==
    ASSUME MergeInv, NEW from, NEW to, stage = from, stage' = to,
           <<from, to>> \in {<<"resolve", "inspect">>, <<"inspect", "hash">>, <<"merge", "verify">>, <<"publish", "link">>},
           UNCHANGED <<merge, edition, hashed, included, shares, readOf, outcome, output, trouble>>
    PROVE  MergeInv'
<1>1. /\ stage \notin {"failed"} /\ stage' \notin {"failed"}
      /\ (stage \in BeforeMerge /\ stage' \in BeforeMerge) \/ (stage' \notin BeforeMerge /\ stage \notin BeforeMerge \cup {"failed"})
      /\ stage' \in BeforeMerge \cup {"merge", "verify"} \cup AfterVerify
      /\ (stage' \notin {"resolve", "inspect", "hash", "failed"} => stage \notin {"resolve", "inspect", "hash", "failed"})
      /\ (stage' \in AfterVerify => stage \in AfterVerify) /\ (stage' \in BeforeMerge => stage \in BeforeMerge)
  BY DEF BeforeMerge, AfterVerify
<1>2. MergeTyped'
  BY <1>1, MergeStays DEF MergeInv, MergeTyped
<1>3. MergeChoice'
  BY <1>1, ChoiceStays DEF MergeInv
<1>4. MergeOutcomes'
  BY OutcomeStays DEF MergeInv, MergeOutcomes
<1>5. MergeEditions'
  BY <1>1, MergeStays DEF MergeInv, MergeEditions
<1>6. RepairNeverFails'
  BY MergeStays DEF MergeInv, RepairNeverFails
<1>7. QED
  BY <1>2, <1>3, <1>4, <1>5, <1>6 DEF MergeInv

\* A request is resolved, or refused where its output exists.
LEMMA ResolveKeeps == ASSUME MergeInv, ResolveMerge PROVE MergeInv'
<1>1. CASE output # "none"
  BY <1>1, FailKeeps DEF ResolveMerge
<1>2. CASE output = "none"
  BY <1>2, GoesOn DEF ResolveMerge
<1>3. QED
  BY <1>1, <1>2

\* The structure is inspected.
LEMMA InspectKeeps == ASSUME MergeInv, InspectStructure PROVE MergeInv'
<1>1. CASE Refusal # "none"
  <2>1. FailMerge(Refusal)
    BY <1>1 DEF InspectStructure
  <2>2. (Repairs /\ \A i \in Materials : merge.materials[i].fit # "pipeline") => Refusal = "none"
    <3> SUFFICES ASSUME Repairs, \A i \in Materials : merge.materials[i].fit # "pipeline"
                 PROVE  Refusal = "none"
      OBVIOUS
    <3>1. SelectsEach
      BY SelectedIs DEF MergeInv, MergeTyped
    <3>2. \A i \in Range(Selected) : i \in Materials /\ Opens(i)
      BY <3>1 DEF Range, SelectsEach, Opens
    <3>3. QED
      BY <3>2 DEF Refusal
  <2>3. QED
    BY <1>1, <2>1, <2>2, FailKeeps
<1>2. CASE Refusal = "none" /\ TooHeavy
  <2>1. FailMerge("weights") /\ ~Repairs
    BY <1>2 DEF InspectStructure, TooHeavy
  <2>2. QED
    BY <2>1, FailKeeps
<1>3. CASE Refusal = "none" /\ ~TooHeavy
  BY <1>3, GoesOn DEF InspectStructure
<1>4. QED
  BY <1>1, <1>2, <1>3

\* The sources are hashed.
LEMMA HashKeeps == ASSUME MergeInv, HashSources PROVE MergeInv'
<1>1. /\ stage = "hash" /\ stage' = "filter"
      /\ hashed' = [s \in Sources |-> IF s \in Materials /\ merge.materials[s].fit = "unusable"
                                      THEN 0 ELSE edition[s]]
      /\ UNCHANGED <<merge, edition, included, shares, readOf, outcome, output, trouble>>
  BY DEF HashSources
<1>2. /\ edition \in [Sources -> {1, 2}] /\ readOf \in [Sources -> SUBSET {1, 2}]
      /\ IsMergeOrder(merge)
  BY DEF MergeInv, MergeTyped
<1>3. ASSUME NEW s \in Sources
      PROVE  hashed'[s] \in 0..2 /\ hashed'[s] <= edition[s] /\ (s = 0 \/ Usable(s) => hashed'[s] = edition[s])
  <2>1. edition[s] \in {1, 2}
    BY <1>2
  <2>2. s = 0 \/ Usable(s) => ~(s \in Materials /\ merge.materials[s].fit = "unusable")
    BY <1>2, MaterialsAre DEF Usable
  <2>3. hashed'[s] = IF s \in Materials /\ merge.materials[s].fit = "unusable" THEN 0 ELSE edition[s]
    BY <1>1
  <2>4. QED
    BY <2>1, <2>2, <2>3
<1>4. \A s \in Sources : readOf[s] = {}
  BY <1>1 DEF MergeInv, MergeEditions, BeforeMerge
<1>5. MergeTyped'
  <2>1. hashed' \in [Sources -> 0..2]
    BY <1>1, <1>3
  <2>2. QED
    BY <1>1, <2>1, MergeStays DEF MergeInv, MergeTyped, BeforeMerge
<1>6. MergeChoice'
  BY <1>1, ChoiceStays DEF MergeInv, BeforeMerge
<1>7. MergeOutcomes'
  BY <1>1, OutcomeStays DEF MergeInv, MergeOutcomes
<1>8. MergeEditions'
  <2>1. \A s \in Sources : edition[s] \in {1, 2}
    BY <1>2
  <2>2. QED
    BY <1>1, <1>3, <1>4, <2>1, MergeStays DEF MergeEditions, AfterVerify
<1>9. RepairNeverFails'
  BY <1>1, MergeStays DEF MergeInv, RepairNeverFails
<1>10. QED
  BY <1>5, <1>6, <1>7, <1>8, <1>9 DEF MergeInv

\* Materials are opened and given coefficients.
LEMMA OpenKeeps == ASSUME MergeInv, OpenMaterials PROVE MergeInv'
<1>1. /\ stage = "filter" /\ stage' = "merge" /\ included' = Selected /\ shares' = Resolved
      /\ UNCHANGED <<merge, edition, hashed, readOf, outcome, output, trouble>>
  BY DEF OpenMaterials
<1>2. MergeTyped'
  BY <1>1, MergeStays DEF MergeInv, MergeTyped
<1>3. Working'
  BY <1>1, MergeStays DEF Working
<1>4. outcome = <<>>
  BY <1>1 DEF MergeInv, MergeChoice, BeforeMerge
<1>5. MergeChoice'
  BY <1>1, <1>3 DEF MergeChoice, BeforeMerge
<1>6. MergeOutcomes'
  BY <1>1, <1>4 DEF MergeOutcomes
<1>7. MergeEditions'
  BY <1>1, MergeStays DEF MergeInv, MergeEditions, AfterVerify, BeforeMerge
<1>8. RepairNeverFails'
  BY <1>1, MergeStays DEF MergeInv, RepairNeverFails
<1>9. QED
  BY <1>2, <1>5, <1>6, <1>7, <1>8 DEF MergeInv

\* A tensor is merged, stays the base's, or is refused by a strict merge.
LEMMA TensorKeeps == ASSUME MergeInv, MergeTensor PROVE MergeInv'
<1> DEFINE n == Len(outcome) + 1
           t == Tensors[n]
           kept == Preserved(t) \/ ~Applied(t)
           whole == IF kept THEN Scaled1(Cleaned(t)) ELSE Blend(t)
           at == [c \in Coordinates |-> Clamped(whole[c])]
           o == [at |-> at, merged |-> ~kept, changed |-> SaysChanged(t, kept, at)]
<1>1. stage = "merge" /\ Len(outcome) < Len(Tensors)
  BY DEF MergeTensor
<1>2. CASE StrictRefusal(t) \/ (~Repairs /\ at # whole)
  <2>1. FailMerge("numbers") /\ ~Repairs
    BY <1>2 DEF MergeTensor, StrictRefusal
  <2>2. QED
    BY <2>1, FailKeeps
<1>3. CASE ~(StrictRefusal(t) \/ (~Repairs /\ at # whole))
  <2>1. /\ outcome' = Append(outcome, o)
        /\ readOf' = [s \in Sources |-> IF s = 0 \/ (s \in Range(included) /\ ~Preserved(t))
                                        THEN readOf[s] \cup {edition[s]} ELSE readOf[s]]
        /\ UNCHANGED <<merge, stage, edition, hashed, included, shares, output, trouble>>
        /\ ~StrictRefusal(t)
    BY <1>3 DEF MergeTensor
  <2>2. /\ IsMergeOrder(merge) /\ outcome \in Seq(Outcomes) /\ Len(outcome) \in Nat /\ Len(Tensors) \in Nat
        /\ edition \in [Sources -> {1, 2}] /\ readOf \in [Sources -> SUBSET {1, 2}]
    BY MergeAssumption DEF MergeInv, MergeTyped
  <2>3. Working
    BY <1>1 DEF MergeInv, MergeChoice, BeforeMerge
  <2>4. n \in 1..Len(Tensors) /\ t \in Range(Tensors)
    BY <1>1, <2>2, MergeAssumption DEF Range
  <2>5. at \in [Coordinates -> Int] /\ SaysChanged(t, kept, at) \in BOOLEAN /\ OutcomeTrue(o, t)
    <3>1. kept \in BOOLEAN /\ o.at = at /\ o.changed = SaysChanged(t, kept, at)
      BY DEF Preserved, Applied
    <3>2. PICK tt, k, w, a, p : tt = t /\ k = kept /\ w = whole /\ a = at /\ p = o
      OBVIOUS
    <3>3. /\ tt \in Range(Tensors) /\ ~StrictRefusal(tt) /\ k \in BOOLEAN /\ (k <=> (Preserved(tt) \/ ~Applied(tt)))
          /\ w = (IF k THEN Scaled1(Cleaned(tt)) ELSE Blend(tt))
          /\ a = [c \in Coordinates |-> Clamped(w[c])]
          /\ p.at = a /\ p.changed = SaysChanged(tt, k, a)
      BY <2>1, <2>4, <3>1, <3>2
    <3> HIDE DEF t, kept, whole, at, o
    <3>4. a \in [Coordinates -> Int] /\ SaysChanged(tt, k, a) \in BOOLEAN /\ OutcomeTrue(p, tt)
      BY <2>2, <2>3, <3>3, TensorIs
    <3>5. QED
      BY <3>2, <3>4
  <2>6. o \in Outcomes
    <3>1. (~kept) \in BOOLEAN
      OBVIOUS
    <3> HIDE DEF t, kept, at
    <3>2. QED
      BY <2>5, <3>1 DEF Outcomes
  <2> HIDE DEF o, kept, whole, at
  <2>7. /\ outcome' \in Seq(Outcomes) /\ Len(outcome') = n /\ outcome'[n] = o
        /\ \A k \in DOMAIN outcome : k \in DOMAIN outcome' /\ outcome'[k] = outcome[k]
        /\ \A k \in DOMAIN outcome' : k = n \/ k \in DOMAIN outcome
    BY <2>1, <2>2, <2>6
  <2>8. ASSUME NEW s \in Sources
        PROVE  /\ readOf'[s] \in SUBSET {1, 2} /\ readOf'[s] \subseteq readOf[s] \cup {edition[s]}
               /\ s # 0 /\ ~Usable(s) => readOf'[s] = readOf[s]
    <3>1. s \in Range(included) => Usable(s)
      <4>1. SelectsEach
        BY <2>2, SelectedIs
      <4>2. QED
        BY <2>3, <4>1 DEF Working, Range, SelectsEach
    <3>2. readOf[s] \in SUBSET {1, 2} /\ edition[s] \in {1, 2}
      BY <2>2
    <3>3. readOf'[s] = IF s = 0 \/ (s \in Range(included) /\ ~Preserved(t))
                       THEN readOf[s] \cup {edition[s]} ELSE readOf[s]
      BY <2>1
    <3>4. QED
      BY <3>1, <3>2, <3>3
  <2>9. MergeTyped'
    <3>1. readOf' \in [Sources -> SUBSET {1, 2}]
      BY <2>1, <2>8
    <3>2. Len(outcome') <= Len(Tensors)
      BY <2>4, <2>7
    <3>3. QED
      BY <2>1, <2>7, <3>1, <3>2, MergeStays DEF MergeInv, MergeTyped
  <2>10. MergeChoice'
    <3>1. Working'
      BY <2>1, <2>3, MergeStays DEF Working
    <3>2. QED
      BY <1>1, <2>1, <3>1 DEF MergeChoice, BeforeMerge
  <2>11. MergeOutcomes'
    <3>1. \A p, u : OutcomeTrue(p, u)' <=> OutcomeTrue(p, u)
      BY <2>1, OutcomeStays
    <3>2. \A k \in DOMAIN outcome : OutcomeTrue(outcome[k], Tensors[k])
      BY DEF MergeInv, MergeOutcomes
    <3>3. ASSUME NEW k \in DOMAIN outcome'
          PROVE  OutcomeTrue(outcome'[k], Tensors[k])
      BY <2>5, <2>7, <3>2
    <3>4. QED
      BY <3>1, <3>3 DEF MergeOutcomes
  <2>12. MergeEditions'
    <3> SUFFICES ASSUME NEW s \in Sources
                 PROVE  /\ hashed[s] <= edition[s]
                        /\ \A e \in readOf'[s] : hashed[s] # 0 /\ hashed[s] <= e /\ e <= edition[s]
                        /\ s = 0 \/ Usable(s) => hashed[s] # 0
      BY <1>1, <2>1, MergeStays DEF MergeEditions, BeforeMerge, AfterVerify
    <3>1. /\ hashed[s] <= edition[s]
          /\ \A e \in readOf[s] : hashed[s] # 0 /\ hashed[s] <= e /\ e <= edition[s]
          /\ s = 0 \/ Usable(s) => hashed[s] # 0
      BY <1>1 DEF MergeInv, MergeEditions
    <3>2. edition[s] \in {1, 2}
      BY <2>2
    <3>3. QED
      BY <2>8, <3>1, <3>2
  <2>13. RepairNeverFails'
    BY <2>1, MergeStays DEF MergeInv, RepairNeverFails
  <2>14. QED
    BY <2>9, <2>10, <2>11, <2>12, <2>13 DEF MergeInv
<1>4. QED
  BY <1>2, <1>3

\* The two counts agree: each tensor says that it changed exactly when it did.
LEMMA CountsAgree ==
    ASSUME MergeInv
    PROVE  Count(LAMBDA k : Differs(Tensors[k], outcome[k].at)) = Count(LAMBDA k : outcome[k].changed)
<1>1. \A k \in DOMAIN outcome : outcome[k].changed <=> Differs(Tensors[k], outcome[k].at)
  BY DEF MergeInv, MergeOutcomes, OutcomeTrue
<1>2. {k \in DOMAIN outcome : Differs(Tensors[k], outcome[k].at)} = {k \in DOMAIN outcome : outcome[k].changed}
  BY <1>1
<1>3. QED
  BY <1>2 DEF Count

\* What is saved is counted anew.
LEMMA SavedKeeps == ASSUME MergeInv, VerifySaved PROVE MergeInv'
<1>1. /\ stage = "merge" /\ stage' = "verify"
      /\ UNCHANGED <<merge, edition, hashed, included, shares, readOf, outcome, output, trouble>>
  BY CountsAgree DEF VerifySaved
<1>2. QED
  BY <1>1, GoesOn

\* The sources are looked at again.
LEMMA VerifyKeeps == ASSUME MergeInv, VerifyMerged PROVE MergeInv'
<1>1. CASE ~SameSources
  BY <1>1, FailKeeps DEF VerifyMerged
<1>2. CASE SameSources
  <2>1. /\ stage = "verify" /\ stage' = "publish"
        /\ UNCHANGED <<merge, edition, hashed, included, shares, readOf, outcome, output, trouble>>
    BY <1>2 DEF VerifyMerged
  <2>2. MergeTyped'
    BY <2>1, MergeStays DEF MergeInv, MergeTyped, AfterVerify
  <2>3. MergeChoice'
    BY <2>1, ChoiceStays DEF MergeInv, BeforeMerge
  <2>4. MergeOutcomes'
    BY <2>1, OutcomeStays DEF MergeInv, MergeOutcomes
  <2>5. ASSUME NEW s \in Sources
        PROVE  readOf[s] \subseteq {hashed[s]}
    <3>1. hashed[s] \in 0..2 /\ edition[s] \in {1, 2} /\ readOf[s] \in SUBSET {1, 2}
      BY DEF MergeInv, MergeTyped
    <3>2. hashed[s] \in {0, edition[s]} /\ \A e \in readOf[s] : hashed[s] # 0 /\ hashed[s] <= e /\ e <= edition[s]
      BY <1>2 DEF SameSources, MergeInv, MergeEditions
    <3>3. QED
      BY <3>1, <3>2
  <2>6. MergeEditions'
    BY <2>1, <2>5, MergeStays DEF MergeInv, MergeEditions, BeforeMerge
  <2>7. RepairNeverFails'
    BY <2>1, MergeStays DEF MergeInv, RepairNeverFails
  <2>8. QED
    BY <2>2, <2>3, <2>4, <2>6, <2>7 DEF MergeInv
<1>3. QED
  BY <1>1, <1>2

\* The output's name is looked at.
LEMMA CheckKeeps == ASSUME MergeInv, CheckOutput PROVE MergeInv'
<1>1. CASE output # "none"
  BY <1>1, FailKeeps DEF CheckOutput
<1>2. CASE output = "none"
  BY <1>2, GoesOn DEF CheckOutput
<1>3. QED
  BY <1>1, <1>2

\* What is only about the output's name leaves the rest as it is.
LEMMA OutputKeeps ==
    ASSUME MergeInv, UNCHANGED <<merge, edition, hashed, included, shares, readOf, outcome, trouble>>,
           output' \in {"none", "ours", "theirs"}, stage' = stage \/ (stage = "link" /\ stage' = "done")
    PROVE  MergeInv'
<1>1. /\ (stage' = "failed" <=> stage = "failed") /\ (stage' \in AfterVerify <=> stage \in AfterVerify)
      /\ (stage' \in BeforeMerge <=> stage \in BeforeMerge)
      /\ (stage' \in {"resolve", "inspect", "hash", "failed"} <=> stage \in {"resolve", "inspect", "hash", "failed"})
      /\ (stage' \in {"merge", "verify"} <=> stage \in {"merge", "verify"})
  BY DEF AfterVerify, BeforeMerge
<1>2. MergeTyped'
  BY <1>1, MergeStays DEF MergeInv, MergeTyped
<1>3. MergeChoice'
  BY <1>1, ChoiceStays DEF MergeInv
<1>4. MergeOutcomes'
  BY OutcomeStays DEF MergeInv, MergeOutcomes
<1>5. MergeEditions'
  BY <1>1, MergeStays DEF MergeInv, MergeEditions
<1>6. RepairNeverFails'
  BY MergeStays DEF MergeInv, RepairNeverFails
<1>7. QED
  BY <1>2, <1>3, <1>4, <1>5, <1>6 DEF MergeInv

\* The output is linked, where nothing is.
LEMMA LinkKeeps == ASSUME MergeInv, LinkOutput PROVE MergeInv'
<1>1. CASE LinkFails
  BY <1>1, FailKeeps DEF LinkOutput
<1>2. CASE ~LinkFails
  <2>1. /\ stage = "link" /\ stage' = "done" /\ output' = "ours"
        /\ UNCHANGED <<merge, edition, hashed, included, shares, readOf, outcome, trouble>>
    BY <1>2 DEF LinkOutput, LinkFails
  <2>2. QED
    BY <2>1, OutputKeeps
<1>3. QED
  BY <1>1, <1>2

\* Another merge publishes.
LEMMA RivalKeeps == ASSUME MergeInv, RivalPublishes PROVE MergeInv'
BY OutputKeeps DEF RivalPublishes

\* A source is replaced: what was read of it before is older.
LEMMA SourceKeeps == ASSUME MergeInv, NEW s \in Sources, EditSource(s) PROVE MergeInv'
<1>1. /\ edition[s] = 1 /\ edition' = [edition EXCEPT ![s] = 2]
      /\ UNCHANGED <<merge, stage, hashed, included, shares, readOf, outcome, output, trouble>>
  BY DEF EditSource
<1>2. edition \in [Sources -> {1, 2}] /\ hashed \in [Sources -> 0..2] /\ readOf \in [Sources -> SUBSET {1, 2}]
  BY DEF MergeInv, MergeTyped
<1>3. edition' \in [Sources -> {1, 2}] /\ \A q \in Sources : edition[q] <= edition'[q]
  <2>1. \A q \in Sources : edition'[q] = IF q = s THEN 2 ELSE edition[q]
    BY <1>1, <1>2
  <2>2. \A q \in Sources : edition[q] \in {1, 2}
    BY <1>2
  <2>3. QED
    BY <1>1, <1>2, <2>1, <2>2
<1>4. MergeTyped'
  BY <1>1, <1>3, MergeStays DEF MergeInv, MergeTyped
<1>5. MergeChoice'
  BY <1>1, ChoiceStays DEF MergeInv
<1>6. MergeOutcomes'
  BY <1>1, OutcomeStays DEF MergeInv, MergeOutcomes
<1>7. MergeEditions'
  <2>1. \A q \in Sources : hashed[q] <= edition'[q] /\ \A e \in readOf[q] : hashed[q] # 0 /\ hashed[q] <= e /\ e <= edition'[q]
    <3> SUFFICES ASSUME NEW q \in Sources
                 PROVE  hashed[q] <= edition'[q] /\ \A e \in readOf[q] : hashed[q] # 0 /\ hashed[q] <= e /\ e <= edition'[q]
      OBVIOUS
    <3>1. /\ hashed[q] \in Int /\ edition[q] \in Int /\ edition'[q] \in Int /\ edition[q] <= edition'[q]
          /\ \A e \in readOf[q] : e \in Int
      BY <1>2, <1>3
    <3>2. hashed[q] <= edition[q] /\ \A e \in readOf[q] : hashed[q] # 0 /\ hashed[q] <= e /\ e <= edition[q]
      BY DEF MergeInv, MergeEditions
    <3>3. QED
      BY <3>1, <3>2
  <2>2. QED
    BY <1>1, <2>1, MergeStays DEF MergeInv, MergeEditions
<1>8. RepairNeverFails'
  BY <1>1, MergeStays DEF MergeInv, RepairNeverFails
<1>9. QED
  BY <1>4, <1>5, <1>6, <1>7, <1>8 DEF MergeInv

\* Nothing happens.
LEMMA MergeStutters == ASSUME MergeInv, UNCHANGED mergeVars PROVE MergeInv'
BY OutputKeeps DEF mergeVars, MergeInv, MergeTyped

\* Every step of a merge keeps the invariant.
LEMMA MergeNextInv == ASSUME MergeInv, [MergeNext]_mergeVars PROVE MergeInv'
BY ResolveKeeps, InspectKeeps, HashKeeps, OpenKeeps, TensorKeeps, SavedKeeps, VerifyKeeps, CheckKeeps,
   LinkKeeps, RivalKeeps, SourceKeeps, MergeStutters DEF MergeNext

\* A merge starts with it.
LEMMA MergeInitInv == ASSUME MergeInit PROVE MergeInv
<1> USE DEF MergeInit
<1>1. IsMergeOrder(merge)
  BY MergeAssumption
<1>2. MergeTyped
  <2>1. output \in {"none", "theirs"} /\ outcome \in Seq(Outcomes) /\ Len(outcome) = 0
    OBVIOUS
  <2>2. Len(Tensors) \in Nat
    BY MergeAssumption
  <2>3. QED
    BY <1>1, <2>1, <2>2 DEF MergeTyped, BeforeMerge
<1>3. MergeChoice
  BY DEF MergeChoice, BeforeMerge
<1>4. MergeOutcomes
  BY DEF MergeOutcomes
<1>5. MergeEditions
  BY DEF MergeEditions, BeforeMerge, AfterVerify
<1>6. RepairNeverFails
  BY DEF RepairNeverFails
<1>7. QED
  BY <1>2, <1>3, <1>4, <1>5, <1>6 DEF MergeInv

\* A merge of which the invariant holds is true, in its numbers and in what it says of them.
LEMMA MergePromised == ASSUME MergeInv PROVE MergesAreTrue
<1>1. MergeTypeOK
  <2>1. Range(included) \subseteq Materials /\ DOMAIN shares.of = DOMAIN included
    <3>1. CASE included = <<>> /\ shares = [unit |-> 0, base |-> 0, of |-> <<>>]
      BY <3>1 DEF Range
    <3>2. CASE Working
      <4>1. SelectsEach /\ SharesTrue
        BY SelectedIs, SharesAre DEF MergeInv, MergeTyped
      <4>2. QED
        BY <3>2, <4>1 DEF Working, Range, SelectsEach, SharesTrue
    <3>3. QED
      BY <3>1, <3>2 DEF MergeInv, MergeChoice
  <2>2. \A k \in DOMAIN outcome : outcome[k].at \in [Coordinates -> Int]
    <3>1. \A k \in DOMAIN outcome : outcome[k] \in Outcomes
      BY DEF MergeInv, MergeTyped
    <3>2. QED
      BY <3>1 DEF Outcomes
  <2>3. QED
    BY <2>1, <2>2 DEF MergeTypeOK, MergeInv, MergeTyped, BeforeMerge, AfterVerify
<1>2. RepairNeverFails
  BY DEF MergeInv
<1>3. ReportOfItsSources
  BY DEF ReportOfItsSources, MergeInv, MergeEditions, AfterVerify
<1>4. MergeReplacesNothing
  BY DEF MergeReplacesNothing, MergeInv, MergeTyped
<1>5. ResultIsTrue
  <2> DEFINE Same(k) == /\ Broken(merge.base[Tensors[k]].at) = {}
                        /\ outcome[k].at = Scaled1(merge.base[Tensors[k]].at)
             W == {k \in DOMAIN outcome : outcome[k].changed}
  <2>1. ASSUME NEW k \in DOMAIN outcome
        PROVE  outcome[k].changed <=> ~Same(k)
    <3>1. outcome[k].at \in [Coordinates -> Int]
      <4>1. outcome[k] \in Outcomes
        BY DEF MergeInv, MergeTyped
      <4>2. QED
        BY <4>1 DEF Outcomes
    <3>2. outcome[k].changed <=> Differs(Tensors[k], outcome[k].at)
      BY DEF MergeInv, MergeOutcomes, OutcomeTrue
    <3>3. Same(k) <=> \A c \in Coordinates : /\ merge.base[Tensors[k]].at[c] # NaN
                                             /\ outcome[k].at[c] = merge.base[Tensors[k]].at[c] * shares.unit
      BY <3>1 DEF Broken, Scaled1
    <3>4. QED
      BY <3>2, <3>3 DEF Differs
  <2>2. IsFiniteSet(W)
    <3>1. DOMAIN outcome = 1..Len(outcome) /\ Len(outcome) \in Nat
      BY DEF MergeInv, MergeTyped
    <3>2. IsFiniteSet(DOMAIN outcome)
      BY <3>1, FirstNumbers
    <3>3. QED
      BY <3>2, FS_Subset
  <2>3. Cardinality(W) = 0 <=> W = {}
    BY <2>2, FS_EmptySet
  <2>4. W = {} <=> \A k \in DOMAIN outcome : Same(k)
    BY <2>1
  <2>5. Count(LAMBDA k : outcome[k].changed) = Cardinality(W)
    BY DEF Count
  <2>6. QED
    BY <2>3, <2>4, <2>5 DEF ResultIsTrue
<1>6. EachMovesTheBase
  BY DEF EachMovesTheBase, MergeInv, MergeOutcomes, OutcomeTrue, MovesOf
<1>7. QED
  BY <1>1, <1>2, <1>3, <1>4, <1>5, <1>6 DEF MergesAreTrue, MergeIsTrue

\* For any requests, of any number of materials and tensors, any coefficients and numbers, and
\* whatever is replaced or published meanwhile: a merge is true in its numbers and in what it
\* says of them (model_merge.py:280-540, model_merge_options.py:184-211).
THEOREM MergesTrue == MergeSpec => []MergesAreTrue
BY MergeInitInv, MergeNextInv, MergePromised, PTL DEF MergeSpec

-----------------------------------------------------------------------------
(* Projection *)

\* What Product() computes: an element is taken off, by choice, and the product of the rest taken.
IsProduct(f, S, g) ==
    /\ g[{}] = 1
    /\ \A T \in SUBSET S : T # {} => g[T] = f[One(T)] * g[T \ {One(T)}]

\* A family of subsets of a finite set that has the empty one and each one it has all but the
\* chosen element of, has the set itself.
LEMMA ChosenInduction ==
    ASSUME NEW S, IsFiniteSet(S), NEW P \in SUBSET (SUBSET S), {} \in P,
           \A T \in SUBSET S : T # {} /\ T \ {One(T)} \in P => T \in P
    PROVE  S \in P
<1> DEFINE N == {n \in Nat : \A T \in SUBSET S : Cardinality(T) = n => T \in P}
<1>1. \A T \in SUBSET S : IsFiniteSet(T) /\ Cardinality(T) \in Nat
  BY FS_Subset, FS_CardinalityType
<1>2. 0 \in N
  <2>1. \A T \in SUBSET S : Cardinality(T) = 0 => T = {}
    BY <1>1, FS_EmptySet
  <2>2. QED
    BY <2>1
<1>3. ASSUME NEW n \in N
      PROVE  n + 1 \in N
  <2>1. n \in Nat /\ n + 1 \in Nat /\ n + 1 # 0
    OBVIOUS
  <2>2. ASSUME NEW T \in SUBSET S, Cardinality(T) = n + 1
        PROVE  T \in P
    <3>1. T # {}
      <4>1. Cardinality({}) = 0
        BY FS_EmptySet
      <4>2. QED
        BY <2>1, <2>2, <4>1
    <3>2. One(T) \in T
      BY <3>1, OneIs
    <3>3. Cardinality(T \ {One(T)}) = Cardinality(T) - 1
      BY <1>1, <3>2, FS_RemoveElement
    <3>4. Cardinality(T \ {One(T)}) = n /\ T \ {One(T)} \in SUBSET S
      BY <2>1, <2>2, <3>3
    <3>5. T \ {One(T)} \in P
      BY <3>4
    <3>6. QED
      BY <3>1, <3>5
  <2>3. QED
    BY <2>1, <2>2
<1>4. N = Nat
  <2>1. N \in SUBSET Nat
    OBVIOUS
  <2> HIDE DEF N
  <2>2. QED
    BY <1>2, <1>3, <2>1, SetInduction
<1>5. Cardinality(S) \in N
  BY <1>1, <1>4
<1>6. QED
  BY <1>5

\* The recursion of the fold has a solution on the subsets of a finite domain, and the product is
\* its value.
LEMMA ProductRec ==
    ASSUME NEW f, NEW S, S = DOMAIN f, IsFiniteSet(S)
    PROVE  \E g : IsProduct(f, S, g) /\ Product(f) = g[S]
<1> DEFINE Upto(n) == {T \in SUBSET S : Cardinality(T) <= n}
           Next1(g, T) == IF T = {} THEN 1 ELSE f[One(T)] * g[T \ {One(T)}]
           Solved(g, F) == g = [T \in F |-> Next1(g, T)]
           N == {n \in Nat : \E g : Solved(g, Upto(n))}
<1>1. Product(f) = (CHOOSE g : Solved(g, SUBSET S))[S]
  BY DEF Product, FoldFunctionOnSet, MapThenFoldSet, One
<1>2. \A T \in SUBSET S : IsFiniteSet(T) /\ Cardinality(T) \in Nat
  BY FS_Subset, FS_CardinalityType
<1>3. 0 \in N
  <2>1. \A T \in Upto(0) : T = {}
    BY <1>2, FS_EmptySet
  <2>2. PICK h : h = [T \in Upto(0) |-> 1]
    OBVIOUS
  <2>3. [T \in Upto(0) |-> 1] = [T \in Upto(0) |-> Next1(h, T)]
    BY <2>1
  <2>4. Solved(h, Upto(0))
    BY <2>2, <2>3
  <2>5. \E g : Solved(g, Upto(0))
    BY <2>4, Zenon
  <2>6. QED
    BY <2>5
<1>4. ASSUME NEW n \in N
      PROVE  n + 1 \in N
  <2>1. PICK g : Solved(g, Upto(n))
    OBVIOUS
  <2>2. PICK h : h = [T \in Upto(n + 1) |-> Next1(g, T)]
    OBVIOUS
  <2>3. n \in Nat /\ \A T \in Upto(n) : T \in Upto(n + 1)
    <3>1. n \in Nat
      OBVIOUS
    <3>2. QED
      BY <1>2, <3>1
  <2>4. \A T \in Upto(n) : g[T] = Next1(g, T)
    <3>1. PICK k : k = [T \in Upto(n) |-> Next1(g, T)]
      OBVIOUS
    <3>2. \A T \in Upto(n) : k[T] = Next1(g, T)
      BY <3>1, Zenon
    <3>3. g = k
      BY <2>1, <3>1, Zenon
    <3>4. QED
      BY <3>2, <3>3, Zenon
  <2>5. \A T \in Upto(n + 1) : h[T] = Next1(g, T)
    BY <2>2, Zenon
  <2>6. \A T \in Upto(n) : h[T] = g[T]
    BY <2>3, <2>4, <2>5, Zenon
  <2>7. ASSUME NEW T \in Upto(n + 1), T # {}
        PROVE  T \ {One(T)} \in Upto(n)
    <3>1. One(T) \in T /\ IsFiniteSet(T)
      BY <1>2, <2>7, OneIs
    <3>2. Cardinality(T \ {One(T)}) = Cardinality(T) - 1
      BY <3>1, FS_RemoveElement
    <3>3. T \ {One(T)} \in SUBSET S /\ Cardinality(T) \in Nat /\ Cardinality(T) <= n + 1
      BY <1>2
    <3>4. QED
      BY <2>3, <3>2, <3>3
  <2>8. \A T \in Upto(n + 1) : Next1(g, T) = Next1(h, T)
    BY <2>6, <2>7
  <2>9. [T \in Upto(n + 1) |-> Next1(g, T)] = [T \in Upto(n + 1) |-> Next1(h, T)]
    BY <2>8, Zenon
  <2>10. Solved(h, Upto(n + 1))
    BY <2>2, <2>9, Zenon
  <2>11. \E w : Solved(w, Upto(n + 1))
    BY <2>10, Zenon
  <2>12. n + 1 \in Nat
    BY <2>3
  <2>13. QED
    BY <2>11, <2>12, Zenon
<1>5. N = Nat
  <2>1. N \in SUBSET Nat
    OBVIOUS
  <2> HIDE DEF N
  <2>2. QED
    BY <1>3, <1>4, <2>1, SetInduction
<1>6. \E g : Solved(g, SUBSET S)
  <2>1. Cardinality(S) \in N
    BY <1>2, <1>5
  <2>2. \A T \in SUBSET S : Cardinality(T) <= Cardinality(S)
    BY FS_Subset
  <2>3. Upto(Cardinality(S)) = SUBSET S
    BY <2>2
  <2>4. \E g : Solved(g, Upto(Cardinality(S)))
    BY <2>1
  <2> HIDE DEF Upto, Solved
  <2>5. QED
    BY <2>3, <2>4
<1>7. PICK g : g = CHOOSE w : Solved(w, SUBSET S)
  OBVIOUS
<1>8. Solved(g, SUBSET S)
  BY <1>6, <1>7, Zenon
<1>9. \A T \in SUBSET S : g[T] = Next1(g, T)
  <2>1. PICK k : k = [T \in SUBSET S |-> Next1(g, T)]
    OBVIOUS
  <2>2. \A T \in SUBSET S : k[T] = Next1(g, T)
    BY <2>1, Zenon
  <2>3. g = k
    BY <1>8, <2>1, Zenon
  <2>4. QED
    BY <2>2, <2>3, Zenon
<1>10. IsProduct(f, S, g)
  BY <1>9 DEF IsProduct
<1>11. QED
  BY <1>1, <1>7, <1>10

\* Products of positive numbers are in the order of their factors.
LEMMA TimesOrder ==
    ASSUME NEW a \in Nat \ {0}, NEW b \in Nat \ {0}, NEW c \in Nat \ {0}, NEW d \in Nat \ {0}, a <= c, b <= d
    PROVE  a * b \in Nat \ {0} /\ c * d \in Nat \ {0} /\ a * b <= c * d
<1>1. a * b <= c * b
  OBVIOUS
<1>2. c * b <= c * d
  OBVIOUS
<1>3. QED
  BY <1>1, <1>2

\* A product of positive numbers is one, and of two the one with the smaller factors is smaller.
LEMMA ProductOrder ==
    ASSUME NEW S, IsFiniteSet(S), NEW f \in [S -> Nat \ {0}], NEW h \in [S -> Nat \ {0}],
           \A x \in S : f[x] <= h[x]
    PROVE  Product(f) \in Nat \ {0} /\ Product(h) \in Nat \ {0} /\ Product(f) <= Product(h)
<1>1. PICK p : IsProduct(f, S, p) /\ Product(f) = p[S]
  BY ProductRec
<1>2. PICK q : IsProduct(h, S, q) /\ Product(h) = q[S]
  BY ProductRec
<1> DEFINE P == {T \in SUBSET S : p[T] \in Nat \ {0} /\ q[T] \in Nat \ {0} /\ p[T] <= q[T]}
<1>3. {} \in P
  BY <1>1, <1>2 DEF IsProduct
<1>4. ASSUME NEW T \in SUBSET S, T # {}, T \ {One(T)} \in P
      PROVE  T \in P
  <2>1. One(T) \in S
    BY <1>4, OneIs
  <2>2. p[T] = f[One(T)] * p[T \ {One(T)}] /\ q[T] = h[One(T)] * q[T \ {One(T)}]
    BY <1>1, <1>2, <1>4 DEF IsProduct
  <2>3. PICK a, b, c, d : a = f[One(T)] /\ b = p[T \ {One(T)}] /\ c = h[One(T)] /\ d = q[T \ {One(T)}]
    OBVIOUS
  <2>4. /\ a \in Nat \ {0} /\ b \in Nat \ {0} /\ c \in Nat \ {0} /\ d \in Nat \ {0}
        /\ a <= c /\ b <= d
    BY <1>4, <2>1, <2>3
  <2>5. a * b \in Nat \ {0} /\ c * d \in Nat \ {0} /\ a * b <= c * d
    BY <2>4, TimesOrder
  <2>6. QED
    BY <2>2, <2>3, <2>5
<1>5. S \in P
  <2>1. P \in SUBSET (SUBSET S)
    OBVIOUS
  <2> HIDE DEF P
  <2>2. QED
    BY <1>3, <1>4, <2>1, ChosenInduction
<1>6. QED
  BY <1>1, <1>2, <1>5

\* A fraction that is not negative.
IsFraction(p) == p[1] \in Nat /\ p[2] \in Nat \ {0}

\* A positive factor on both sides of an inequality may be left out.
LEMMA LeaveOut ==
    ASSUME NEW x \in Int, NEW y \in Int, NEW d \in Nat \ {0}
    PROVE  (x * d < y * d <=> x < y) /\ (x * d <= y * d <=> x <= y)
<1>1. x < y => x * d < y * d
  OBVIOUS
<1>2. y < x => y * d < x * d
  OBVIOUS
<1>3. x * d \in Int /\ y * d \in Int
  OBVIOUS
<1>4. QED
  BY <1>1, <1>2, <1>3

\* Fractions are compared across.
LEMMA Across ==
    ASSUME NEW a \in Nat, NEW c \in Nat, NEW e \in Nat,
           NEW b \in Nat \ {0}, NEW d \in Nat \ {0}, NEW f \in Nat \ {0}
    PROVE  /\ a * d < c * b /\ c * f <= e * d => a * f < e * b
           /\ a * d <= c * b /\ c * f < e * d => a * f < e * b
           /\ a * d <= c * b /\ c * f <= e * d => a * f <= e * b
<1> DEFINE ad == a * d  cb == c * b  cf == c * f  ed == e * d  af == a * f  eb == e * b
<1>1. ad \in Nat /\ cb \in Nat /\ cf \in Nat /\ ed \in Nat /\ af \in Nat /\ eb \in Nat
  OBVIOUS
<1>2. ad * f = af * d /\ cb * f = cf * b /\ ed * b = eb * d
  OBVIOUS
<1> HIDE DEF ad, cb, cf, ed, af, eb
<1>3. /\ ad * f < cb * f <=> ad < cb
      /\ ad * f <= cb * f <=> ad <= cb
      /\ cf * b < ed * b <=> cf < ed
      /\ cf * b <= ed * b <=> cf <= ed
      /\ af * d < eb * d <=> af < eb
      /\ af * d <= eb * d <=> af <= eb
  BY <1>1, LeaveOut
<1>4. /\ ad * f \in Int /\ cb * f \in Int /\ cf * b \in Int /\ ed * b \in Int /\ af * d \in Int /\ eb * d \in Int
  BY <1>1
<1>5. /\ ad < cb /\ cf <= ed => af < eb
      /\ ad <= cb /\ cf < ed => af < eb
      /\ ad <= cb /\ cf <= ed => af <= eb
  BY <1>2, <1>3, <1>4
<1>6. QED
  BY <1>5 DEF ad, cb, cf, ed, af, eb

\* Fractions are in order.
LEMMA SmallerOrder ==
    ASSUME NEW p, NEW q, NEW r, IsFraction(p), IsFraction(q), IsFraction(r)
    PROVE  /\ Smaller(p, q) => ~Smaller(q, p)
           /\ Smaller(p, q) /\ ~Smaller(r, q) => Smaller(p, r)
           /\ ~Smaller(q, p) /\ Smaller(q, r) => Smaller(p, r)
           /\ ~Smaller(q, p) /\ ~Smaller(r, q) => ~Smaller(r, p)
<1>1. PICK a, b, c, d, e, f : a = p[1] /\ b = p[2] /\ c = q[1] /\ d = q[2] /\ e = r[1] /\ f = r[2]
  OBVIOUS
<1>2. /\ a \in Nat /\ c \in Nat /\ e \in Nat
      /\ b \in Nat \ {0} /\ d \in Nat \ {0} /\ f \in Nat \ {0}
  BY <1>1 DEF IsFraction
<1>3. /\ a * d < c * b /\ c * f <= e * d => a * f < e * b
      /\ a * d <= c * b /\ c * f < e * d => a * f < e * b
      /\ a * d <= c * b /\ c * f <= e * d => a * f <= e * b
  BY <1>2, Across
<1>4. PICK ad, cb, cf, ed, af, eb : ad = a * d /\ cb = c * b /\ cf = c * f /\ ed = e * d /\ af = a * f /\ eb = e * b
  OBVIOUS
<1>5. ad \in Nat /\ cb \in Nat /\ cf \in Nat /\ ed \in Nat /\ af \in Nat /\ eb \in Nat
  BY <1>2, <1>4
<1>6. /\ Smaller(p, q) <=> ad < cb
      /\ Smaller(q, p) <=> cb < ad
      /\ Smaller(q, r) <=> cf < ed
      /\ Smaller(r, q) <=> ed < cf
      /\ Smaller(p, r) <=> af < eb
      /\ Smaller(r, p) <=> eb < af
  BY <1>1, <1>4 DEF Smaller
<1>7. /\ ad < cb /\ cf <= ed => af < eb
      /\ ad <= cb /\ cf < ed => af < eb
      /\ ad <= cb /\ cf <= ed => af <= eb
  BY <1>3, <1>4
<1>8. QED
  BY <1>5, <1>6, <1>7

\* A key of a candidate: n fractions, of which the last is its place.
IsKey(p, n, x) == DOMAIN p = 1..n /\ (\A m \in 1..n : IsFraction(p[m])) /\ p[n] = <<x, 1>>

\* The keys of two candidates are in one order or in the other.
LEMMA NearerTotal ==
    ASSUME NEW n \in Nat \ {0}, NEW x \in Nat, NEW y \in Nat, x # y, NEW p, NEW q, IsKey(p, n, x), IsKey(q, n, y)
    PROVE  Nearer(p, q) \/ Nearer(q, p)
<1> DEFINE D == {m \in 1..n : Smaller(p[m], q[m]) \/ Smaller(q[m], p[m])}
<1>1. n \in D
  <2>1. p[n] = <<x, 1>> /\ q[n] = <<y, 1>> /\ n \in 1..n
    BY DEF IsKey
  <2>2. x < y \/ y < x
    OBVIOUS
  <2>3. Smaller(p[n], q[n]) \/ Smaller(q[n], p[n])
    BY <2>1, <2>2 DEF Smaller
  <2>4. QED
    BY <2>1, <2>3
<1>2. D \in SUBSET Nat
  OBVIOUS
<1>3. PICK m \in D : \A k \in D : m <= k
  <2> HIDE DEF D
  <2>1. QED
    BY <1>1, <1>2, LeastNatural
<1>4. \A k \in 1..(m - 1) : k \notin D /\ k \in 1..n
  BY <1>2, <1>3
<1>5. \A k \in 1..(m - 1) : ~Smaller(p[k], q[k]) /\ ~Smaller(q[k], p[k])
  BY <1>4
<1>6. m \in DOMAIN p /\ m \in DOMAIN q /\ (Smaller(p[m], q[m]) \/ Smaller(q[m], p[m]))
  BY <1>3 DEF IsKey
<1>7. QED
  BY <1>5, <1>6 DEF Nearer

\* The order of keys is transitive.
LEMMA NearerTransitive ==
    ASSUME NEW n \in Nat \ {0}, NEW x, NEW y, NEW z, NEW p, NEW q, NEW r,
           IsKey(p, n, x), IsKey(q, n, y), IsKey(r, n, z), Nearer(p, q), Nearer(q, r)
    PROVE  Nearer(p, r)
<1>1. PICK k \in 1..n : Smaller(p[k], q[k]) /\ \A j \in 1..(k - 1) : ~Smaller(q[j], p[j])
  BY DEF Nearer, IsKey
<1>2. PICK l \in 1..n : Smaller(q[l], r[l]) /\ \A j \in 1..(l - 1) : ~Smaller(r[j], q[j])
  BY DEF Nearer, IsKey
<1>3. \A m \in 1..n :
        /\ Smaller(p[m], q[m]) => ~Smaller(q[m], p[m])
        /\ Smaller(q[m], r[m]) => ~Smaller(r[m], q[m])
        /\ Smaller(p[m], q[m]) /\ ~Smaller(r[m], q[m]) => Smaller(p[m], r[m])
        /\ ~Smaller(q[m], p[m]) /\ Smaller(q[m], r[m]) => Smaller(p[m], r[m])
        /\ ~Smaller(q[m], p[m]) /\ ~Smaller(r[m], q[m]) => ~Smaller(r[m], p[m])
  <2> TAKE m \in 1..n
  <2>1. IsFraction(p[m]) /\ IsFraction(q[m]) /\ IsFraction(r[m])
    BY DEF IsKey
  <2>2. QED
    BY <2>1, SmallerOrder
<1>4. PICK m \in 1..n : m = IF k < l THEN k ELSE l
  OBVIOUS
<1>5. m <= k /\ m <= l /\ (m = k \/ m = l)
  BY <1>4
<1>6. \A j \in 1..(m - 1) : j \in 1..n /\ j \in 1..(k - 1) /\ j \in 1..(l - 1)
  BY <1>5
<1>7. \A j \in 1..(m - 1) : ~Smaller(r[j], p[j])
  BY <1>1, <1>2, <1>3, <1>6
<1>8. Smaller(p[m], r[m])
  <2>1. CASE k < l
    <3>1. m = k /\ k \in 1..(l - 1)
      BY <1>4, <2>1
    <3>2. QED
      BY <1>1, <1>2, <1>3, <3>1
  <2>2. CASE k = l
    BY <1>1, <1>2, <1>3, <1>4, <2>2
  <2>3. CASE l < k
    <3>1. m = l /\ l \in 1..(k - 1)
      BY <1>4, <2>3
    <3>2. QED
      BY <1>1, <1>2, <1>3, <3>1
  <2>4. QED
    BY <2>1, <2>2, <2>3
<1>9. m \in DOMAIN p
  BY DEF IsKey
<1>10. QED
  BY <1>7, <1>8, <1>9 DEF Nearer

\* Of candidates, if there are any, there is a nearest one.
LEMMA NearestIs ==
    ASSUME NEW S \in SUBSET Nat, IsFiniteSet(S), S # {}, NEW n \in Nat \ {0}, NEW key,
           \A x \in S : IsKey(key[x], n, x)
    PROVE  /\ Nearest(S, key) \in S
           /\ \A y \in S \ {Nearest(S, key)} : Nearer(key[Nearest(S, key)], key[y])
<1> DEFINE Least(T, x) == x \in T /\ \A y \in T \ {x} : Nearer(key[x], key[y])
           P == {T \in SUBSET S : T = {} \/ \E x \in T : Least(T, x)}
<1>1. {} \in P
  OBVIOUS
<1>2. ASSUME NEW T \in P, NEW z \in S \ T
      PROVE  T \cup {z} \in P
  <2>1. CASE T = {}
    <3>1. Least(T \cup {z}, z)
      BY <2>1
    <3>2. QED
      BY <3>1
  <2>2. CASE T # {}
    <3>1. PICK x \in T : Least(T, x)
      BY <2>2
    <3>2. x \in S /\ z \in S /\ x # z /\ x \in Nat /\ z \in Nat
      BY <3>1
    <3>3. Nearer(key[x], key[z]) \/ Nearer(key[z], key[x])
      BY <3>2, NearerTotal
    <3>4. CASE Nearer(key[x], key[z])
      <4>1. Least(T \cup {z}, x)
        BY <3>1, <3>4
      <4>2. QED
        BY <3>1, <4>1
    <3>5. CASE Nearer(key[z], key[x])
      <4>1. ASSUME NEW y \in T
            PROVE  Nearer(key[z], key[y])
        <5>1. CASE y = x
          BY <3>5, <5>1
        <5>2. CASE y # x
          <6>1. Nearer(key[x], key[y]) /\ y \in S
            BY <3>1, <5>2
          <6>2. IsKey(key[x], n, x) /\ IsKey(key[y], n, y) /\ IsKey(key[z], n, z)
            BY <3>2, <6>1
          <6>3. QED
            BY <3>5, <6>1, <6>2, NearerTransitive
        <5>3. QED
          BY <5>1, <5>2
      <4>2. Least(T \cup {z}, z)
        BY <4>1
      <4>3. QED
        BY <4>2
    <3>6. QED
      BY <3>3, <3>4, <3>5
  <2>3. QED
    BY <2>1, <2>2
<1>3. S \in P
  <2>1. P \in SUBSET (SUBSET S)
    OBVIOUS
  <2> HIDE DEF P
  <2>2. QED
    BY <1>1, <1>2, <2>1, FiniteInduction
<1>4. PICK w : w = Nearest(S, key)
  OBVIOUS
<1>5. w = CHOOSE x \in S : \A y \in S \ {x} : Nearer(key[x], key[y])
  BY <1>4 DEF Nearest
<1>6. w \in S /\ \A y \in S \ {w} : Nearer(key[w], key[y])
  BY <1>3, <1>5
<1>7. QED
  BY <1>4, <1>6

\* The depths of the blocks of a tensor that is learned: its own is one, and its place is its rank.
LEMMA DepthIs ==
    ASSUME NEW layout, IsLayout(layout), NEW k \in Learned(layout)
    PROVE  LET B == Blocks(layout, layout[k])  c == Cardinality(B)
           IN /\ B \in SUBSET Nat /\ IsFiniteSet(B) /\ layout[k].depth \in B
              /\ c \in Nat \ {0}
              /\ RankIn(B, layout[k].depth) \in 0..c - 1
              /\ Depth(layout, k) = <<RankIn(B, layout[k].depth), IF c > 1 THEN c - 1 ELSE 1>>
              /\ IsFraction(Depth(layout, k))
<1> DEFINE J == {i \in Learned(layout) : SameRole(layout[i], layout[k]) /\ layout[i].component = layout[k].component}
<1>1. PICK B, c : B = Blocks(layout, layout[k]) /\ c = Cardinality(B)
  OBVIOUS
<1>2. J \subseteq 1..Len(layout) /\ Len(layout) \in Nat
  BY DEF IsLayout, Learned
<1>3. IsFiniteSet(J)
  BY <1>2, FirstNumbers, FS_Subset
<1>4. B = {layout[j].depth : j \in J}
  BY <1>1 DEF Blocks
<1>5. IsFiniteSet(B)
  <2> DEFINE f == [j \in J |-> layout[j].depth]
  <2>1. f \in Surjection(J, B)
    BY <1>4 DEF Surjection
  <2> HIDE DEF J, f
  <2>2. QED
    BY <1>3, <2>1, FS_Surjection
<1>6. B \in SUBSET Nat
  BY <1>4 DEF Learned, IsLayout
<1>7. layout[k].depth \in B
  <2>1. k \in J
    BY DEF SameRole
  <2>2. QED
    BY <1>4, <2>1
<1>8. RankIn(B, layout[k].depth) \in 0..c - 1 /\ c \in Nat
  <2>1. B \in SUBSET Int
    BY <1>6
  <2>2. QED
    BY <1>1, <1>5, <1>7, <2>1, Ranks
<1>9. Max({c - 1, 1}) = IF c > 1 THEN c - 1 ELSE 1
  <2>1. PICK m : m = IF c > 1 THEN c - 1 ELSE 1
    OBVIOUS
  <2>2. m \in {c - 1, 1} /\ \A y \in {c - 1, 1} : y <= m
    BY <1>8, <2>1
  <2>3. \A x \in {c - 1, 1} : (\A y \in {c - 1, 1} : y <= x) => x = m
    BY <1>8, <2>1
  <2>4. QED
    BY <2>1, <2>2, <2>3 DEF Max
<1>10. Depth(layout, k) = <<RankIn(B, layout[k].depth), IF c > 1 THEN c - 1 ELSE 1>>
  BY <1>1, <1>9 DEF Depth, RankIn
<1>11. c # 0 /\ IsFraction(Depth(layout, k))
  BY <1>8, <1>10 DEF IsFraction
<1>12. QED
  BY <1>1, <1>5, <1>6, <1>7, <1>8, <1>10, <1>11

\* What two fractions are apart is a fraction.
LEMMA ApartIs ==
    ASSUME NEW p, NEW q, IsFraction(p), IsFraction(q)
    PROVE  IsFraction(Apart(p, q))
<1>1. PICK a, b, c, d : a = p[1] /\ b = p[2] /\ c = q[1] /\ d = q[2]
  OBVIOUS
<1>2. a \in Nat /\ c \in Nat /\ b \in Nat \ {0} /\ d \in Nat \ {0}
  BY <1>1 DEF IsFraction
<1>3. a * d - c * b \in Int /\ b * d \in Nat /\ b * d # 0
  BY <1>2
<1>4. PICK n, m : n = a * d - c * b /\ m = b * d
  OBVIOUS
<1>5. (IF n < 0 THEN -n ELSE n) \in Nat /\ m \in Nat \ {0}
  BY <1>3, <1>4
<1>6. Apart(p, q) = <<IF n < 0 THEN -n ELSE n, m>>
  BY <1>1, <1>4 DEF Apart
<1>7. QED
  BY <1>5, <1>6 DEF IsFraction

\* The ratio of positive numbers is a fraction of positive numbers.
LEMMA RatioIs ==
    ASSUME NEW m \in Nat \ {0}, NEW n \in Nat \ {0}
    PROVE  Ratio(m, n)[1] \in Nat \ {0} /\ Ratio(m, n)[2] \in Nat \ {0} /\ IsFraction(Ratio(m, n))
BY DEF Ratio, IsFraction

\* The number of elements of a shape of positive sizes is positive.
LEMMA SizeIs ==
    ASSUME NEW s \in Seq(Nat \ {0})
    PROVE  Size(s) \in Nat \ {0}
<1>1. Len(s) \in Nat /\ DOMAIN s = 1..Len(s) /\ s \in [1..Len(s) -> Nat \ {0}]
  OBVIOUS
<1>2. IsFiniteSet(1..Len(s)) /\ \A a \in 1..Len(s) : s[a] <= s[a]
  BY <1>1, FirstNumbers
<1>3. Product(s) \in Nat \ {0}
  BY <1>1, <1>2, ProductOrder
<1>4. QED
  BY <1>3 DEF Size

\* How far shapes of positive sizes are apart: three fractions.
LEMMA FarIs ==
    ASSUME NEW b \in Seq(Nat \ {0}), NEW s \in Seq(Nat \ {0})
    PROVE  /\ IsFraction(ShapeDistance(b, s)[1])
           /\ IsFraction(ShapeDistance(b, s)[2])
           /\ IsFraction(ShapeDistance(b, s)[3])
<1>1. PICK l : l = Min({Len(b), Len(s)})
  OBVIOUS
<1>2. l \in Nat /\ l <= Len(b) /\ l <= Len(s)
  <2>1. PICK m : m = IF Len(b) < Len(s) THEN Len(b) ELSE Len(s)
    OBVIOUS
  <2>2. Len(b) \in Nat /\ Len(s) \in Nat
    OBVIOUS
  <2>3. m \in {Len(b), Len(s)} /\ \A y \in {Len(b), Len(s)} : m <= y
    BY <2>1, <2>2
  <2>4. \A x \in {Len(b), Len(s)} : (\A y \in {Len(b), Len(s)} : x <= y) => x = m
    BY <2>1, <2>2
  <2>5. l = m
    BY <1>1, <2>3, <2>4 DEF Min
  <2>6. QED
    BY <2>1, <2>2, <2>5
<1>3. \A a \in 1..l : b[a] \in Nat \ {0} /\ s[a] \in Nat \ {0}
  BY <1>2
<1> DEFINE R(i) == [a \in 1..l |-> Ratio(b[a], s[a])[i]]
<1>4. R(1) \in [1..l -> Nat \ {0}] /\ R(2) \in [1..l -> Nat \ {0}]
  BY <1>3, RatioIs
<1>5. IsFiniteSet(1..l)
  BY <1>2, FirstNumbers
<1>6. Product(R(1)) \in Nat \ {0} /\ Product(R(2)) \in Nat \ {0}
  <2>1. \A a \in 1..l : R(1)[a] \in Nat /\ R(2)[a] \in Nat
    BY <1>4
  <2>2. \A a \in 1..l : R(1)[a] <= R(1)[a] /\ R(2)[a] <= R(2)[a]
    BY <2>1
  <2> HIDE DEF R
  <2>3. QED
    BY <1>4, <1>5, <2>2, ProductOrder
<1>7. IsFraction(Apart(<<Len(b), 1>>, <<Len(s), 1>>))
  <2>1. IsFraction(<<Len(b), 1>>) /\ IsFraction(<<Len(s), 1>>)
    BY DEF IsFraction
  <2>2. QED
    BY <2>1, ApartIs
<1>8. IsFraction(Ratio(Size(b), Size(s)))
  BY SizeIs, RatioIs
<1>9. ShapeDistance(b, s) = <<Apart(<<Len(b), 1>>, <<Len(s), 1>>), Ratio(Size(b), Size(s)), <<Product(R(1)), Product(R(2))>>>>
  <2>1. PICK ratios : ratios = [a \in 1..l |-> Ratio(b[a], s[a])]
    OBVIOUS
  <2>2. [a \in 1..l |-> ratios[a][1]] = R(1) /\ [a \in 1..l |-> ratios[a][2]] = R(2)
    BY <2>1
  <2>3. ShapeDistance(b, s) = <<Apart(<<Len(b), 1>>, <<Len(s), 1>>), Ratio(Size(b), Size(s)),
             <<Product([a \in 1..l |-> ratios[a][1]]), Product([a \in 1..l |-> ratios[a][2]])>>>>
    BY <1>1, <2>1 DEF ShapeDistance
  <2> HIDE DEF R
  <2>4. QED
    BY <2>2, <2>3
<1>10. IsFraction(<<Product(R(1)), Product(R(2))>>)
  <2> HIDE DEF R
  <2>1. QED
    BY <1>6 DEF IsFraction
<1> HIDE DEF R
<1>11. QED
  BY <1>7, <1>8, <1>9, <1>10

\* How far a number is from zero.
Abs(x) == IF x < 0 THEN -x ELSE x

\* A factor may be taken into a distance.
LEMMA AbsTimes ==
    ASSUME NEW x \in Int, NEW l \in Nat \ {0}
    PROVE  Abs(x) \in Nat /\ Abs(x) * l = Abs(x * l)
<1>1. CASE x < 0
  <2>1. x * l < 0
    BY <1>1
  <2>2. (-x) * l = -(x * l)
    OBVIOUS
  <2>3. QED
    BY <1>1, <2>1, <2>2 DEF Abs
<1>2. CASE ~(x < 0)
  <2>1. ~(x * l < 0)
    BY <1>2
  <2>2. QED
    BY <1>2, <2>1 DEF Abs
<1>3. QED
  BY <1>1, <1>2

\* Two fractions compared by how far they are from a third one, on one scale.
LEMMA ApartCompared ==
    ASSUME NEW x \in Nat, NEW y \in Nat, NEW a \in Nat, NEW m \in Nat \ {0}, NEW l \in Nat \ {0}, NEW n \in Nat \ {0},
           ~Smaller(Apart(<<y, l>>, <<a, n>>), Apart(<<x, m>>, <<a, n>>))
    PROVE  Abs(x * n * l - a * m * l) <= Abs(y * n * m - a * m * l)
<1>1. PICK p, q : p = x * n - a * m /\ q = y * n - a * l
  OBVIOUS
<1>2. p \in Int /\ q \in Int
  BY <1>1
<1>3. Apart(<<x, m>>, <<a, n>>) = <<Abs(p), m * n>> /\ Apart(<<y, l>>, <<a, n>>) = <<Abs(q), l * n>>
  BY <1>1 DEF Apart, Abs
<1>4. ~(Abs(q) * (m * n) < Abs(p) * (l * n))
  BY <1>3 DEF Smaller
<1>5. /\ Abs(p) \in Nat /\ Abs(p) * l = Abs(p * l)
      /\ Abs(q) \in Nat /\ Abs(q) * m = Abs(q * m)
  BY <1>2, AbsTimes
<1>6. PICK u, v : u = Abs(p) /\ v = Abs(q)
  OBVIOUS
<1>7. u \in Nat /\ v \in Nat /\ u * l \in Int /\ v * m \in Int
  BY <1>5, <1>6
<1>8. v * (m * n) = (v * m) * n /\ u * (l * n) = (u * l) * n
  BY <1>7
<1>9. ~((v * m) * n < (u * l) * n)
  BY <1>4, <1>6, <1>8
<1>10. ~(v * m < u * l)
  BY <1>7, <1>9, LeaveOut
<1>11. Abs(p * l) <= Abs(q * m)
  BY <1>5, <1>6, <1>7, <1>10
<1>12. p * l = x * n * l - a * m * l /\ q * m = y * n * m - a * m * l
  <2>1. /\ (x * n - a * m) * l = x * n * l - a * m * l
        /\ (y * n - a * l) * m = y * n * m - a * l * m
        /\ a * l * m = a * m * l
    OBVIOUS
  <2>2. QED
    BY <1>1, <2>1
<1>13. QED
  BY <1>11, <1>12

\* Of two places, the one nearer to a lesser point is not the greater one.
LEMMA NearerToLesser ==
    ASSUME NEW X \in Int, NEW Y \in Int, NEW A \in Int, NEW B \in Int, A < B,
           Abs(X - A) <= Abs(Y - A), Abs(Y - B) <= Abs(X - B)
    PROVE  ~(Y < X)
BY DEF Abs

\* What is nearest to the lesser of two fractions is not greater than what is nearest to the other.
LEMMA OrderKept ==
    ASSUME NEW x \in Nat, NEW y \in Nat, NEW a \in Nat, NEW b \in Nat, a < b,
           NEW m \in Nat \ {0}, NEW l \in Nat \ {0}, NEW n \in Nat \ {0},
           ~Smaller(Apart(<<y, l>>, <<a, n>>), Apart(<<x, m>>, <<a, n>>)),
           ~Smaller(Apart(<<x, m>>, <<b, n>>), Apart(<<y, l>>, <<b, n>>))
    PROVE  ~Smaller(<<y, l>>, <<x, m>>)
<1>1. PICK X, Y, A, B : X = x * n * l /\ Y = y * n * m /\ A = a * m * l /\ B = b * m * l
  OBVIOUS
<1>2. X \in Int /\ Y \in Int /\ A \in Int /\ B \in Int
  BY <1>1
<1>3. Abs(X - A) <= Abs(Y - A)
  BY <1>1, ApartCompared
<1>4. Abs(Y - B) <= Abs(X - B)
  <2>1. Abs(y * n * m - b * l * m) <= Abs(x * n * l - b * l * m)
    BY ApartCompared
  <2>2. b * l * m = b * m * l
    OBVIOUS
  <2>3. QED
    BY <1>1, <2>1, <2>2
<1>5. A < B
  <2>1. PICK d : d = m * l
    OBVIOUS
  <2>2. d \in Nat \ {0} /\ a * m * l = a * d /\ b * m * l = b * d
    BY <2>1
  <2>3. a * d < b * d
    BY <2>2, LeaveOut
  <2>4. QED
    BY <1>1, <2>2, <2>3
<1>6. ~(Y < X)
  BY <1>2, <1>3, <1>4, <1>5, NearerToLesser
<1>7. (y * m) * n = Y /\ (x * l) * n = X /\ y * m \in Int /\ x * l \in Int
  <2>1. (y * m) * n = y * n * m /\ (x * l) * n = x * n * l
    OBVIOUS
  <2>2. QED
    BY <1>1, <2>1
<1>8. ~(y * m < x * l)
  BY <1>6, <1>7, LeaveOut
<1>9. QED
  BY <1>8 DEF Smaller

\* Of pairings as the program has them, learned tensors have positive sizes.
LEMMA LearnedIs ==
    ASSUME IsPairing(pairing)
    PROVE  /\ Candidates \in SUBSET Nat /\ IsFiniteSet(Candidates) /\ NoSource \notin Candidates
           /\ Candidates = Learned(pairing.source) /\ Candidates \subseteq DOMAIN pairing.source
           /\ Learned(pairing.base) \subseteq DOMAIN pairing.base
           /\ \A j \in Candidates : pairing.source[j].shape \in Seq(Nat \ {0})
           /\ \A k \in Learned(pairing.base) : pairing.base[k].shape \in Seq(Nat \ {0})
<1>1. IsLayout(pairing.base) /\ IsLayout(pairing.source)
  BY DEF IsPairing
<1>2. Candidates = Learned(pairing.source)
  BY DEF Candidates
<1>3. Candidates \subseteq 1..Len(pairing.source) /\ Len(pairing.source) \in Nat
  BY <1>1, <1>2 DEF IsLayout, Learned
<1>4. IsFiniteSet(Candidates)
  BY <1>3, FirstNumbers, FS_Subset
<1>5. /\ \A j \in Candidates : pairing.source[j].shape \in Seq(Nat \ {0})
      /\ \A k \in Learned(pairing.base) : pairing.base[k].shape \in Seq(Nat \ {0})
  BY <1>1, <1>2 DEF IsLayout, Learned
<1>6. QED
  BY <1>2, <1>3, <1>4, <1>5 DEF NoSource, Learned

\* Where there are candidates by depth, the one that is taken is one, and none has a nearer depth.
LEMMA ByDepthIs ==
    ASSUME IsPairing(pairing), NEW k \in Learned(pairing.base), NEW S \in SUBSET Candidates, S # {}
    PROVE  /\ ByDepth(k, S) \in S
           /\ \A y \in S : ~Smaller(Apart(Depth(pairing.source, y), Depth(pairing.base, k)),
                                    Apart(Depth(pairing.source, ByDepth(k, S)), Depth(pairing.base, k)))
<1> DEFINE far(j) == ShapeDistance(pairing.base[k].shape, pairing.source[j].shape)
           near(j) == Apart(Depth(pairing.source, j), Depth(pairing.base, k))
           key == [j \in S |-> <<near(j), far(j)[1], far(j)[2], far(j)[3], <<j, 1>>>>]
<1>1. ByDepth(k, S) = Nearest(S, key)
  BY DEF ByDepth
<1>2. ASSUME NEW j \in S
      PROVE  IsFraction(near(j)) /\ IsFraction(far(j)[1]) /\ IsFraction(far(j)[2]) /\ IsFraction(far(j)[3])
  <2>1. IsFraction(Depth(pairing.source, j)) /\ IsFraction(Depth(pairing.base, k))
    <3>1. j \in Learned(pairing.source) /\ IsLayout(pairing.source) /\ IsLayout(pairing.base)
      BY LearnedIs DEF IsPairing
    <3>2. QED
      BY <3>1, DepthIs
  <2>2. pairing.base[k].shape \in Seq(Nat \ {0}) /\ pairing.source[j].shape \in Seq(Nat \ {0})
    BY LearnedIs
  <2>3. QED
    BY <2>1, <2>2, ApartIs, FarIs
<1>3. S \in SUBSET Nat /\ IsFiniteSet(S)
  BY LearnedIs, FS_Subset
<1>4. \A j \in S : key[j] = <<near(j), far(j)[1], far(j)[2], far(j)[3], <<j, 1>>>>
  OBVIOUS
<1> HIDE DEF far, near, key
<1>5. ASSUME NEW j \in S
      PROVE  IsKey(key[j], 5, j)
  <2>1. PICK f1, f2, f3, f4 : f1 = near(j) /\ f2 = far(j)[1] /\ f3 = far(j)[2] /\ f4 = far(j)[3]
    OBVIOUS
  <2>2. IsFraction(f1) /\ IsFraction(f2) /\ IsFraction(f3) /\ IsFraction(f4) /\ IsFraction(<<j, 1>>)
    BY <1>2, <1>3, <2>1 DEF IsFraction
  <2>3. PICK p : p = key[j]
    OBVIOUS
  <2>4. p = <<f1, f2, f3, f4, <<j, 1>>>>
    BY <1>4, <2>1, <2>3
  <2>5. DOMAIN p = 1..5 /\ p[1] = f1 /\ p[2] = f2 /\ p[3] = f3 /\ p[4] = f4 /\ p[5] = <<j, 1>>
    BY <2>4
  <2>6. \A m \in 1..5 : m = 1 \/ m = 2 \/ m = 3 \/ m = 4 \/ m = 5
    OBVIOUS
  <2>7. QED
    BY <2>2, <2>3, <2>5, <2>6 DEF IsKey
<1>6. PICK w : w = Nearest(S, key)
  OBVIOUS
<1>7. w \in S /\ \A y \in S \ {w} : Nearer(key[w], key[y])
  <2>1. 5 \in Nat \ {0}
    OBVIOUS
  <2>2. QED
    BY <1>3, <1>5, <1>6, <2>1, NearestIs
<1>8. ASSUME NEW y \in S
      PROVE  ~Smaller(near(y), near(w))
  <2>1. IsFraction(near(y)) /\ IsFraction(near(w))
    BY <1>2, <1>7
  <2>2. CASE y = w
    <3>1. ~Smaller(near(w), near(w))
      BY <2>1, SmallerOrder
    <3>2. QED
      BY <2>2, <3>1
  <2>3. CASE y # w
    <3>1. PICK n \in DOMAIN key[w] : Smaller(key[w][n], key[y][n]) /\ \A m \in 1..(n - 1) : ~Smaller(key[y][m], key[w][m])
      BY <1>7, <2>3 DEF Nearer
    <3>2. n \in 1..5
      BY <1>5, <1>7, <3>1 DEF IsKey
    <3>3. key[w][1] = near(w) /\ key[y][1] = near(y)
      BY <1>4, <1>7
    <3>4. CASE n = 1
      BY <2>1, <3>1, <3>3, <3>4, SmallerOrder
    <3>5. CASE n # 1
      <4>1. 1 \in 1..(n - 1)
        BY <3>2, <3>5
      <4>2. QED
        BY <3>1, <3>3, <4>1
    <3>6. QED
      BY <3>4, <3>5
  <2>4. QED
    BY <2>2, <2>3
<1>9. QED
  BY <1>1, <1>6, <1>7, <1>8 DEF near

\* What is forced is a candidate.
LEMMA ByForceIs ==
    ASSUME IsPairing(pairing), NEW k \in Learned(pairing.base), Candidates # {}
    PROVE  ByForce(k, Candidates) \in Candidates
<1> DEFINE far(j) == ShapeDistance(pairing.base[k].shape, pairing.source[j].shape)
           flag(j, n) == CASE n = 1 -> Flag(pairing.source[j].component # pairing.base[k].component)
                           [] n = 2 -> Flag(pairing.source[j].group # pairing.base[k].group)
                           [] n = 3 -> Flag(pairing.source[j].role # pairing.base[k].role)
                           [] OTHER -> Flag(pairing.source[j].kind # pairing.base[k].kind)
           key == [j \in Candidates |-> <<flag(j, 1), flag(j, 2), flag(j, 3), flag(j, 4),
                                          far(j)[1], far(j)[2], far(j)[3], <<j, 1>>>>]
<1>1. ByForce(k, Candidates) = Nearest(Candidates, key)
  BY DEF ByForce
<1>2. ASSUME NEW j \in Candidates
      PROVE  /\ IsFraction(flag(j, 1)) /\ IsFraction(flag(j, 2)) /\ IsFraction(flag(j, 3)) /\ IsFraction(flag(j, 4))
             /\ IsFraction(far(j)[1]) /\ IsFraction(far(j)[2]) /\ IsFraction(far(j)[3])
  <2>1. pairing.base[k].shape \in Seq(Nat \ {0}) /\ pairing.source[j].shape \in Seq(Nat \ {0})
    BY LearnedIs
  <2>2. \A differs \in BOOLEAN : IsFraction(Flag(differs))
    BY DEF Flag, IsFraction
  <2>3. QED
    BY <2>1, <2>2, FarIs
<1>3. Candidates \in SUBSET Nat /\ IsFiniteSet(Candidates)
  BY LearnedIs
<1>4. \A j \in Candidates : key[j] = <<flag(j, 1), flag(j, 2), flag(j, 3), flag(j, 4),
                                       far(j)[1], far(j)[2], far(j)[3], <<j, 1>>>>
  OBVIOUS
<1> HIDE DEF far, flag, key
<1>5. ASSUME NEW j \in Candidates
      PROVE  IsKey(key[j], 8, j)
  <2>1. PICK f1, f2, f3, f4, f5, f6, f7 :
            /\ f1 = flag(j, 1) /\ f2 = flag(j, 2) /\ f3 = flag(j, 3) /\ f4 = flag(j, 4)
            /\ f5 = far(j)[1] /\ f6 = far(j)[2] /\ f7 = far(j)[3]
    OBVIOUS
  <2>2. /\ IsFraction(f1) /\ IsFraction(f2) /\ IsFraction(f3) /\ IsFraction(f4)
        /\ IsFraction(f5) /\ IsFraction(f6) /\ IsFraction(f7) /\ IsFraction(<<j, 1>>)
    BY <1>2, <1>3, <2>1 DEF IsFraction
  <2>3. PICK p : p = key[j]
    OBVIOUS
  <2>4. p = <<f1, f2, f3, f4, f5, f6, f7, <<j, 1>>>>
    BY <1>4, <2>1, <2>3
  <2>5. /\ DOMAIN p = 1..8 /\ p[1] = f1 /\ p[2] = f2 /\ p[3] = f3 /\ p[4] = f4
        /\ p[5] = f5 /\ p[6] = f6 /\ p[7] = f7 /\ p[8] = <<j, 1>>
    BY <2>4
  <2>6. \A m \in 1..8 : m = 1 \/ m = 2 \/ m = 3 \/ m = 4 \/ m = 5 \/ m = 6 \/ m = 7 \/ m = 8
    OBVIOUS
  <2>7. QED
    BY <2>2, <2>3, <2>5, <2>6 DEF IsKey
<1>6. 8 \in Nat \ {0}
  OBVIOUS
<1>7. QED
  BY <1>1, <1>3, <1>5, <1>6, NearestIs

\* A candidate by depth is of the role, and of the component where both have components.
LEMMA EligibleIs ==
    ASSUME NEW k
    PROVE  /\ Eligible(k) \subseteq Candidates
           /\ \A j \in Eligible(k) :
                 /\ SameRole(pairing.source[j], pairing.base[k])
                 /\ pairing.base[k].component # "." /\ pairing.source[j].component # "." =>
                       pairing.source[j].component = pairing.base[k].component
BY DEF Eligible

\* What one route says of a tensor of the base.
RouteTrue(k, r) ==
    /\ r.source \in Candidates \cup {NoSource}
    /\ r.source # NoSource => k \in Learned(pairing.base)
    /\ (r.source = NoSource) <=> r.why \in {"state", "none", "zero"}
    /\ r.why = "depth" => k \in Learned(pairing.base) /\ Eligible(k) # {} /\ r.source = ByDepth(k, Eligible(k))
    /\ r.source # NoSource /\ ~pairing.force =>
          /\ pairing.source[r.source].group = pairing.base[k].group
          /\ pairing.base[k].component # "." /\ pairing.source[r.source].component # "." =>
                pairing.source[r.source].component = pairing.base[k].component
    /\ r.fit = IF r.source = NoSource THEN (IF r.why = "zero" THEN "zero-fill" ELSE "base-preserved")
               ELSE Transform(pairing.source[r.source].shape, pairing.base[k].shape)

\* The route of a tensor is one of those.
LEMMA RouteIs ==
    ASSUME IsPairing(pairing), NEW k \in DOMAIN pairing.base
    PROVE  RouteTrue(k, RouteOf(k))
<1> DEFINE named == {j \in Candidates : SameName(pairing.source[j], pairing.base[k])}
<1>1. PICK r : r = RouteOf(k)
  OBVIOUS
<1>2. NoSource \notin Candidates /\ Candidates \subseteq DOMAIN pairing.source
  BY LearnedIs
<1>3. ASSUME NEW x, NEW why, r = Route(x, why, k)
      PROVE  /\ r.source = x /\ r.why = why
             /\ r.fit = IF x = NoSource THEN (IF why = "zero" THEN "zero-fill" ELSE "base-preserved")
                        ELSE Transform(pairing.source[x].shape, pairing.base[k].shape)
  BY <1>3 DEF Route
<1>4. CASE Stays(k)
  <2>1. r = Route(NoSource, "state", k)
    BY <1>1, <1>4 DEF RouteOf
  <2>2. QED
    BY <1>1, <1>3, <2>1 DEF RouteTrue
<1>5. CASE ~Stays(k) /\ Exact(k) # {}
  <2>1. PICK x : x = CHOOSE j \in Exact(k) : TRUE
    OBVIOUS
  <2>2. r = Route(x, "exact", k)
    BY <1>1, <1>5, <2>1 DEF RouteOf
  <2>3. x \in Exact(k)
    BY <1>5, <2>1
  <2>4. x \in Candidates /\ SameAddress(pairing.source[x], pairing.base[k])
    BY <2>3 DEF Exact
  <2>5. /\ pairing.source[x].component = pairing.base[k].component
        /\ pairing.base[k].group = pairing.source[x].group
    BY <1>2, <2>4 DEF SameAddress, IsPairing
  <2>6. k \in Learned(pairing.base)
    BY <1>5 DEF Stays
  <2>7. QED
    BY <1>1, <1>2, <1>3, <2>2, <2>4, <2>5, <2>6 DEF RouteTrue
<1>6. CASE ~Stays(k) /\ Exact(k) = {} /\ Cardinality(named) = 1
  <2>1. PICK x : x = CHOOSE j \in named : TRUE
    OBVIOUS
  <2>2. r = Route(x, "name", k)
    BY <1>1, <1>6, <2>1 DEF RouteOf
  <2>3. named # {}
    BY <1>6, FS_EmptySet
  <2>4. x \in named
    BY <2>1, <2>3
  <2>5. x \in Candidates /\ SameName(pairing.source[x], pairing.base[k])
    BY <2>4
  <2>6. k \in Learned(pairing.base)
    BY <1>6 DEF Stays
  <2>7. QED
    BY <1>1, <1>2, <1>3, <2>2, <2>5, <2>6 DEF RouteTrue, SameName
<1>7. CASE ~Stays(k) /\ Exact(k) = {} /\ Cardinality(named) # 1 /\ Eligible(k) # {}
  <2>1. PICK x : x = ByDepth(k, Eligible(k))
    OBVIOUS
  <2>2. r = Route(x, "depth", k)
    BY <1>1, <1>7, <2>1 DEF RouteOf
  <2>3. k \in Learned(pairing.base)
    BY <1>7 DEF Stays
  <2>4. Eligible(k) \in SUBSET Candidates
    BY EligibleIs
  <2>5. x \in Eligible(k)
    BY <1>7, <2>1, <2>3, <2>4, ByDepthIs
  <2>6. /\ x \in Candidates /\ SameRole(pairing.source[x], pairing.base[k])
        /\ pairing.base[k].component # "." /\ pairing.source[x].component # "." =>
              pairing.source[x].component = pairing.base[k].component
    BY <2>5, EligibleIs
  <2>7. QED
    BY <1>1, <1>2, <1>3, <1>7, <2>1, <2>2, <2>3, <2>6 DEF RouteTrue, SameRole
<1>8. CASE /\ ~Stays(k) /\ Exact(k) = {} /\ Cardinality(named) # 1 /\ Eligible(k) = {}
           /\ pairing.force /\ Candidates # {}
  <2>1. PICK x : x = ByForce(k, Candidates)
    OBVIOUS
  <2>2. r = Route(x, "forced", k)
    BY <1>1, <1>8, <2>1 DEF RouteOf
  <2>3. k \in Learned(pairing.base)
    BY <1>8 DEF Stays
  <2>4. x \in Candidates
    BY <1>8, <2>1, <2>3, ByForceIs
  <2>5. QED
    BY <1>1, <1>2, <1>3, <1>8, <2>2, <2>3, <2>4 DEF RouteTrue
<1>9. CASE /\ ~Stays(k) /\ Exact(k) = {} /\ Cardinality(named) # 1 /\ Eligible(k) = {}
           /\ ~(pairing.force /\ Candidates # {})
  <2>1. r = Route(NoSource, IF pairing.force THEN "zero" ELSE "none", k)
    BY <1>1, <1>9 DEF RouteOf
  <2>2. PICK why : why = IF pairing.force THEN "zero" ELSE "none"
    OBVIOUS
  <2>3. r = Route(NoSource, why, k) /\ why \in {"zero", "none"}
    BY <2>1, <2>2
  <2>4. QED
    BY <1>1, <1>3, <2>3 DEF RouteTrue
<1>10. QED
  BY <1>4, <1>5, <1>6, <1>7, <1>8, <1>9

\* The routes so far are those of the first tensors.
ProjectionInv ==
    /\ IsPairing(pairing)
    /\ routes \in Seq({RouteOf(k) : k \in DOMAIN pairing.base})
    /\ Len(routes) <= Len(pairing.base)
    /\ \A k \in DOMAIN routes : routes[k] = RouteOf(k)

\* What is known of every route.
LEMMA RoutesAre ==
    ASSUME ProjectionInv
    PROVE  /\ IsPairing(pairing) /\ Len(routes) <= Len(pairing.base)
           /\ \A k \in DOMAIN routes : k \in DOMAIN pairing.base /\ RouteTrue(k, routes[k])
<1>1. IsPairing(pairing) /\ Len(pairing.base) \in Nat /\ DOMAIN pairing.base = 1..Len(pairing.base)
  BY DEF ProjectionInv, IsPairing, IsLayout
<1>2. DOMAIN routes = 1..Len(routes) /\ Len(routes) \in Nat /\ Len(routes) <= Len(pairing.base)
  BY DEF ProjectionInv
<1>3. \A k \in DOMAIN routes : k \in DOMAIN pairing.base
  BY <1>1, <1>2
<1>4. QED
  BY <1>1, <1>2, <1>3, RouteIs DEF ProjectionInv

\* The routes of a pairing do not change.
LEMMA PairingStays == ASSUME UNCHANGED pairing, NEW k PROVE RouteOf(k)' = RouteOf(k)
<1>1. /\ Candidates' = Candidates /\ Stays(k)' = Stays(k) /\ Exact(k)' = Exact(k)
  BY DEF Candidates, Learned, Stays, Exact, SameAddress
<1>2. Eligible(k)' = Eligible(k)
  BY <1>1 DEF Eligible, SameRole
<1>3. ASSUME NEW S
      PROVE  ByDepth(k, S)' = ByDepth(k, S) /\ ByForce(k, S)' = ByForce(k, S)
  BY DEF ByDepth, ByForce, Nearest
<1>4. ASSUME NEW x, NEW why
      PROVE  Route(x, why, k)' = Route(x, why, k)
  BY DEF Route
<1>5. QED
  BY <1>1, <1>2, <1>3, <1>4 DEF RouteOf, SameName

\* At the start there is no route.
LEMMA ProjectionInitInv == ProjectionInit => ProjectionInv
<1> SUFFICES ASSUME ProjectionInit PROVE ProjectionInv
  OBVIOUS
<1>1. IsPairing(pairing) /\ routes = <<>>
  BY PairingAssumption DEF ProjectionInit
<1>2. Len(pairing.base) \in Nat
  BY <1>1 DEF IsPairing, IsLayout
<1>3. QED
  BY <1>1, <1>2 DEF ProjectionInv

\* Every step adds the route of the next tensor.
LEMMA ProjectionNextInv == ProjectionInv /\ [ProjectionNext]_projectionVars => ProjectionInv'
<1> SUFFICES ASSUME ProjectionInv, [ProjectionNext]_projectionVars PROVE ProjectionInv'
  OBVIOUS
<1>1. UNCHANGED pairing
  BY DEF ProjectionNext, MapNext, projectionVars
<1>2. PICK R : R = {RouteOf(k) : k \in DOMAIN pairing.base}
  OBVIOUS
<1>3. \A k : RouteOf(k)' = RouteOf(k)
  BY <1>1, PairingStays
<1>4. {RouteOf(k) : k \in DOMAIN pairing.base}' = R /\ IsPairing(pairing)'
  BY <1>1, <1>2, <1>3 DEF ProjectionInv
<1>5. routes \in Seq(R)
  BY <1>2 DEF ProjectionInv
<1>6. CASE MapNext
  <2>1. PICK n : n = Len(routes) + 1
    OBVIOUS
  <2>2. n \in DOMAIN pairing.base /\ n \in Nat
    <3>1. Len(pairing.base) \in Nat /\ DOMAIN pairing.base = 1..Len(pairing.base) /\ Len(routes) \in Nat
      BY <1>5 DEF ProjectionInv, IsPairing, IsLayout
    <3>2. QED
      BY <1>6, <2>1, <3>1 DEF MapNext
  <2>3. PICK r : r = RouteOf(n)
    OBVIOUS
  <2>4. r \in R /\ routes' = Append(routes, r)
    BY <1>2, <1>6, <2>1, <2>2, <2>3 DEF MapNext
  <2>5. /\ routes' \in Seq(R) /\ Len(routes') = n
        /\ \A k \in DOMAIN routes' : k = n \/ (k \in DOMAIN routes /\ routes'[k] = routes[k])
        /\ routes'[n] = r
    BY <1>5, <2>1, <2>4
  <2>6. Len(routes') <= Len(pairing.base)'
    BY <1>1, <1>6, <2>1, <2>2, <2>5 DEF MapNext, ProjectionInv, IsPairing, IsLayout
  <2>7. \A k \in DOMAIN routes' : routes'[k] = RouteOf(k)
    BY <2>3, <2>5 DEF ProjectionInv
  <2>8. QED
    BY <1>3, <1>4, <2>5, <2>6, <2>7 DEF ProjectionInv
<1>7. CASE UNCHANGED projectionVars
  <2>1. routes' = routes
    BY <1>7 DEF projectionVars
  <2>2. QED
    BY <1>1, <1>3, <1>4, <1>5, <2>1 DEF ProjectionInv
<1>8. QED
  BY <1>6, <1>7 DEF ProjectionNext

\* Tensors of one component and role have the same blocks and, in the base, the same candidates.
LEMMA SameBlocks ==
    ASSUME NEW x, NEW y, SameRole(x, y), x.component = y.component
    PROVE  \A layout : Blocks(layout, x) = Blocks(layout, y)
<1> TAKE layout
<1>1. \A i : SameRole(layout[i], x) /\ layout[i].component = x.component
             <=> SameRole(layout[i], y) /\ layout[i].component = y.component
  BY DEF SameRole
<1>2. QED
  BY <1>1 DEF Blocks

\* Of two tensors that are matched by depth, the deeper one does not get a less deep block.
LEMMA BlocksKept == ASSUME ProjectionInv PROVE BlocksInOrder
<1> SUFFICES ASSUME NEW k \in Deep, NEW l \in Deep,
                    SameRole(pairing.base[k], pairing.base[l]),
                    pairing.base[k].component = pairing.base[l].component,
                    pairing.base[k].depth < pairing.base[l].depth
             PROVE  ~Smaller(Depth(pairing.source, routes[l].source), Depth(pairing.source, routes[k].source))
  BY DEF BlocksInOrder
<1>1. /\ k \in Learned(pairing.base) /\ Eligible(k) # {} /\ routes[k].source = ByDepth(k, Eligible(k))
      /\ l \in Learned(pairing.base) /\ Eligible(l) # {} /\ routes[l].source = ByDepth(l, Eligible(l))
      /\ IsPairing(pairing)
  BY RoutesAre DEF Deep, RouteTrue
<1>2. Eligible(k) = Eligible(l)
  BY DEF Eligible, SameRole
<1>3. PICK S, x, y : S = Eligible(k) /\ x = routes[k].source /\ y = routes[l].source
  OBVIOUS
<1>4. S \in SUBSET Candidates /\ S # {}
  BY <1>1, <1>3, EligibleIs
<1>5. x \in S /\ y \in S /\ x = ByDepth(k, S) /\ y = ByDepth(l, S)
  BY <1>1, <1>2, <1>3, <1>4, ByDepthIs
<1>6. PICK dx, dy, dk, dl : /\ dx = Depth(pairing.source, x) /\ dy = Depth(pairing.source, y)
                            /\ dk = Depth(pairing.base, k) /\ dl = Depth(pairing.base, l)
  OBVIOUS
<1>7. ~Smaller(Apart(dy, dk), Apart(dx, dk)) /\ ~Smaller(Apart(dx, dl), Apart(dy, dl))
  BY <1>1, <1>4, <1>5, <1>6, ByDepthIs
<1>8. IsLayout(pairing.base) /\ IsLayout(pairing.source) /\ x \in Learned(pairing.source) /\ y \in Learned(pairing.source)
  BY <1>1, <1>4, <1>5 DEF IsPairing, Candidates
<1>9. PICK B, n : /\ B = Blocks(pairing.base, pairing.base[k])
                  /\ n = IF Cardinality(B) > 1 THEN Cardinality(B) - 1 ELSE 1
  OBVIOUS
<1>10. B = Blocks(pairing.base, pairing.base[l])
  BY <1>9, SameBlocks
<1>11. /\ B \in SUBSET Nat /\ IsFiniteSet(B) /\ Cardinality(B) \in Nat \ {0}
       /\ pairing.base[k].depth \in B /\ pairing.base[l].depth \in B
       /\ RankIn(B, pairing.base[k].depth) \in 0..Cardinality(B) - 1
       /\ RankIn(B, pairing.base[l].depth) \in 0..Cardinality(B) - 1
       /\ dk = <<RankIn(B, pairing.base[k].depth), n>>
       /\ dl = <<RankIn(B, pairing.base[l].depth), n>>
  BY <1>1, <1>6, <1>8, <1>9, <1>10, DepthIs
<1>12. PICK a, b : a = RankIn(B, pairing.base[k].depth) /\ b = RankIn(B, pairing.base[l].depth)
  OBVIOUS
<1>13. a \in Nat /\ b \in Nat /\ n \in Nat \ {0}
  BY <1>9, <1>11, <1>12
<1>14. a < b
  <2>1. B \in SUBSET Int
    BY <1>11
  <2>2. \A v, w \in B : v < w <=> RankIn(B, v) < RankIn(B, w)
    BY <1>11, <2>1, Ranks
  <2>3. RankIn(B, pairing.base[k].depth) < RankIn(B, pairing.base[l].depth)
    BY <1>11, <2>2
  <2>4. QED
    BY <1>12, <2>3
<1>15. PICK p, m, q, r : dx = <<p, m>> /\ dy = <<q, r>> /\ p \in Nat /\ q \in Nat /\ m \in Nat \ {0} /\ r \in Nat \ {0}
  <2>1. /\ IsFraction(dx) /\ IsFraction(dy)
        /\ \E u, v : dx = <<u, v>>
        /\ \E u, v : dy = <<u, v>>
    BY <1>6, <1>8, DepthIs
  <2>2. QED
    BY <2>1 DEF IsFraction
<1>16. ~Smaller(<<q, r>>, <<p, m>>)
  <2>1. /\ ~Smaller(Apart(<<q, r>>, <<a, n>>), Apart(<<p, m>>, <<a, n>>))
        /\ ~Smaller(Apart(<<p, m>>, <<b, n>>), Apart(<<q, r>>, <<b, n>>))
    BY <1>7, <1>11, <1>12, <1>15
  <2>2. QED
    BY <1>13, <1>14, <1>15, <2>1, OrderKept
<1>17. QED
  BY <1>3, <1>6, <1>15, <1>16

\* The least number of a finite set has the first rank and the greatest one the last.
LEMMA EndRanks ==
    ASSUME NEW S \in SUBSET Nat, IsFiniteSet(S), S # {}
    PROVE  /\ Min(S) \in S /\ RankIn(S, Min(S)) = 0
           /\ Max(S) \in S /\ RankIn(S, Max(S)) = Cardinality(S) - 1
<1>1. S \in SUBSET Int
  OBVIOUS
<1>2. PICK c : c = Cardinality(S)
  OBVIOUS
<1>3. /\ c \in Nat
      /\ \A x \in S : RankIn(S, x) \in 0..c - 1
      /\ \A x, y \in S : x < y <=> RankIn(S, x) < RankIn(S, y)
      /\ \A i \in 0..c - 1 : \E x \in S : RankIn(S, x) = i
  BY <1>1, <1>2, Ranks
<1>4. 0 \in 0..c - 1 /\ c - 1 \in 0..c - 1
  <2>1. PICK x : x \in S
    OBVIOUS
  <2>2. PICK i : i = RankIn(S, x)
    OBVIOUS
  <2>3. i \in 0..c - 1
    BY <1>3, <2>1, <2>2
  <2>4. QED
    BY <1>3, <2>3
<1>5. PICK u \in S, v \in S : RankIn(S, u) = 0 /\ RankIn(S, v) = c - 1
  BY <1>3, <1>4
<1>6. \A x \in S : ~(x < u) /\ ~(v < x)
  BY <1>3, <1>5
<1>7. \A x \in S : u <= x /\ x <= v
  BY <1>1, <1>6
<1>8. Min(S) = u /\ Max(S) = v
  <2>1. \A w \in S : (\A y \in S : w <= y) => w = u
    BY <1>1, <1>5, <1>7
  <2>2. \A w \in S : (\A y \in S : y <= w) => w = v
    BY <1>1, <1>5, <1>7
  <2>3. (CHOOSE w \in S : \A y \in S : w <= y) = u
    BY <1>5, <1>7, <2>1
  <2>4. (CHOOSE w \in S : \A y \in S : w >= y) = v
    <3>1. \A w \in S : (\A y \in S : w >= y) <=> (\A y \in S : y <= w)
      BY <1>1
    <3>2. QED
      BY <1>5, <1>7, <2>2, <3>1
  <2>5. QED
    BY <2>3, <2>4 DEF Min, Max
<1>9. QED
  BY <1>2, <1>5, <1>8

\* What is not farther from a place than one that is at it, is at it.
LEMMA AtTheSame ==
    ASSUME NEW x \in Nat, NEW e \in Nat, NEW a \in Nat, NEW m \in Nat \ {0}, NEW n \in Nat \ {0}, e * n = a * m,
           ~Smaller(Apart(<<e, m>>, <<a, n>>), Apart(<<x, m>>, <<a, n>>))
    PROVE  x = e
<1>1. Abs(x * n * m - a * m * m) <= Abs(e * n * m - a * m * m)
  BY ApartCompared
<1>2. e * n * m = a * m * m
  OBVIOUS
<1>3. PICK u, v : u = x * n * m /\ v = a * m * m
  OBVIOUS
<1>4. u \in Int /\ v \in Int /\ Abs(u - v) <= Abs(v - v)
  BY <1>1, <1>2, <1>3
<1>5. u = v
  BY <1>4 DEF Abs
<1>6. (x * n) * m = (e * n) * m /\ x * n \in Int /\ e * n \in Int
  BY <1>2, <1>3, <1>5
<1>7. ~(x * n < e * n) /\ ~(e * n < x * n)
  <2>1. ~((x * n) * m < (e * n) * m) /\ ~((e * n) * m < (x * n) * m)
    BY <1>6
  <2>2. QED
    BY <1>6, <2>1, LeaveOut
<1>8. ~(x < e) /\ ~(e < x)
  BY <1>7, LeaveOut
<1>9. QED
  BY <1>8

\* The first block gets a first block, and the last a last one.
LEMMA EndsKept == ASSUME ProjectionInv PROVE EndsMeet
<1> SUFFICES ASSUME NEW k \in Deep, NEW s, s = pairing.source[routes[k].source],
                    NEW mine, mine = Blocks(pairing.base, pairing.base[k]),
                    NEW theirs, theirs = Blocks(pairing.source, s),
                    Cardinality(mine) > 1, Cardinality(theirs) > 1
             PROVE  /\ pairing.base[k].depth = Min(mine) => s.depth = Min(theirs)
                    /\ pairing.base[k].depth = Max(mine) => s.depth = Max(theirs)
  BY DEF EndsMeet
<1>1. /\ k \in Learned(pairing.base) /\ Eligible(k) # {} /\ routes[k].source = ByDepth(k, Eligible(k))
      /\ IsPairing(pairing)
  BY RoutesAre DEF Deep, RouteTrue
<1>2. PICK S, x : S = Eligible(k) /\ x = routes[k].source
  OBVIOUS
<1>3. S \in SUBSET Candidates /\ S # {}
  BY <1>1, <1>2, EligibleIs
<1>4. /\ x \in S
      /\ \A y \in S : ~Smaller(Apart(Depth(pairing.source, y), Depth(pairing.base, k)),
                               Apart(Depth(pairing.source, x), Depth(pairing.base, k)))
  BY <1>1, <1>2, <1>3, ByDepthIs
<1>5. IsLayout(pairing.base) /\ IsLayout(pairing.source) /\ x \in Learned(pairing.source)
  BY <1>1, <1>3, <1>4 DEF IsPairing, Candidates
<1>6. PICK n, m : n = Cardinality(mine) - 1 /\ m = Cardinality(theirs) - 1
  OBVIOUS
<1>7. /\ mine \in SUBSET Nat /\ IsFiniteSet(mine) /\ n \in Nat \ {0} /\ pairing.base[k].depth \in mine
      /\ Depth(pairing.base, k) = <<RankIn(mine, pairing.base[k].depth), n>>
      /\ RankIn(mine, pairing.base[k].depth) \in Nat
  BY <1>1, <1>5, <1>6, DepthIs
<1>8. /\ theirs \in SUBSET Nat /\ IsFiniteSet(theirs) /\ m \in Nat \ {0} /\ s.depth \in theirs
      /\ Depth(pairing.source, x) = <<RankIn(theirs, s.depth), m>>
      /\ RankIn(theirs, s.depth) \in Nat
  BY <1>2, <1>5, <1>6, DepthIs
<1>9. ASSUME NEW t \in theirs
      PROVE  \E j \in S : pairing.source[j].depth = t /\ Depth(pairing.source, j) = <<RankIn(theirs, t), m>>
  <2>1. PICK j \in Learned(pairing.source) : /\ SameRole(pairing.source[j], s) /\ pairing.source[j].component = s.component
                                             /\ pairing.source[j].depth = t
    BY <1>9 DEF Blocks
  <2>2. j \in S
    <3>1. j \in Candidates
      BY <2>1 DEF Candidates
    <3>2. x \in Eligible(k)
      BY <1>2, <1>4
    <3>3. QED
      BY <1>2, <2>1, <3>1, <3>2 DEF Eligible, SameRole
  <2>3. Blocks(pairing.source, pairing.source[j]) = theirs
    BY <2>1, SameBlocks
  <2>4. Depth(pairing.source, j) = <<RankIn(theirs, t), m>>
    BY <1>5, <1>6, <2>1, <2>3, DepthIs
  <2>5. QED
    BY <2>1, <2>2, <2>4
<1>10. ASSUME NEW t \in theirs, RankIn(theirs, t) \in Nat,
              RankIn(theirs, t) * n = RankIn(mine, pairing.base[k].depth) * m
       PROVE  s.depth = t
  <2>1. PICK a, e, r : a = RankIn(mine, pairing.base[k].depth) /\ e = RankIn(theirs, t) /\ r = RankIn(theirs, s.depth)
    OBVIOUS
  <2>2. ~Smaller(Apart(<<e, m>>, <<a, n>>), Apart(<<r, m>>, <<a, n>>))
    BY <1>4, <1>7, <1>8, <1>9, <2>1
  <2>3. e * n = a * m /\ a \in Nat /\ e \in Nat /\ r \in Nat
    BY <1>7, <1>8, <1>10, <2>1
  <2>4. r = e
    BY <1>7, <1>8, <2>2, <2>3, AtTheSame
  <2>5. theirs \in SUBSET Int
    BY <1>8
  <2>6. \A v, w \in theirs : RankIn(theirs, v) = RankIn(theirs, w) => v = w
    BY <1>8, <2>5, Ranks
  <2>7. QED
    BY <1>8, <2>1, <2>4, <2>6
<1>11. /\ Min(mine) \in mine /\ RankIn(mine, Min(mine)) = 0
       /\ Max(mine) \in mine /\ RankIn(mine, Max(mine)) = n
       /\ Min(theirs) \in theirs /\ RankIn(theirs, Min(theirs)) = 0
       /\ Max(theirs) \in theirs /\ RankIn(theirs, Max(theirs)) = m
  BY <1>6, <1>7, <1>8, EndRanks
<1>12. ASSUME pairing.base[k].depth = Min(mine)
       PROVE  s.depth = Min(theirs)
  <2>1. 0 * n = 0 * m
    BY <1>7, <1>8
  <2>2. QED
    BY <1>10, <1>11, <1>12, <2>1
<1>13. ASSUME pairing.base[k].depth = Max(mine)
       PROVE  s.depth = Max(theirs)
  <2>1. m * n = n * m /\ m \in Nat
    BY <1>7, <1>8
  <2>2. QED
    BY <1>10, <1>11, <1>13, <2>1
<1>14. QED
  BY <1>12, <1>13

\* The larger of two numbers is not smaller than either.
LEMMA MaxOfTwo ==
    ASSUME NEW u \in Nat, NEW v \in Nat
    PROVE  Max({u, v}) \in Nat /\ u <= Max({u, v}) /\ v <= Max({u, v}) /\ Max({u, v}) = IF u > v THEN u ELSE v
<1>1. PICK m : m = IF u > v THEN u ELSE v
  OBVIOUS
<1>2. m \in {u, v} /\ \A y \in {u, v} : y <= m
  BY <1>1
<1>3. \A x \in {u, v} : (\A y \in {u, v} : y <= x) => x = m
  BY <1>1
<1>4. Max({u, v}) = m
  BY <1>2, <1>3 DEF Max
<1>5. QED
  BY <1>1, <1>4

\* What is sampled axis by axis has as many axes before and after.
LEMMA AxesMatch ==
    ASSUME NEW s, NEW b, Transform(s, b) = "axis-resample"
    PROVE  Len(s) = Len(b)
<1>1. CASE s = b
  BY <1>1
<1>2. CASE s # b /\ ~(Len(s) = 2 /\ Len(b) = 2 /\ s = Reverse(b)) /\ Size(s) # Size(b) /\ Len(s) # Len(b)
  <2>1. Transform(s, b) = "flatten-resample"
    BY <1>2 DEF Transform
  <2>2. QED
    BY <2>1
<1>3. CASE s # b /\ ~(Len(s) = 2 /\ Len(b) = 2 /\ s = Reverse(b)) /\ Size(s) = Size(b)
  <2>1. Transform(s, b) = "reshape"
    BY <1>3 DEF Transform
  <2>2. QED
    BY <2>1
<1>4. QED
  BY <1>1, <1>2, <1>3

\* A tensor on its way from one shape to another, with as many axes, is never larger than both.
LEMMA PassingWithin ==
    ASSUME NEW s \in Seq(Nat \ {0}), NEW b \in Seq(Nat \ {0}), Len(s) = Len(b), NEW size \in Passing(s, b)
    PROVE  size <= Max({Size(s), Size(b)})
<1> DEFINE before(a) == {c \in DOMAIN s : Sooner(s, b, c, a)}
<1>1. PICK D : D = DOMAIN s
  OBVIOUS
<1>2. /\ D = 1..Len(s) /\ D = DOMAIN b /\ IsFiniteSet(D)
      /\ s \in [D -> Nat \ {0}] /\ b \in [D -> Nat \ {0}]
      /\ \A a \in D : s[a] \in Nat \ {0} /\ b[a] \in Nat \ {0}
  <2>1. D = 1..Len(s) /\ Len(s) \in Nat /\ D = DOMAIN b
    BY <1>1
  <2>2. IsFiniteSet(D)
    BY <2>1, FirstNumbers
  <2>3. s \in [D -> Nat \ {0}] /\ b \in [D -> Nat \ {0}]
    BY <2>1
  <2>4. QED
    BY <2>1, <2>2, <2>3
<1> DEFINE counts == [a \in D |-> Cardinality(before(a))]
<1>3. PICK i \in 0..Len(s) : size = Size([a \in DOMAIN s |-> IF Cardinality(before(a)) < i THEN b[a] ELSE s[a]])
  BY DEF Passing
<1>4. \A a \in D : IsFiniteSet(before(a)) /\ Cardinality(before(a)) \in Nat
  BY <1>1, <1>2, FS_Subset, FS_CardinalityType
<1>5. PICK ahead, f : ahead = counts /\ f = [a \in D |-> IF ahead[a] < i THEN b[a] ELSE s[a]]
  OBVIOUS
<1>a. \A a \in D : ahead[a] = Cardinality(before(a)) /\ ahead[a] \in Nat
  BY <1>4, <1>5
<1>b. size = Size(f)
  <2>1. f = [a \in DOMAIN s |-> IF Cardinality(before(a)) < i THEN b[a] ELSE s[a]]
    BY <1>1, <1>5
  <2>2. QED
    BY <1>3, <2>1
<1> HIDE DEF before
<1>6. f \in [D -> Nat \ {0}] /\ \A a \in D : f[a] = IF ahead[a] < i THEN b[a] ELSE s[a]
  BY <1>2, <1>5
<1>7. size = Product(f) /\ Size(s) = Product(s) /\ Size(b) = Product(b)
  BY <1>b DEF Size
<1>8. Size(s) \in Nat /\ Size(b) \in Nat
  BY SizeIs
<1>9. /\ Size(s) <= Max({Size(s), Size(b)}) /\ Size(b) <= Max({Size(s), Size(b)})
      /\ Max({Size(s), Size(b)}) \in Nat
  BY <1>8, MaxOfTwo
<1>10. CASE \A a \in D : ahead[a] < i => b[a] <= s[a]
  <2>1. \A a \in D : f[a] <= s[a]
    BY <1>2, <1>6, <1>10
  <2>2. Product(f) \in Nat \ {0} /\ Product(f) <= Product(s)
    BY <1>2, <1>6, <2>1, ProductOrder
  <2>3. QED
    BY <1>7, <1>8, <1>9, <2>2
<1>11. CASE \E a \in D : ahead[a] < i /\ ~(b[a] <= s[a])
  <2>1. PICK a \in D : ahead[a] < i /\ s[a] < b[a]
    BY <1>2, <1>11
  <2>2. ASSUME NEW c \in D, ~(ahead[c] < i)
        PROVE  s[c] <= b[c]
    <3> SUFFICES ASSUME b[c] < s[c] PROVE FALSE
      BY <1>2
    <3>1. Smaller(<<b[c], s[c]>>, <<b[a], s[a]>>)
      <4>1. PICK u, v, w, x : u = b[c] /\ v = s[c] /\ w = b[a] /\ x = s[a]
        OBVIOUS
      <4>2. u \in Nat \ {0} /\ v \in Nat \ {0} /\ w \in Nat \ {0} /\ x \in Nat \ {0} /\ u < v /\ x < w
        BY <1>2, <2>1, <4>1
      <4>3. u * x < v * x
        BY <4>2, LeaveOut
      <4>4. x * v < w * v
        BY <4>2, LeaveOut
      <4>5. v * x = x * v /\ u * x \in Int /\ x * v \in Int /\ w * v \in Int
        BY <4>2
      <4>6. u * x < w * v
        BY <4>3, <4>4, <4>5
      <4>7. QED
        BY <4>1, <4>6 DEF Smaller
    <3>2. ASSUME NEW d \in before(c)
          PROVE  d \in before(a)
      <4>1. d \in D /\ Sooner(s, b, d, c)
        BY <1>1, <3>2 DEF before
      <4>2. IsFraction(<<b[d], s[d]>>) /\ IsFraction(<<b[c], s[c]>>) /\ IsFraction(<<b[a], s[a]>>)
        BY <1>2, <2>1, <2>2, <4>1 DEF IsFraction
      <4>3. ~Smaller(<<b[c], s[c]>>, <<b[d], s[d]>>)
        BY <4>1, <4>2, SmallerOrder DEF Sooner
      <4>4. Smaller(<<b[d], s[d]>>, <<b[a], s[a]>>)
        BY <3>1, <4>2, <4>3, SmallerOrder
      <4>5. QED
        BY <1>1, <4>1, <4>4 DEF Sooner, before
    <3>3. ahead[c] <= ahead[a]
      <4>1. before(c) \subseteq before(a)
        BY <3>2
      <4>2. Cardinality(before(c)) <= Cardinality(before(a))
        BY <1>4, <2>1, <4>1, FS_Subset
      <4>3. QED
        BY <1>a, <2>1, <2>2, <4>2
    <3>4. ahead[c] \in Nat /\ ahead[a] \in Nat /\ i \in Nat
      BY <1>a, <2>1, <2>2
    <3>5. QED
      BY <2>1, <2>2, <3>3, <3>4
  <2>3. ASSUME NEW c \in D
        PROVE  f[c] <= b[c]
    <3>1. f[c] = (IF ahead[c] < i THEN b[c] ELSE s[c]) /\ b[c] \in Nat
      BY <1>2, <1>6
    <3>2. CASE ahead[c] < i
      BY <3>1, <3>2
    <3>3. CASE ~(ahead[c] < i)
      BY <2>2, <3>1, <3>3
    <3>4. QED
      BY <3>2, <3>3
  <2>4. Product(f) \in Nat \ {0} /\ Product(f) <= Product(b)
    BY <1>2, <1>6, <2>3, ProductOrder
  <2>5. QED
    BY <1>7, <1>8, <1>9, <2>4
<1>12. QED
  BY <1>10, <1>11

\* Division leaves a remainder.
LEMMA Divides ==
    ASSUME NEW n \in Nat, NEW d \in Nat \ {0}
    PROVE  n \div d \in Nat /\ n % d \in 0..d - 1 /\ n = d * (n \div d) + (n % d)
<1>1. PICK q, r \in Nat : q = n \div d /\ r = n % d
  OBVIOUS
<1>2. n = d * q + r /\ r < d
  BY <1>1
<1>3. r \in 0..d - 1
  BY <1>1, <1>2
<1>4. QED
  BY <1>1, <1>2, <1>3

\* What is rounded is one of the two integers next to it, and the lower one where there is no rest.
LEMMA RoundedIs ==
    ASSUME NEW n \in Nat, NEW d \in Nat \ {0}
    PROVE  /\ EvenRounded(n, d) \in {n \div d, n \div d + 1}
           /\ n % d = 0 => EvenRounded(n, d) = n \div d
<1>1. PICK q, r : q = n \div d /\ r = n % d
  OBVIOUS
<1>2. q \in Nat /\ r \in 0..d - 1
  BY <1>1, Divides
<1>3. EvenRounded(n, d) = IF 2 * r > d \/ (2 * r = d /\ q % 2 = 1) THEN q + 1 ELSE q
  BY <1>1 DEF EvenRounded
<1>4. r = 0 => ~(2 * r > d) /\ 2 * r # d
  BY <1>2
<1>5. QED
  BY <1>1, <1>3, <1>4

\* Rounding keeps the order of numbers.
LEMMA RoundedOrder ==
    ASSUME NEW n \in Nat, NEW m \in Nat, n <= m, NEW d \in Nat \ {0}
    PROVE  EvenRounded(n, d) <= EvenRounded(m, d)
<1>1. PICK q, r, p, t : q = n \div d /\ r = n % d /\ p = m \div d /\ t = m % d
  OBVIOUS
<1>2. /\ q \in Nat /\ r \in 0..d - 1 /\ n = d * q + r
      /\ p \in Nat /\ t \in 0..d - 1 /\ m = d * p + t
  BY <1>1, Divides
<1>3. /\ EvenRounded(n, d) = IF 2 * r > d \/ (2 * r = d /\ q % 2 = 1) THEN q + 1 ELSE q
      /\ EvenRounded(m, d) = IF 2 * t > d \/ (2 * t = d /\ p % 2 = 1) THEN p + 1 ELSE p
  BY <1>1 DEF EvenRounded
<1>4. CASE q = p
  <2>1. r <= t
    BY <1>2, <1>4
  <2>2. 2 * r > d => 2 * t > d
    BY <1>2, <2>1
  <2>3. 2 * r = d => 2 * t > d \/ 2 * t = d
    BY <1>2, <2>1
  <2>4. QED
    BY <1>2, <1>3, <1>4, <2>2, <2>3
<1>5. CASE q < p
  <2>1. EvenRounded(n, d) <= q + 1 /\ p <= EvenRounded(m, d) /\ EvenRounded(m, d) \in Nat
    BY <1>2, <1>3
  <2>2. QED
    BY <1>2, <1>3, <1>5, <2>1
<1>6. CASE p < q
  <2>1. d * (p + 1) <= d * q
    <3>1. (p + 1) * d <= q * d
      BY <1>2, <1>6, LeaveOut
    <3>2. QED
      BY <1>2, <3>1
  <2>2. d * (p + 1) = d * p + d /\ d * p \in Nat /\ d * q \in Nat
    BY <1>2
  <2>3. PICK u, v : u = d * p /\ v = d * q
    OBVIOUS
  <2>4. u + d <= v /\ u \in Nat /\ v \in Nat /\ v + r <= u + t
    BY <1>2, <2>1, <2>2, <2>3
  <2>5. QED
    BY <1>2, <2>4
<1>7. QED
  BY <1>2, <1>4, <1>5, <1>6

\* A sample of an axis spans it: both ends are included and the order is kept.
LEMMA SampleIs ==
    ASSUME NEW from \in Nat \ {0}, NEW to \in Nat \ {0}
    PROVE  /\ Sample(from, to)[0] = 0
           /\ to > 1 => Sample(from, to)[to - 1] = from - 1
           /\ \A c, d \in 0..(to - 1) : c <= d => Sample(from, to)[c] <= Sample(from, to)[d]
<1>1. PICK n : n = Max({to - 1, 1})
  OBVIOUS
<1>2. n \in Nat \ {0} /\ (to > 1 => n = to - 1)
  <2>1. to - 1 \in Nat /\ 1 \in Nat
    OBVIOUS
  <2>2. n = IF to - 1 > 1 THEN to - 1 ELSE 1
    BY <1>1, <2>1, MaxOfTwo
  <2>3. QED
    BY <2>1, <2>2
<1>3. \A c \in 0..(to - 1) : Sample(from, to)[c] = EvenRounded(c * (from - 1), n)
  BY <1>1 DEF Sample
<1>4. Sample(from, to)[0] = 0
  <2>1. 0 \in 0..(to - 1) /\ 0 * (from - 1) = 0
    OBVIOUS
  <2>2. 0 % n = 0 /\ 0 \div n = 0
    BY <1>2
  <2>3. EvenRounded(0, n) = 0
    BY <1>2, <2>2, RoundedIs
  <2>4. QED
    BY <1>3, <2>1, <2>3
<1>5. ASSUME to > 1
      PROVE  Sample(from, to)[to - 1] = from - 1
  <2>1. to - 1 \in 0..(to - 1) /\ n = to - 1 /\ from - 1 \in Nat
    BY <1>2, <1>5
  <2>2. PICK x : x = from - 1
    OBVIOUS
  <2>3. (n * x) % n = 0 /\ (n * x) \div n = x /\ n * x \in Nat
    <3>1. x \in Nat /\ n \in Nat \ {0}
      BY <1>2, <2>1, <2>2
    <3>2. QED
      BY <3>1
  <2>4. EvenRounded(n * x, n) = x
    BY <1>2, <2>3, RoundedIs
  <2>5. QED
    BY <1>3, <2>1, <2>2, <2>4
<1>6. ASSUME NEW c \in 0..(to - 1), NEW d \in 0..(to - 1), c <= d
      PROVE  Sample(from, to)[c] <= Sample(from, to)[d]
  <2>1. PICK x : x = from - 1
    OBVIOUS
  <2>2. x \in Nat /\ c \in Nat /\ d \in Nat
    BY <2>1
  <2>3. c * x \in Nat /\ d * x \in Nat /\ c * x <= d * x
    BY <1>6, <2>2
  <2>4. EvenRounded(c * x, n) <= EvenRounded(d * x, n)
    BY <1>2, <2>3, RoundedOrder
  <2>5. QED
    BY <1>3, <2>1, <2>4
<1>7. QED
  BY <1>4, <1>5, <1>6

\* The routes keep what the mapping promises.
LEMMA MappingPromised == ASSUME ProjectionInv PROVE MappingKeepsOrder
<1>1. /\ IsPairing(pairing) /\ Len(routes) <= Len(pairing.base)
      /\ \A k \in DOMAIN routes : k \in DOMAIN pairing.base /\ RouteTrue(k, routes[k])
  BY RoutesAre
<1>2. ProjectionTypeOK
  BY <1>1 DEF ProjectionTypeOK, RouteTrue
<1>3. NothingUnrelated
  BY <1>1 DEF NothingUnrelated, RouteTrue
<1>4. ASSUME NEW k \in DOMAIN routes, routes[k].fit \in {"axis-resample", "flatten-resample"}
      PROVE  /\ pairing.source[routes[k].source].shape \in Seq(Nat \ {0})
             /\ pairing.base[k].shape \in Seq(Nat \ {0})
             /\ routes[k].fit = Transform(pairing.source[routes[k].source].shape, pairing.base[k].shape)
  <2>1. RouteTrue(k, routes[k])
    BY <1>1
  <2>2. routes[k].source # NoSource
    BY <1>4, <2>1 DEF RouteTrue
  <2>3. routes[k].source \in Candidates /\ k \in Learned(pairing.base)
    BY <2>1, <2>2 DEF RouteTrue
  <2>4. QED
    BY <1>1, <2>1, <2>2, <2>3, LearnedIs DEF RouteTrue
<1>5. NoSpike
  <2> SUFFICES ASSUME NEW k \in DOMAIN routes, routes[k].fit = "axis-resample",
                      NEW n \in Passing(pairing.source[routes[k].source].shape, pairing.base[k].shape)
               PROVE  n <= Max({Size(pairing.source[routes[k].source].shape), Size(pairing.base[k].shape)})
    BY DEF NoSpike
  <2>1. PICK s, b : s = pairing.source[routes[k].source].shape /\ b = pairing.base[k].shape
    OBVIOUS
  <2>2. s \in Seq(Nat \ {0}) /\ b \in Seq(Nat \ {0}) /\ Transform(s, b) = "axis-resample"
    BY <1>4, <2>1
  <2>3. Len(s) = Len(b) /\ n \in Passing(s, b)
    BY <2>1, <2>2, AxesMatch
  <2>4. QED
    BY <2>1, <2>2, <2>3, PassingWithin
<1>6. SamplesSpan
  <2> DEFINE Spans(from, to) ==
                LET at == Sample(from, to)
                IN /\ at[0] = 0 /\ (to > 1 => at[to - 1] = from - 1)
                   /\ \A c, d \in 0..(to - 1) : c <= d => at[c] <= at[d]
  <2>1. ASSUME NEW from \in Nat \ {0}, NEW to \in Nat \ {0}
        PROVE  Spans(from, to)
    BY SampleIs
  <2> HIDE DEF Spans
  <2>2. ASSUME NEW k \in DOMAIN routes, routes[k].fit \in {"axis-resample", "flatten-resample"},
               NEW s, NEW b, s = pairing.source[routes[k].source].shape, b = pairing.base[k].shape
        PROVE  IF routes[k].fit = "flatten-resample" THEN Spans(Size(s), Size(b))
               ELSE \A a \in DOMAIN s : Spans(s[a], b[a])
    <3>1. s \in Seq(Nat \ {0}) /\ b \in Seq(Nat \ {0}) /\ routes[k].fit = Transform(s, b)
      BY <1>4, <2>2
    <3>2. CASE routes[k].fit = "flatten-resample"
      BY <2>1, <3>1, <3>2, SizeIs
    <3>3. CASE routes[k].fit # "flatten-resample"
      <4>1. Len(s) = Len(b)
        BY <2>2, <3>1, <3>3, AxesMatch
      <4>2. \A a \in DOMAIN s : s[a] \in Nat \ {0} /\ b[a] \in Nat \ {0}
        BY <3>1, <4>1
      <4>3. QED
        BY <2>1, <3>3, <4>2
    <3>4. QED
      BY <3>2, <3>3
  <2>3. QED
    BY <2>2 DEF SamplesSpan, Spans
<1>7. QED
  BY <1>2, <1>3, <1>5, <1>6, BlocksKept, EndsKept DEF MappingKeepsOrder

\* For any two layouts of any tensors and shapes: blocks keep their order and their ends, nothing
\* unrelated is taken where the layout is not forced, no tensor is larger on its way than at both
\* ends, and a sampled axis keeps its ends and its order (model_merge_common.py:130-221,
\* model_merge_tensor.py:86-136).
THEOREM MappingTrue == ProjectionSpec => []MappingKeepsOrder
<1>1. ProjectionInv => MappingKeepsOrder
  BY MappingPromised
<1>2. QED
  BY <1>1, ProjectionInitInv, ProjectionNextInv, PTL DEF ProjectionSpec
=============================================================================
