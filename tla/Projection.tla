------------------------------ MODULE Projection ------------------------------
(***************************************************************************)
(* The mapping of a checkpoint onto the layout of the base                 *)
(* (model_merge_common.py, model_merge_tensor.py): which tensor of the     *)
(* material each tensor of the base gets, and how its coordinates are      *)
(* fitted.  A layout is a sequence of tensors in the order of their        *)
(* addresses.  A tensor says what the code reads off its name: the wrapper *)
(* prefix, the rest of the name, the group (text, vae, denoiser), role,    *)
(* kind and block depth, its shape, and whether it is learned at all or    *)
(* state that always stays the base's.                                     *)
(***************************************************************************)
EXTENDS Integers, Sequences, SequencesExt, FiniteSets, FiniteSetsExt

CONSTANT Pairings     \* pairs of layouts [base, source, force], a sequence of sets

\* A tensor without a number in it is never learned.
IsLayout(layout) ==
    /\ Len(layout) \in Nat /\ DOMAIN layout = 1..Len(layout)
    /\ \A k \in DOMAIN layout :
          /\ layout[k].learned \in BOOLEAN /\ layout[k].depth \in Nat /\ layout[k].shape \in Seq(Nat)
          /\ layout[k].learned => layout[k].shape \in Seq(Nat \ {0})

\* The group is read off the address: of one address there is one group.
IsPairing(p) ==
    /\ IsLayout(p.base) /\ IsLayout(p.source) /\ p.force \in BOOLEAN
    /\ \A k \in DOMAIN p.base : \A j \in DOMAIN p.source :
          LET b == p.base[k]  s == p.source[j]
          IN b.component = s.component /\ b.prefix = s.prefix /\ b.name = s.name => b.group = s.group

ASSUME PairingAssumption == \A n \in DOMAIN Pairings : \A p \in Pairings[n] : IsPairing(p)

VARIABLES
    pairing,          \* the base, the material, and whether the base's layout is forced
    routes            \* per tensor of the base so far: its source, why it, and how it is fitted

projectionVars == <<pairing, routes>>

NoSource == 0

ProjectionInit ==
    /\ \E n \in DOMAIN Pairings : pairing \in Pairings[n]
    /\ routes = <<>>

-----------------------------------------------------------------------------
(* Names. *)

Learned(layout) == {k \in DOMAIN layout : layout[k].learned}
Candidates == Learned(pairing.source)

SameAddress(x, y) == x.component = y.component /\ x.prefix = y.prefix /\ x.name = y.name

\* Known wrapper prefixes do not distinguish names; components and groups do.
SameName(x, y) == x.component = y.component /\ x.group = y.group /\ x.name = y.name

SameRole(x, y) == x.group = y.group /\ x.role = y.role /\ x.kind = y.kind

\* The depths of the blocks of the component and role of a tensor.
Blocks(layout, x) ==
    {layout[j].depth : j \in {i \in Learned(layout) : SameRole(layout[i], x) /\ layout[i].component = x.component}}

\* The place of a block among those of its component and role, from 0 to 1, as a fraction.
Depth(layout, k) ==
    LET depths == Blocks(layout, layout[k])
    IN <<Cardinality({d \in depths : d < layout[k].depth}), Max({Cardinality(depths) - 1, 1})>>

Product(f) == FoldFunctionOnSet(LAMBDA n, product : n * product, 1, f, DOMAIN f)
Size(shape) == Product(shape)

\* Fractions; a distance of logarithms is compared by the ratio it is the logarithm of.
Apart(p, q) == LET n == p[1] * q[2] - q[1] * p[2] IN <<IF n < 0 THEN -n ELSE n, p[2] * q[2]>>
Ratio(m, n) == IF m > n THEN <<m, n>> ELSE <<n, m>>
Smaller(p, q) == p[1] * q[2] < q[1] * p[2]

\* Rank, number of elements, axes, as far as both have them.
ShapeDistance(b, s) ==
    LET axes == 1..Min({Len(b), Len(s)})
        ratios == [a \in axes |-> Ratio(b[a], s[a])]
    IN <<Apart(<<Len(b), 1>>, <<Len(s), 1>>), Ratio(Size(b), Size(s)),
         <<Product([a \in axes |-> ratios[a][1]]), Product([a \in axes |-> ratios[a][2]])>>>>

Flag(differs) == <<IF differs THEN 1 ELSE 0, 1>>

\* Lexicographic order of the keys, which end in the candidate's place.
Nearer(p, q) ==
    \E n \in DOMAIN p : Smaller(p[n], q[n]) /\ \A m \in 1..(n - 1) : ~Smaller(q[m], p[m])

Nearest(S, key) == CHOOSE x \in S : \A y \in S \ {x} : Nearer(key[x], key[y])

\* Mutant: the shape comes before the depth.
ByDepthMutant(k, S) ==
    Nearest(S, [j \in S |->
        LET far == ShapeDistance(pairing.base[k].shape, pairing.source[j].shape)
        IN <<far[1], far[2], far[3], Apart(Depth(pairing.source, j), Depth(pairing.base, k)), <<j, 1>>>>])

\* The candidate of the nearest relative depth, then of the nearest shape.
ByDepth(k, S) ==
    Nearest(S, [j \in S |->
        LET far == ShapeDistance(pairing.base[k].shape, pairing.source[j].shape)
        IN <<Apart(Depth(pairing.source, j), Depth(pairing.base, k)), far[1], far[2], far[3], <<j, 1>>>>])

\* Where the layout is forced, any candidate: of the component, group, role and kind if there is one.
ByForce(k, S) ==
    Nearest(S, [j \in S |->
        LET b == pairing.base[k]  s == pairing.source[j]
            far == ShapeDistance(b.shape, s.shape)
        IN <<Flag(s.component # b.component), Flag(s.group # b.group), Flag(s.role # b.role),
             Flag(s.kind # b.kind), far[1], far[2], far[3], <<j, 1>>>>])

\* Candidates of the same role, of the same component when both exports have components.
Eligible(k) ==
    LET b == pairing.base[k]
        alike == {j \in Candidates : SameRole(pairing.source[j], b)}
    IN IF b.component # "." /\ \E j \in Candidates : pairing.source[j].component # "."
       THEN {j \in alike : pairing.source[j].component = b.component} ELSE alike

-----------------------------------------------------------------------------
(* Shapes. *)

Transform(source, target) ==
    CASE source = target -> "identity"
      [] Len(source) = 2 /\ Len(target) = 2 /\ source = Reverse(target) /\ source # target -> "transpose"
      [] source # target /\ Size(source) = Size(target)
            /\ ~(Len(source) = 2 /\ Len(target) = 2 /\ source = Reverse(target)) -> "reshape"
      [] Size(source) # Size(target) /\ Len(source) # Len(target) -> "flatten-resample"
      [] OTHER -> "axis-resample"

\* Half to even, for fractions that are not negative.
EvenRounded(n, d) ==
    LET q == n \div d  twice == 2 * (n % d)
    IN IF twice > d \/ (twice = d /\ q % 2 = 1) THEN q + 1 ELSE q

\* The coordinates an axis of one size is sampled at for another size: evenly, both ends included.
Sample(from, to) == [c \in 0..(to - 1) |-> EvenRounded(c * (from - 1), Max({to - 1, 1}))]

\* Axes are fitted one after the other, the most shrinking one first.
Sooner(source, target, a, b) ==
    \/ Smaller(<<target[a], source[a]>>, <<target[b], source[b]>>)
    \/ ~Smaller(<<target[b], source[b]>>, <<target[a], source[a]>>) /\ a < b

\* The sizes a tensor has on its way.
Passing(source, target) ==
    LET turn(a) == Cardinality({c \in DOMAIN source : Sooner(source, target, c, a)})
    IN {Size([a \in DOMAIN source |-> IF turn(a) < n THEN target[a] ELSE source[a]]) : n \in 0..Len(source)}

-----------------------------------------------------------------------------

Exact(k) == {j \in Candidates : SameAddress(pairing.source[j], pairing.base[k])}

Route(source, why, k) ==
    [source |-> source, why |-> why,
     fit |-> IF source = NoSource THEN (IF why = "zero" THEN "zero-fill" ELSE "base-preserved")
             ELSE Transform(pairing.source[source].shape, pairing.base[k].shape)]

\* Schedules, statistics, prediction flags and quantization parameters are the base's.
Stays(k) == k \notin Learned(pairing.base)

\* The same name, the only one of the same normalized name, the nearest of its role, and where
\* the layout is forced anything.
RouteOf(k) ==
    LET named == {j \in Candidates : SameName(pairing.source[j], pairing.base[k])}
    IN IF Stays(k) THEN Route(NoSource, "state", k)
       ELSE IF Exact(k) # {} THEN Route(CHOOSE j \in Exact(k) : TRUE, "exact", k)
       ELSE IF Cardinality(named) = 1 THEN Route(CHOOSE j \in named : TRUE, "name", k)
       ELSE IF Eligible(k) # {} THEN Route(ByDepth(k, Eligible(k)), "depth", k)
       ELSE IF pairing.force /\ Candidates # {} THEN Route(ByForce(k, Candidates), "forced", k)
       ELSE Route(NoSource, IF pairing.force THEN "zero" ELSE "none", k)

\* The next tensor of the base, in the order of the addresses.
MapNext ==
    /\ Len(routes) < Len(pairing.base)
    /\ routes' = Append(routes, RouteOf(Len(routes) + 1))
    /\ UNCHANGED pairing

ProjectionNext == MapNext

ProjectionSpec == ProjectionInit /\ [][ProjectionNext]_projectionVars

-----------------------------------------------------------------------------
(* What the mapping promises. *)

\* Every variable keeps its type: what is state of the base gets no source, and a tensor without
\* a source says why (model_merge_common.py:149-180).
ProjectionTypeOK ==
    /\ Len(routes) <= Len(pairing.base)
    /\ \A k \in DOMAIN routes :
          /\ routes[k].source \in Candidates \cup {NoSource}
          /\ routes[k].source # NoSource => k \in Learned(pairing.base)
          /\ (routes[k].source = NoSource) = (routes[k].why \in {"state", "none", "zero"})

Whole == Len(routes) = Len(pairing.base)
Deep  == {k \in DOMAIN routes : routes[k].why = "depth"}

\* Blocks keep their order: of two tensors of one component and role that are matched by depth,
\* the deeper one never gets a tensor of a smaller relative depth, whatever their shapes
\* (model_merge_common.py:76-84, 173-177).
BlocksInOrder ==
    \A k, l \in Deep :
        LET b == pairing.base[k]  c == pairing.base[l]
        IN SameRole(b, c) /\ b.component = c.component /\ b.depth < c.depth =>
             ~Smaller(Depth(pairing.source, routes[l].source), Depth(pairing.source, routes[k].source))

\* The first block gets a first block and the last a last one, however many blocks each has
\* (model_merge_common.py:81-83).
EndsMeet ==
    \A k \in Deep :
        LET b == pairing.base[k]
            s == pairing.source[routes[k].source]
            mine == Blocks(pairing.base, b)  theirs == Blocks(pairing.source, s)
        IN Cardinality(mine) > 1 /\ Cardinality(theirs) > 1 =>
              /\ b.depth = Min(mine) => s.depth = Min(theirs)
              /\ b.depth = Max(mine) => s.depth = Max(theirs)

\* A stage of a package is never mixed with another, nor a text encoder with a VAE, unless the
\* layout is forced (model_merge_common.py:168-172 and its docstring at 131-136).
NothingUnrelated ==
    \A k \in DOMAIN routes : routes[k].source # NoSource /\ ~pairing.force =>
        LET b == pairing.base[k]  s == pairing.source[routes[k].source]
        IN /\ s.group = b.group
           /\ b.component # "." /\ s.component # "." => s.component = b.component

\* A tensor is never, while its axes are fitted, larger than both what it was and what it will be
\* (model_merge_tensor.py:130-135).
NoSpike ==
    \A k \in DOMAIN routes : routes[k].fit = "axis-resample" =>
        LET s == pairing.source[routes[k].source].shape  b == pairing.base[k].shape
        IN \A n \in Passing(s, b) : n <= Max({Size(s), Size(b)})

\* Sampling keeps both ends of an axis and its order (model_merge_tensor.py:101-104, 120-129).
SamplesSpan ==
    \A k \in DOMAIN routes : routes[k].fit \in {"axis-resample", "flatten-resample"} =>
        LET s == pairing.source[routes[k].source].shape  b == pairing.base[k].shape
            Spans(from, to) ==
                LET at == Sample(from, to)
                IN /\ at[0] = 0 /\ (to > 1 => at[to - 1] = from - 1)
                   /\ \A c, d \in 0..(to - 1) : c <= d => at[c] <= at[d]
        IN IF routes[k].fit = "flatten-resample" THEN Spans(Size(s), Size(b))
           ELSE \A a \in DOMAIN s : Spans(s[a], b[a])

\* The mapping keeps the order, the ends and the components of a layout, and the fit of a shape the
\* order and the ends of its axes.
MappingKeepsOrder ==
    ProjectionTypeOK /\ BlocksInOrder /\ EndsMeet /\ NothingUnrelated /\ NoSpike /\ SamplesSpan
=============================================================================
