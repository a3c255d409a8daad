----------------------------- MODULE DataLemmas -----------------------------
(***************************************************************************)
(* Lemmas on numbers, sets of numbers and sequences that the proofs of     *)
(* several modules cite: what the provers can use of induction (a set of   *)
(* natural numbers that has 0 and each successor is all of them), least and *)
(* greatest elements, ranks in a set, what FlattenSeq() makes, and sums.   *)
(***************************************************************************)
EXTENDS Integers, Sequences, SequencesExt, FiniteSets, SortedSets, FiniteSetTheorems,
        WellFoundedInduction, TLAPS

\* Natural numbers, if there are any, have a least one.
LEMMA LeastNatural ==
    ASSUME NEW T \in SUBSET Nat, T # {}
    PROVE  \E x \in T : \A y \in T : x <= y
<1>1. PICK R : R = OpToRel(<, Nat)
  OBVIOUS
<1>2. IsWellFoundedOn(R, Nat)
  BY <1>1, NatLessThanWellFounded
<1>3. \A x, y \in Nat : <<y, x>> \in R <=> y < x
  BY <1>1 DEF OpToRel
<1>4. PICK x \in T : \A y \in T : ~(<<y, x>> \in R)
  BY <1>2, WFMin
<1>5. ASSUME NEW y \in T
      PROVE  x <= y
  <2>1. ~(<<y, x>> \in R) /\ x \in Nat /\ y \in Nat
    BY <1>4
  <2>2. ~(y < x)
    BY <1>3, <2>1
  <2>3. QED
    BY <2>1, <2>2
<1>6. QED
  BY <1>5

\* A set of natural numbers that has 0 and with every number the next one is all of them: the
\* induction that the provers can use, over a set and not an operator.
LEMMA SetInduction ==
    ASSUME NEW S \in SUBSET Nat, 0 \in S, \A n \in S : n + 1 \in S
    PROVE  S = Nat
<1> SUFFICES ASSUME Nat \ S # {} PROVE FALSE
  OBVIOUS
<1>1. PICK x \in Nat \ S : \A y \in Nat \ S : x <= y
  BY LeastNatural
<1>2. x # 0 /\ x - 1 \in Nat /\ ~(x <= x - 1)
  BY <1>1
<1>3. x - 1 \in S
  BY <1>1, <1>2
<1>4. x - 1 + 1 = x
  BY <1>1
<1>5. QED
  BY <1>1, <1>3, <1>4

\* FlattenSeq() makes its result out of the parts, one after the other.
LEMMA FlattenRec ==
    ASSUME NEW s, NEW m \in Nat \ {0}, Len(s) = m
    PROVE  \E f : /\ FlattenSeq(s) = f[m] /\ f[1] = s[1]
                  /\ \A i \in 2..m : f[i] = f[i - 1] \o s[i]
<1> DEFINE Made(g, l) == g = [i \in 1..l |-> IF i = 1 THEN s[i] ELSE g[i - 1] \o s[i]]
           S == {l \in Nat : \E g : Made(g, l)}
<1>1. 0 \in S
  <2>1. Made(<<>>, 0)
    OBVIOUS
  <2>2. QED
    BY <2>1
<1>2. ASSUME NEW l \in S
      PROVE  l + 1 \in S
  <2>1. PICK g : Made(g, l)
    OBVIOUS
  <2>2. PICK h : h = [i \in 1..l + 1 |-> IF i = 1 THEN s[i] ELSE g[i - 1] \o s[i]]
    OBVIOUS
  <2>a. l \in Nat
    OBVIOUS
  <2>b. PICK k : k = [i \in 1..l |-> IF i = 1 THEN s[i] ELSE g[i - 1] \o s[i]]
    OBVIOUS
  <2>c. g = k
    BY <2>1, <2>b, Zenon
  <2>d. \A i \in 1..l : k[i] = h[i]
    BY <2>a, <2>b, <2>2
  <2>3. l \in Nat /\ \A i \in 1..l : h[i] = g[i]
    BY <2>a, <2>c, <2>d
  <2>4. \A i \in 1..l + 1 : i # 1 => i - 1 \in 1..l
    BY <2>3
  <2>5. \A i \in 1..l + 1 : (IF i = 1 THEN s[i] ELSE g[i - 1] \o s[i]) = (IF i = 1 THEN s[i] ELSE h[i - 1] \o s[i])
    BY <2>3, <2>4
  <2>6. Made(h, l + 1)
    BY <2>2, <2>5
  <2>7. \E w : Made(w, l + 1)
    BY <2>6, Zenon
  <2>8. l + 1 \in Nat
    BY <2>a
  <2>9. QED
    BY <2>7, <2>8, Zenon
<1>3. m \in S
  <2>1. S = Nat
    BY <1>1, <1>2, SetInduction
  <2>2. QED
    BY <2>1
<1>4. PICK f : f = CHOOSE g : Made(g, m)
  OBVIOUS
<1>5. Made(f, m)
  BY <1>3, <1>4
<1>6. FlattenSeq(s) = f[m]
  BY <1>4 DEF FlattenSeq
<1>a. PICK k : k = [i \in 1..m |-> IF i = 1 THEN s[i] ELSE f[i - 1] \o s[i]]
  OBVIOUS
<1>b. f = k
  BY <1>5, <1>a, Zenon
<1>c. k[1] = s[1] /\ \A i \in 2..m : k[i] = f[i - 1] \o s[i]
  <2>1. \A i \in 1..m : k[i] = IF i = 1 THEN s[i] ELSE f[i - 1] \o s[i]
    BY <1>a, Zenon
  <2>2. 1 \in 1..m /\ \A i \in 2..m : i \in 1..m /\ i # 1
    OBVIOUS
  <2>3. QED
    BY <2>1, <2>2, Zenon
<1>7. f[1] = s[1] /\ \A i \in 2..m : f[i] = f[i - 1] \o s[i]
  BY <1>b, <1>c, Zenon
<1>8. QED
  BY <1>6, <1>7

\* The first n numbers are n.
LEMMA FirstNumbers ==
    ASSUME NEW n \in Nat
    PROVE  /\ IsFiniteSet(1..n) /\ Cardinality(1..n) = n
           /\ IsFiniteSet(0..n - 1) /\ Cardinality(0..n - 1) = n
<1>1. n \in Int /\ n - 1 \in Int /\ 0 \in Int /\ 1 \in Int
  OBVIOUS
<1>2. /\ IsFiniteSet(1..n) /\ Cardinality(1..n) = IF 1 > n THEN 0 ELSE n - 1 + 1
      /\ IsFiniteSet(0..n - 1) /\ Cardinality(0..n - 1) = IF 0 > n - 1 THEN 0 ELSE n - 1 - 0 + 1
  BY ONLY <1>1, FS_Interval
<1>3. QED
  BY <1>2

\* What a set of numbers has a least element by, has a greatest by.
LEMMA GreatestNatural ==
    ASSUME NEW T \in SUBSET Nat, T # {}, NEW b \in Nat, \A x \in T : x <= b
    PROVE  \E x \in T : \A y \in T : y <= x
<1> DEFINE U == {b - x : x \in T}
<1>1. U \in SUBSET Nat /\ U # {}
  <2>1. \A x \in T : b - x \in Nat /\ b - x \in U
    OBVIOUS
  <2>2. U # {}
    BY <2>1
  <2>3. QED
    BY <2>1, <2>2
<1> HIDE DEF U
<1>2. PICK u \in U : \A v \in U : u <= v
  BY <1>1, LeastNatural
<1>3. PICK x \in T : u = b - x
  BY DEF U
<1>4. ASSUME NEW y \in T
      PROVE  y <= x
  <2>1. b - y \in U
    BY DEF U
  <2>2. b - x <= b - y
    BY <1>2, <1>3, <2>1
  <2>3. QED
    BY <2>2
<1>5. QED
  BY <1>4

\* The rank of a number among those of a set: how many are smaller.
RankIn(S, x) == Cardinality({y \in S : y < x})

\* Ranks are in the order of the numbers, and each rank below the size of the set is of one.
LEMMA Ranks ==
    ASSUME NEW S \in SUBSET Int, IsFiniteSet(S)
    PROVE  /\ Cardinality(S) \in Nat
           /\ \A x \in S : RankIn(S, x) \in 0..Cardinality(S) - 1
           /\ \A x, y \in S : x < y <=> RankIn(S, x) < RankIn(S, y)
           /\ \A x, y \in S : RankIn(S, x) = RankIn(S, y) => x = y
           /\ \A i \in 0..Cardinality(S) - 1 : \E x \in S : RankIn(S, x) = i
<1> DEFINE n == Cardinality(S)
           B(x) == {y \in S : y < x}
           f == [x \in S |-> RankIn(S, x)]
<1>1. n \in Nat
  BY FS_CardinalityType
<1>2. ASSUME NEW x \in Int
      PROVE  IsFiniteSet(B(x)) /\ Cardinality(B(x)) \in Nat
  BY FS_Subset, FS_CardinalityType, B(x) \subseteq S
<1>3. ASSUME NEW x \in S
      PROVE  RankIn(S, x) \in 0..n - 1
  <2>1. IsFiniteSet(S \ {x}) /\ Cardinality(S \ {x}) = n - 1
    BY FS_RemoveElement
  <2>2. B(x) \subseteq S \ {x}
    OBVIOUS
  <2>3. Cardinality(B(x)) <= n - 1 /\ Cardinality(B(x)) \in Nat
    BY <2>1, <2>2, <1>2, FS_Subset
  <2>4. QED
    BY <1>1, <2>3 DEF RankIn
<1>4. ASSUME NEW x \in S, NEW y \in S, x < y
      PROVE  RankIn(S, x) < RankIn(S, y)
  <2>1. IsFiniteSet(B(x) \cup {x}) /\ Cardinality(B(x) \cup {x}) = Cardinality(B(x)) + 1
    <3>1. x \notin B(x) /\ IsFiniteSet(B(x))
      BY <1>2
    <3>2. QED
      BY <3>1, FS_AddElement
  <2>2. B(x) \cup {x} \subseteq B(y)
    <3>1. \A z \in S : z \in Int /\ (z < x => z < y)
      BY <1>4
    <3>2. QED
      BY <3>1, <1>4
  <2>3. Cardinality(B(x)) + 1 <= Cardinality(B(y))
    BY <2>1, <2>2, <1>2, FS_Subset
  <2>4. Cardinality(B(x)) < Cardinality(B(y))
    BY <2>3, <1>2
  <2>5. QED
    BY <2>4 DEF RankIn
<1>5. \A x, y \in S : RankIn(S, x) \in Int /\ (x = y \/ x < y \/ y < x)
  BY <1>1, <1>3
<1>6. \A x, y \in S : (x < y <=> RankIn(S, x) < RankIn(S, y)) /\ (RankIn(S, x) = RankIn(S, y) => x = y)
  BY <1>4, <1>5
<1>7. \A i \in 0..n - 1 : \E x \in S : RankIn(S, x) = i
  <2>1. f \in Injection(S, 0..n - 1)
    BY <1>3, <1>6 DEF Injection, IsInjective
  <2>2. IsFiniteSet(0..n - 1) /\ Cardinality(0..n - 1) = n
    BY <1>1, FS_Interval
  <2>3. f \in Surjection(S, 0..n - 1)
    BY <2>1, <2>2, FS_Injection
  <2>4. \A i \in 0..n - 1 : \E x \in S : f[x] = i
    BY <2>3 DEF Surjection
  <2>5. QED
    BY <2>4
<1>8. QED
  BY <1>1, <1>3, <1>6, <1>7

\* A set of numbers in ascending order: all of them, each once, and rising.
Sorted(S) ==
    /\ Cardinality(S) \in Nat
    /\ \A n \in 1..Cardinality(S) : Nth(S, n) \in S
    /\ \A m, n \in 1..Cardinality(S) : m < n => Nth(S, m) < Nth(S, n)
    /\ \A x \in S : \E n \in 1..Cardinality(S) : Nth(S, n) = x
    /\ Ascending(S) \in Seq(S) /\ Len(Ascending(S)) = Cardinality(S)
    /\ \A n \in 1..Cardinality(S) : Ascending(S)[n] = Nth(S, n)

\* A finite set of integers has an order: the integer at each place is the one of that rank.
LEMMA AscendingSorts == ASSUME NEW S \in SUBSET Int, IsFiniteSet(S) PROVE Sorted(S)
<1>1. PICK c : c = Cardinality(S)
  OBVIOUS
<1>2. /\ c \in Nat
      /\ \A x \in S : RankIn(S, x) \in 0..c - 1
      /\ \A x, y \in S : x < y <=> RankIn(S, x) < RankIn(S, y)
      /\ \A x, y \in S : RankIn(S, x) = RankIn(S, y) => x = y
      /\ \A i \in 0..c - 1 : \E x \in S : RankIn(S, x) = i
  BY <1>1, Ranks
<1>3. \A n : Nth(S, n) = CHOOSE x \in S : RankIn(S, x) = n - 1
  BY DEF Nth, RankIn
<1>4. ASSUME NEW n \in 1..c
      PROVE  Nth(S, n) \in S /\ RankIn(S, Nth(S, n)) = n - 1
  <2>1. n - 1 \in 0..c - 1
    BY <1>2
  <2>2. \E x \in S : RankIn(S, x) = n - 1
    BY <1>2, <2>1
  <2>3. QED
    BY <1>3, <2>2
<1>5. ASSUME NEW m \in 1..c, NEW n \in 1..c, m < n
      PROVE  Nth(S, m) < Nth(S, n)
  <2>1. PICK x, y : x = Nth(S, m) /\ y = Nth(S, n)
    OBVIOUS
  <2>2. x \in S /\ y \in S /\ RankIn(S, x) = m - 1 /\ RankIn(S, y) = n - 1
    BY <1>4, <2>1
  <2>3. m - 1 < n - 1
    BY <1>2, <1>5
  <2>4. x < y
    BY <1>2, <2>2, <2>3
  <2>5. QED
    BY <2>1, <2>4
<1>6. ASSUME NEW x \in S
      PROVE  \E n \in 1..c : Nth(S, n) = x
  <2>1. PICK n : n = RankIn(S, x) + 1
    OBVIOUS
  <2>2. n \in 1..c /\ RankIn(S, x) = n - 1
    BY <1>2, <2>1
  <2>3. Nth(S, n) = x
    BY <1>2, <1>4, <2>2
  <2>4. QED
    BY <2>2, <2>3
<1>7. Ascending(S) = [n \in 1..c |-> Nth(S, n)]
  BY <1>1 DEF Ascending
<1>8. PICK s : s = [n \in 1..c |-> Nth(S, n)]
  OBVIOUS
<1>9. s \in Seq(S) /\ Len(s) = c /\ \A n \in 1..c : s[n] = Nth(S, n)
  BY <1>2, <1>4, <1>8
<1>10. QED
  BY <1>1, <1>2, <1>4, <1>5, <1>6, <1>7, <1>8, <1>9 DEF Sorted

\* A family of subsets of a finite set that has the empty one and, with each, those with one
\* element more, has the set itself: induction over sets, without an operator.
LEMMA FiniteInduction ==
    ASSUME NEW S, IsFiniteSet(S), NEW P \in SUBSET (SUBSET S), {} \in P,
           \A T \in P : \A x \in S \ T : T \cup {x} \in P
    PROVE  S \in P
<1> DEFINE N == {n \in Nat : \A T \in SUBSET S : Cardinality(T) = n => T \in P}
<1>1. \A T \in SUBSET S : IsFiniteSet(T) /\ Cardinality(T) \in Nat
  BY FS_Subset, FS_CardinalityType
<1>2. 0 \in N
  <2>1. ASSUME NEW T \in SUBSET S, Cardinality(T) = 0
        PROVE  T \in P
    <3>1. T = {}
      BY <1>1, <2>1, FS_EmptySet
    <3>2. QED
      BY <3>1
  <2>2. QED
    BY <2>1
<1>3. ASSUME NEW n \in N
      PROVE  n + 1 \in N
  <2>1. n \in Nat /\ n + 1 \in Nat /\ n + 1 # 0
    OBVIOUS
  <2>2. ASSUME NEW T \in SUBSET S, Cardinality(T) = n + 1
        PROVE  T \in P
    <3>1. T # {}
      <4>1. Cardinality({}) = 0
        BY FS_EmptySet
      <4>2. QED
        BY <2>1, <2>2, <4>1
    <3>2. PICK x : x \in T
      BY <3>1
    <3>3. Cardinality(T \ {x}) = n
      <4>1. Cardinality(T \ {x}) = Cardinality(T) - 1
        BY <1>1, <3>2, FS_RemoveElement
      <4>2. QED
        BY <2>1, <2>2, <4>1
    <3>4. T \ {x} \in P
      BY <3>3
    <3>5. x \in S \ (T \ {x}) /\ T = (T \ {x}) \cup {x}
      BY <3>2
    <3>6. QED
      BY <3>4, <3>5
  <2>3. QED
    BY <2>1, <2>2
<1>4. N = Nat
  <2>1. N \in SUBSET Nat
    OBVIOUS
  <2> HIDE DEF N
  <2>2. QED
    BY <1>2, <1>3, <2>1, SetInduction
<1>5. Cardinality(S) \in N
  BY <1>1, <1>4
<1>6. QED
  BY <1>5

\* What SumFunctionOnSet() computes: an element is taken off, by choice, and the rest summed.
One(T) == CHOOSE x \in T : TRUE
IsSum(f, S, g) ==
    /\ g[{}] = 0
    /\ \A T \in SUBSET S : T # {} => g[T] = f[One(T)] + g[T \ {One(T)}]

\* An element that is chosen is one.
LEMMA OneIs == ASSUME NEW T, T # {} PROVE One(T) \in T
BY DEF One

\* The recursion of the fold has a solution on the subsets of a finite set, and the sum is its value.
LEMMA SumRec ==
    ASSUME NEW f, NEW S, IsFiniteSet(S)
    PROVE  \E g : IsSum(f, S, g) /\ SumFunctionOnSet(f, S) = g[S]
<1> DEFINE Upto(n) == {T \in SUBSET S : Cardinality(T) <= n}
           Next1(g, T) == IF T = {} THEN 0 ELSE f[One(T)] + g[T \ {One(T)}]
           Made(g, F) == g = [T \in F |-> Next1(g, T)]
           N == {n \in Nat : \E g : Made(g, Upto(n))}
<1>1. SumFunctionOnSet(f, S) = (CHOOSE g : Made(g, SUBSET S))[S]
  BY DEF SumFunctionOnSet, FoldFunctionOnSet, MapThenFoldSet, One
<1>2. \A T \in SUBSET S : IsFiniteSet(T) /\ Cardinality(T) \in Nat
  BY FS_Subset, FS_CardinalityType
<1>3. 0 \in N
  <2>1. \A T \in Upto(0) : T = {}
    BY <1>2, FS_EmptySet
  <2>2. PICK h : h = [T \in Upto(0) |-> 0]
    OBVIOUS
  <2>3. [T \in Upto(0) |-> 0] = [T \in Upto(0) |-> Next1(h, T)]
    BY <2>1
  <2>4. Made(h, Upto(0))
    BY <2>2, <2>3
  <2>5. \E g : Made(g, Upto(0))
    BY <2>4, Zenon
  <2>6. QED
    BY <2>5
<1>4. ASSUME NEW n \in N
      PROVE  n + 1 \in N
  <2>1. PICK g : Made(g, Upto(n))
    OBVIOUS
  <2>2. PICK h : h = [T \in Upto(n + 1) |-> Next1(g, T)]
    OBVIOUS
  <2>3. n \in Nat /\ \A T \in Upto(n) : T \in Upto(n + 1)
    <3>1. n \in Nat
      OBVIOUS
    <3>2. QED
      BY <1>2, <3>1
  <2>4. \A T \in Upto(n) : g[T] = Next1(g, T)
    <3>1. PICK k : k = [T \in Upto(n) |-> Next1(g, T)]
      OBVIOUS
    <3>2. \A T \in Upto(n) : k[T] = Next1(g, T)
      BY <3>1, Zenon
    <3>3. g = k
      BY <2>1, <3>1, Zenon
    <3>4. QED
      BY <3>2, <3>3, Zenon
  <2>5. \A T \in Upto(n + 1) : h[T] = Next1(g, T)
    BY <2>2, Zenon
  <2>6. \A T \in Upto(n) : h[T] = g[T]
    BY <2>3, <2>4, <2>5, Zenon
  <2>7. ASSUME NEW T \in Upto(n + 1), T # {}
        PROVE  T \ {One(T)} \in Upto(n)
    <3>1. One(T) \in T /\ IsFiniteSet(T)
      BY <1>2, <2>7, OneIs
    <3>2. Cardinality(T \ {One(T)}) = Cardinality(T) - 1
      BY <3>1, FS_RemoveElement
    <3>3. T \ {One(T)} \in SUBSET S /\ Cardinality(T) \in Nat /\ Cardinality(T) <= n + 1
      BY <1>2
    <3>4. QED
      BY <2>3, <3>2, <3>3
  <2>8. \A T \in Upto(n + 1) : Next1(g, T) = Next1(h, T)
    BY <2>6, <2>7
  <2>9. [T \in Upto(n + 1) |-> Next1(g, T)] = [T \in Upto(n + 1) |-> Next1(h, T)]
    BY <2>8, Zenon
  <2>10. Made(h, Upto(n + 1))
    BY <2>2, <2>9, Zenon
  <2>11. \E w : Made(w, Upto(n + 1))
    BY <2>10, Zenon
  <2>12. n + 1 \in Nat
    BY <2>3
  <2>13. QED
    BY <2>11, <2>12, Zenon
<1>5. N = Nat
  <2>1. N \in SUBSET Nat
    OBVIOUS
  <2> HIDE DEF N
  <2>2. QED
    BY <1>3, <1>4, <2>1, SetInduction
<1>6. \E g : Made(g, SUBSET S)
  <2>1. Cardinality(S) \in N
    BY <1>2, <1>5
  <2>2. \A T \in SUBSET S : Cardinality(T) <= Cardinality(S)
    BY FS_Subset
  <2>3. Upto(Cardinality(S)) = SUBSET S
    BY <2>2
  <2>4. \E g : Made(g, Upto(Cardinality(S)))
    BY <2>1
  <2> HIDE DEF Upto, Made
  <2>5. QED
    BY <2>3, <2>4
<1>7. PICK g : g = CHOOSE w : Made(w, SUBSET S)
  OBVIOUS
<1>8. Made(g, SUBSET S)
  BY <1>6, <1>7, Zenon
<1>9. \A T \in SUBSET S : g[T] = Next1(g, T)
  <2>1. PICK k : k = [T \in SUBSET S |-> Next1(g, T)]
    OBVIOUS
  <2>2. \A T \in SUBSET S : k[T] = Next1(g, T)
    BY <2>1, Zenon
  <2>3. g = k
    BY <1>8, <2>1, Zenon
  <2>4. QED
    BY <2>2, <2>3, Zenon
<1>10. IsSum(f, S, g)
  BY <1>9 DEF IsSum
<1>11. QED
  BY <1>1, <1>7, <1>10

\* A sum over no set is zero; over another, that of an element and of the rest.
LEMMA SumOne ==
    ASSUME NEW f, NEW S, IsFiniteSet(S)
    PROVE  /\ SumFunctionOnSet(f, {}) = 0
           /\ S # {} => SumFunctionOnSet(f, S) = f[One(S)] + SumFunctionOnSet(f, S \ {One(S)})
<1>1. PICK g : IsSum(f, S, g) /\ SumFunctionOnSet(f, S) = g[S]
  BY SumRec
<1>2. \A T \in SUBSET S : SumFunctionOnSet(f, T) = g[T]
  <2> SUFFICES ASSUME NEW U \in SUBSET S
               PROVE  SumFunctionOnSet(f, U) = g[U]
    OBVIOUS
  <2>1. \A T \in SUBSET S : IsFiniteSet(T) /\ Cardinality(T) \in Nat
    BY FS_Subset, FS_CardinalityType
  <2>2. PICK h : IsSum(f, U, h) /\ SumFunctionOnSet(f, U) = h[U]
    BY <2>1, SumRec
  <2> DEFINE N == {n \in Nat : \A T \in SUBSET U : Cardinality(T) = n => h[T] = g[T]}
  <2>3. 0 \in N
    <3>1. \A T \in SUBSET U : Cardinality(T) = 0 => T = {}
      BY <2>1, FS_EmptySet
    <3>2. QED
      BY <1>1, <2>2, <3>1 DEF IsSum
  <2>4. ASSUME NEW n \in N
        PROVE  n + 1 \in N
    <3>1. n \in Nat /\ n + 1 \in Nat /\ n + 1 # 0
      OBVIOUS
    <3>2. ASSUME NEW T \in SUBSET U, Cardinality(T) = n + 1
          PROVE  h[T] = g[T]
      <4>1. T # {}
        <5>1. Cardinality({}) = 0
          BY FS_EmptySet
        <5>2. QED
          BY <3>1, <3>2, <5>1
      <4>2. One(T) \in T
        BY <4>1, OneIs
      <4>3. Cardinality(T \ {One(T)}) = Cardinality(T) - 1
        BY <2>1, <4>2, FS_RemoveElement
      <4>4. Cardinality(T \ {One(T)}) = n /\ T \ {One(T)} \in SUBSET U
        BY <3>1, <3>2, <4>3
      <4>5. h[T \ {One(T)}] = g[T \ {One(T)}]
        BY <4>4
      <4>6. h[T] = f[One(T)] + h[T \ {One(T)}] /\ g[T] = f[One(T)] + g[T \ {One(T)}]
        BY <1>1, <2>2, <4>1 DEF IsSum
      <4>7. QED
        BY <4>5, <4>6
    <3>3. QED
      BY <3>1, <3>2
  <2>5. N = Nat
    <3>1. N \in SUBSET Nat
      OBVIOUS
    <3> HIDE DEF N
    <3>2. QED
      BY <2>3, <2>4, <3>1, SetInduction
  <2>6. Cardinality(U) \in N
    BY <2>1, <2>5
  <2>7. h[U] = g[U]
    BY <2>6
  <2>8. QED
    BY <2>2, <2>7
<1>3. {} \in SUBSET S /\ S \ {One(S)} \in SUBSET S /\ S \in SUBSET S
  OBVIOUS
<1>4. g[{}] = 0 /\ (S # {} => g[S] = f[One(S)] + g[S \ {One(S)}])
  BY <1>1, <1>3 DEF IsSum
<1>5. QED
  BY <1>2, <1>3, <1>4

\* A sum of integers is an integer.
LEMMA SumTyped ==
    ASSUME NEW f, NEW S, IsFiniteSet(S), \A x \in S : f[x] \in Int
    PROVE  SumFunctionOnSet(f, S) \in Int
<1> DEFINE N == {n \in Nat : \A T \in SUBSET S : Cardinality(T) = n => SumFunctionOnSet(f, T) \in Int}
<1>1. \A T \in SUBSET S : IsFiniteSet(T) /\ Cardinality(T) \in Nat
  BY FS_Subset, FS_CardinalityType
<1>2. 0 \in N
  <2>1. \A T \in SUBSET S : Cardinality(T) = 0 => T = {}
    BY <1>1, FS_EmptySet
  <2>2. SumFunctionOnSet(f, {}) \in Int
    <3>1. SumFunctionOnSet(f, {}) = 0
      BY SumOne
    <3>2. QED
      BY <3>1
  <2>3. QED
    BY <2>1, <2>2
<1>3. ASSUME NEW n \in N
      PROVE  n + 1 \in N
  <2>1. n \in Nat /\ n + 1 \in Nat /\ n + 1 # 0
    OBVIOUS
  <2>2. ASSUME NEW T \in SUBSET S, Cardinality(T) = n + 1
        PROVE  SumFunctionOnSet(f, T) \in Int
    <3>1. T # {}
      <4>1. Cardinality({}) = 0
        BY FS_EmptySet
      <4>2. QED
        BY <2>1, <2>2, <4>1
    <3>2. One(T) \in T
      BY <3>1, OneIs
    <3>3. Cardinality(T \ {One(T)}) = Cardinality(T) - 1
      BY <1>1, <3>2, FS_RemoveElement
    <3>4. Cardinality(T \ {One(T)}) = n
      BY <2>1, <2>2, <3>3
    <3>5. SumFunctionOnSet(f, T \ {One(T)}) \in Int /\ f[One(T)] \in Int
      BY <3>2, <3>4
    <3>6. SumFunctionOnSet(f, T) = f[One(T)] + SumFunctionOnSet(f, T \ {One(T)})
      BY <1>1, <3>1, SumOne
    <3>7. QED
      BY <3>5, <3>6
  <2>3. QED
    BY <2>1, <2>2
<1>4. N = Nat
  <2>1. N \in SUBSET Nat
    OBVIOUS
  <2> HIDE DEF N
  <2>2. QED
    BY <1>2, <1>3, <2>1, SetInduction
<1>5. Cardinality(S) \in N
  BY <1>1, <1>4
<1>6. QED
  BY <1>5

\* A sum of integers is an integer, whichever element is taken off first.
LEMMA SumTake ==
    ASSUME NEW f, NEW S, IsFiniteSet(S), \A x \in S : f[x] \in Int
    PROVE  /\ SumFunctionOnSet(f, {}) = 0
           /\ SumFunctionOnSet(f, S) \in Int
           /\ \A x \in S : SumFunctionOnSet(f, S) = f[x] + SumFunctionOnSet(f, S \ {x})
<1> DEFINE Good(T) == /\ SumFunctionOnSet(f, T) \in Int
                      /\ \A x \in T : SumFunctionOnSet(f, T) = f[x] + SumFunctionOnSet(f, T \ {x})
           N == {n \in Nat : \A T \in SUBSET S : Cardinality(T) = n => Good(T)}
<1>1. \A T \in SUBSET S : IsFiniteSet(T) /\ Cardinality(T) \in Nat
  BY FS_Subset, FS_CardinalityType
<1>2. SumFunctionOnSet(f, {}) = 0
  BY SumOne
<1>3. 0 \in N
  <2>1. \A T \in SUBSET S : Cardinality(T) = 0 => T = {}
    BY <1>1, FS_EmptySet
  <2>2. Good({})
    BY <1>2
  <2> HIDE DEF Good
  <2>3. QED
    BY <2>1, <2>2
<1>4. ASSUME NEW n \in N
      PROVE  n + 1 \in N
  <2>1. n \in Nat /\ n + 1 \in Nat /\ n + 1 # 0
    OBVIOUS
  <2>2. ASSUME NEW T \in SUBSET S, Cardinality(T) = n + 1
        PROVE  Good(T)
    <3>1. T # {}
      <4>1. Cardinality({}) = 0
        BY FS_EmptySet
      <4>2. QED
        BY <2>1, <2>2, <4>1
    <3>2. One(T) \in T
      BY <3>1, OneIs
    <3>3. ASSUME NEW x \in T
          PROVE  T \ {x} \in SUBSET S /\ Good(T \ {x})
      <4>1. Cardinality(T \ {x}) = Cardinality(T) - 1
        BY <1>1, FS_RemoveElement
      <4>2. Cardinality(T \ {x}) = n
        BY <2>1, <2>2, <4>1
      <4>3. QED
        BY <4>2
    <3>4. SumFunctionOnSet(f, T) = f[One(T)] + SumFunctionOnSet(f, T \ {One(T)})
      BY <1>1, <3>1, SumOne
    <3>5. ASSUME NEW x \in T
          PROVE  SumFunctionOnSet(f, T) = f[x] + SumFunctionOnSet(f, T \ {x})
      <4>1. CASE x = One(T)
        BY <3>4, <4>1
      <4>2. CASE x # One(T)
        <5>1. PICK y : y = One(T) /\ y \in T /\ y # x
          BY <3>2, <4>2
        <5>2. x \in T \ {y} /\ y \in T \ {x} /\ (T \ {y}) \ {x} = (T \ {x}) \ {y}
          BY <5>1
        <5>3. SumFunctionOnSet(f, T \ {y}) = f[x] + SumFunctionOnSet(f, (T \ {x}) \ {y})
          BY <3>3, <5>1, <5>2
        <5>4. SumFunctionOnSet(f, T \ {x}) = f[y] + SumFunctionOnSet(f, (T \ {x}) \ {y})
          BY <3>3, <5>2
        <5>5. SumFunctionOnSet(f, (T \ {x}) \ {y}) \in Int
          <6>1. IsFiniteSet((T \ {x}) \ {y}) /\ (T \ {x}) \ {y} \in SUBSET S
            <7>1. (T \ {x}) \ {y} \in SUBSET S
              OBVIOUS
            <7>2. QED
              BY <1>1, <7>1
          <6>2. QED
            BY <6>1, SumTyped
        <5>6. f[x] \in Int /\ f[y] \in Int
          BY <5>1
        <5>7. PICK u \in Int, a \in Int, b \in Int :
                 u = SumFunctionOnSet(f, (T \ {x}) \ {y}) /\ a = f[x] /\ b = f[y]
          BY <5>5, <5>6
        <5>8. QED
          BY <3>4, <5>1, <5>3, <5>4, <5>7
      <4>3. QED
        BY <4>1, <4>2
    <3>6. QED
      BY <3>2, <3>3, <3>4, <3>5
  <2>3. QED
    BY <2>1, <2>2
<1>5. N = Nat
  <2>1. N \in SUBSET Nat
    OBVIOUS
  <2> HIDE DEF N
  <2>2. QED
    BY <1>3, <1>4, <2>1, SetInduction
<1>6. Good(S)
  <2>1. Cardinality(S) \in N
    BY <1>1, <1>5
  <2> HIDE DEF Good
  <2>2. QED
    BY <2>1
<1>7. QED
  BY <1>2, <1>6

\* What one element more adds.
LEMMA SumAdd ==
    ASSUME NEW f, NEW S, IsFiniteSet(S), \A x \in S : f[x] \in Int, NEW T \in SUBSET S, NEW x \in S \ T
    PROVE  /\ SumFunctionOnSet(f, T) \in Int
           /\ SumFunctionOnSet(f, T \cup {x}) = f[x] + SumFunctionOnSet(f, T)
<1>1. T \cup {x} \in SUBSET S /\ IsFiniteSet(T \cup {x}) /\ IsFiniteSet(T)
  <2>1. T \cup {x} \in SUBSET S /\ T \in SUBSET S
    OBVIOUS
  <2>2. QED
    BY <2>1, FS_Subset
<1>2. x \in T \cup {x} /\ (T \cup {x}) \ {x} = T
  OBVIOUS
<1>3. \A y \in T \cup {x} : f[y] \in Int
  OBVIOUS
<1>4. \A y \in T \cup {x} : SumFunctionOnSet(f, T \cup {x}) = f[y] + SumFunctionOnSet(f, (T \cup {x}) \ {y})
  BY <1>1, <1>3, SumTake
<1>5. QED
  BY <1>1, <1>2, <1>4, SumTyped

\* Sums of sums: h is a times f plus b times g.
LEMMA SumLinear ==
    ASSUME NEW f, NEW g, NEW h, NEW a \in Int, NEW b \in Int, NEW S, IsFiniteSet(S),
           \A x \in S : f[x] \in Int /\ g[x] \in Int /\ h[x] = a * f[x] + b * g[x]
    PROVE  SumFunctionOnSet(h, S) = a * SumFunctionOnSet(f, S) + b * SumFunctionOnSet(g, S)
<1> DEFINE P == {T \in SUBSET S :
                   SumFunctionOnSet(h, T) = a * SumFunctionOnSet(f, T) + b * SumFunctionOnSet(g, T)}
<1>1. \A x \in S : f[x] \in Int /\ g[x] \in Int /\ h[x] \in Int
  OBVIOUS
<1>2. {} \in P
  <2>1. SumFunctionOnSet(f, {}) = 0 /\ SumFunctionOnSet(g, {}) = 0 /\ SumFunctionOnSet(h, {}) = 0
    BY SumOne
  <2>2. a * 0 + b * 0 = 0
    OBVIOUS
  <2>3. QED
    BY <2>1, <2>2
<1>3. ASSUME NEW T \in P, NEW x \in S \ T
      PROVE  T \cup {x} \in P
  <2>1. T \in SUBSET S /\ x \in S
    OBVIOUS
  <2>2. /\ SumFunctionOnSet(f, T) \in Int /\ SumFunctionOnSet(f, T \cup {x}) = f[x] + SumFunctionOnSet(f, T)
        /\ SumFunctionOnSet(g, T) \in Int /\ SumFunctionOnSet(g, T \cup {x}) = g[x] + SumFunctionOnSet(g, T)
        /\ SumFunctionOnSet(h, T) \in Int /\ SumFunctionOnSet(h, T \cup {x}) = h[x] + SumFunctionOnSet(h, T)
    BY <1>1, <2>1, SumAdd
  <2>3. SumFunctionOnSet(h, T) = a * SumFunctionOnSet(f, T) + b * SumFunctionOnSet(g, T)
    OBVIOUS
  <2>4. PICK p \in Int, q \in Int, u \in Int, v \in Int :
          p = SumFunctionOnSet(f, T) /\ q = SumFunctionOnSet(g, T) /\ u = f[x] /\ v = g[x]
    BY <1>1, <2>1, <2>2
  <2>5. h[x] + (a * p + b * q) = a * (u + p) + b * (v + q)
    <3>1. h[x] = a * u + b * v
      BY <2>1, <2>4
    <3>2. QED
      BY <2>4, <3>1
  <2>6. QED
    BY <2>1, <2>2, <2>3, <2>4, <2>5
<1>4. S \in P
  <2>1. P \in SUBSET (SUBSET S)
    OBVIOUS
  <2> HIDE DEF P
  <2>2. QED
    BY <1>2, <1>3, <2>1, FiniteInduction
<1>5. QED
  BY <1>4

\* Equal numbers have equal sums.
LEMMA SumSame ==
    ASSUME NEW f, NEW g, NEW S, IsFiniteSet(S), \A x \in S : f[x] \in Int /\ g[x] = f[x]
    PROVE  SumFunctionOnSet(g, S) = SumFunctionOnSet(f, S)
<1>1. \A x \in S : f[x] \in Int /\ f[x] \in Int /\ g[x] = 1 * f[x] + 0 * f[x]
  OBVIOUS
<1>2. PICK s \in Int : s = SumFunctionOnSet(f, S)
  BY SumTyped
<1>3. SumFunctionOnSet(g, S) = 1 * SumFunctionOnSet(f, S) + 0 * SumFunctionOnSet(f, S)
  BY <1>1, SumLinear
<1>4. QED
  BY <1>2, <1>3

\* Summed over names of its elements, each of one name, a set has the same sum.
LEMMA SumOnto ==
    ASSUME NEW f, NEW g, NEW q, NEW D, IsFiniteSet(D), \A k, l \in D : q[k] = q[l] => k = l,
           \A k \in D : f[q[k]] \in Int /\ g[k] = f[q[k]]
    PROVE  SumFunctionOnSet(g, D) = SumFunctionOnSet(f, {q[k] : k \in D})
<1> DEFINE P == {T \in SUBSET D : SumFunctionOnSet(g, T) = SumFunctionOnSet(f, {q[k] : k \in T})}
           R == {q[k] : k \in D}
<1>1. IsFiniteSet(R)
  <2>1. PICK h : h = [k \in D |-> q[k]]
    OBVIOUS
  <2>2. h \in Surjection(D, R)
    BY <2>1 DEF Surjection
  <2>3. QED
    BY <2>2, FS_Surjection
<1>2. (\A k \in D : g[k] \in Int) /\ (\A y \in R : f[y] \in Int)
  OBVIOUS
<1>3. {} \in P
  <2>1. {q[k] : k \in {}} = {}
    OBVIOUS
  <2>2. QED
    BY <2>1, SumOne
<1>4. ASSUME NEW T \in P, NEW x \in D \ T
      PROVE  T \cup {x} \in P
  <2>1. T \in SUBSET D /\ x \in D /\ SumFunctionOnSet(g, T) = SumFunctionOnSet(f, {q[k] : k \in T})
    OBVIOUS
  <2>2. {q[k] : k \in T} \in SUBSET R /\ q[x] \in R \ {q[k] : k \in T}
    BY <2>1
  <2>3. {q[k] : k \in T \cup {x}} = {q[k] : k \in T} \cup {q[x]}
    OBVIOUS
  <2>4. SumFunctionOnSet(g, T \cup {x}) = g[x] + SumFunctionOnSet(g, T)
    BY <1>2, <2>1, SumAdd
  <2>5. SumFunctionOnSet(f, {q[k] : k \in T} \cup {q[x]}) = f[q[x]] + SumFunctionOnSet(f, {q[k] : k \in T})
    <3>1. PICK U, V : U = {q[k] : k \in T} /\ V = R
      OBVIOUS
    <3>2. IsFiniteSet(V) /\ U \in SUBSET V /\ q[x] \in V \ U /\ \A y \in V : f[y] \in Int
      BY <1>1, <1>2, <2>2, <3>1
    <3>3. SumFunctionOnSet(f, U \cup {q[x]}) = f[q[x]] + SumFunctionOnSet(f, U)
      BY ONLY <3>2, SumAdd
    <3>4. QED
      BY <3>1, <3>3
  <2>6. QED
    BY <2>1, <2>3, <2>4, <2>5
<1>5. D \in P
  <2>1. P \in SUBSET (SUBSET D)
    OBVIOUS
  <2> HIDE DEF P
  <2>2. QED
    BY <1>3, <1>4, <2>1, FiniteInduction
<1>6. QED
  BY <1>5

\* Ones add up to how many they are, and a sum does not see zeroes: the numbers are v on T and zero
\* elsewhere.
LEMMA SumConstant ==
    ASSUME NEW f, NEW v \in Int, NEW S, IsFiniteSet(S), NEW T \in SUBSET S,
           \A x \in S : f[x] = IF x \in T THEN v ELSE 0
    PROVE  SumFunctionOnSet(f, S) = v * Cardinality(T)
<1> DEFINE P == {U \in SUBSET S : SumFunctionOnSet(f, U) = v * Cardinality(U \cap T)}
<1>1. \A x \in S : f[x] \in Int
  OBVIOUS
<1>2. {} \in P
  <2>1. {} \cap T = {} /\ Cardinality({}) = 0 /\ v * 0 = 0
    BY FS_EmptySet
  <2>2. SumFunctionOnSet(f, {}) = 0
    BY SumOne
  <2>3. QED
    BY <2>1, <2>2
<1>3. ASSUME NEW U \in P, NEW x \in S \ U
      PROVE  U \cup {x} \in P
  <2>1. U \in SUBSET S /\ x \in S /\ x \notin U /\ SumFunctionOnSet(f, U) = v * Cardinality(U \cap T)
    OBVIOUS
  <2>2. SumFunctionOnSet(f, U \cup {x}) = f[x] + SumFunctionOnSet(f, U)
    BY <1>1, <2>1, SumAdd
  <2>3. U \cap T \in SUBSET S
    BY <2>1
  <2>4. PICK n \in Nat : n = Cardinality(U \cap T)
    BY <2>3, FS_Subset, FS_CardinalityType
  <2>5. IsFiniteSet(U \cap T)
    BY <2>3, FS_Subset
  <2>6. CASE x \in T
    <3>1. (U \cup {x}) \cap T = (U \cap T) \cup {x} /\ x \notin U \cap T
      BY <2>1, <2>6
    <3>2. Cardinality((U \cap T) \cup {x}) = n + 1
      BY <2>4, <2>5, <3>1, FS_AddElement
    <3>3. f[x] = v /\ v + v * n = v * (n + 1)
      BY <2>1, <2>6
    <3>4. SumFunctionOnSet(f, U \cup {x}) = v * Cardinality((U \cup {x}) \cap T)
      BY <2>1, <2>2, <2>4, <3>1, <3>2, <3>3
    <3>5. QED
      BY <2>1, <3>4
  <2>7. CASE x \notin T
    <3>1. (U \cup {x}) \cap T = U \cap T
      BY <2>1, <2>7
    <3>2. f[x] = 0 /\ 0 + v * n = v * n
      BY <2>1, <2>7
    <3>3. SumFunctionOnSet(f, U \cup {x}) = v * Cardinality((U \cup {x}) \cap T)
      BY <2>1, <2>2, <2>4, <3>1, <3>2
    <3>4. QED
      BY <2>1, <3>3
  <2>8. QED
    BY <2>6, <2>7
<1>4. S \in P
  <2>1. P \in SUBSET (SUBSET S)
    OBVIOUS
  <2> HIDE DEF P
  <2>2. QED
    BY <1>2, <1>3, <2>1, FiniteInduction
<1>5. S \cap T = T
  OBVIOUS
<1>6. QED
  BY <1>4, <1>5

\* Numbers that are zero outside of a part have the part's sum.
LEMMA SumWithin ==
    ASSUME NEW f, NEW S, IsFiniteSet(S), NEW T \in SUBSET S, \A x \in S : f[x] \in Int,
           \A x \in S \ T : f[x] = 0
    PROVE  SumFunctionOnSet(f, S) = SumFunctionOnSet(f, T)
<1> DEFINE P == {U \in SUBSET S : SumFunctionOnSet(f, U) = SumFunctionOnSet(f, U \cap T)}
<1>1. {} \in P
  <2>1. {} \cap T = {}
    OBVIOUS
  <2>2. QED
    BY <2>1
<1>2. ASSUME NEW U \in P, NEW x \in S \ U
      PROVE  U \cup {x} \in P
  <2>1. U \in SUBSET S /\ x \in S /\ x \notin U /\ SumFunctionOnSet(f, U) = SumFunctionOnSet(f, U \cap T)
    OBVIOUS
  <2>2. SumFunctionOnSet(f, U \cup {x}) = f[x] + SumFunctionOnSet(f, U) /\ SumFunctionOnSet(f, U) \in Int
    BY <2>1, SumAdd
  <2>3. CASE x \in T
    <3>1. PICK V : V = U \cap T
      OBVIOUS
    <3>2. (U \cup {x}) \cap T = V \cup {x} /\ x \in S \ V /\ V \in SUBSET S
      BY <2>1, <2>3, <3>1
    <3>a. SumFunctionOnSet(f, V \cup {x}) = f[x] + SumFunctionOnSet(f, V)
      BY <3>2, SumAdd
    <3>3. QED
      BY <2>1, <2>2, <3>1, <3>2, <3>a
  <2>4. CASE x \notin T
    <3>1. (U \cup {x}) \cap T = U \cap T /\ f[x] = 0
      BY <2>1, <2>4
    <3>2. SumFunctionOnSet(f, U \cup {x}) = SumFunctionOnSet(f, U)
      BY <2>2, <3>1
    <3>3. U \cup {x} \in SUBSET S
      BY <2>1
    <3>4. QED
      BY <2>1, <3>1, <3>2, <3>3
  <2>5. QED
    BY <2>3, <2>4
<1>3. S \in P
  <2>1. P \in SUBSET (SUBSET S)
    OBVIOUS
  <2> HIDE DEF P
  <2>2. QED
    BY <1>1, <1>2, <2>1, FiniteInduction
<1>4. S \cap T = T
  OBVIOUS
<1>5. QED
  BY <1>3, <1>4

\* Zeroes add up to zero.
LEMMA SumZero ==
    ASSUME NEW f, NEW S, IsFiniteSet(S), \A x \in S : f[x] = 0
    PROVE  SumFunctionOnSet(f, S) = 0
<1>1. PICK T : T = {}
  OBVIOUS
<1>2. T \in SUBSET S /\ (\A x \in S : f[x] \in Int) /\ (\A x \in S \ T : f[x] = 0)
  BY <1>1
<1>3. SumFunctionOnSet(f, S) = SumFunctionOnSet(f, T)
  BY ONLY <1>2, IsFiniteSet(S), SumWithin
<1>4. SumFunctionOnSet(f, {}) = 0
  BY SumOne
<1>5. QED
  BY <1>1, <1>3, <1>4
=============================================================================
