---------------------- MODULE GenericGenerationProofs ----------------------
(***************************************************************************)
(* Proof that what runs of the generic pipelines leave in a directory is   *)
(* what its report says, for any set of runs, arguments and fields, any    *)
(* contents and any number of changes of the files they read.              *)
(*                                                                         *)
(* First the shape of the programs: what Steps(d) is made of (Shape, Reads *)
(* and Whole).  Then GenerationInv, inductive, a lemma for each of its     *)
(* parts; last, what the parts of GenerationIsTrue follow from.            *)
(***************************************************************************)
EXTENDS GenericGeneration, DataLemmas
USE DEF genericVars
\* The steps a program is made of: on files that are read, on outputs, and once in a run.
FileSteps == {"identify", "load", "verify"} \X ReadFiles
Readings  == FileSteps \cup {<<"directory", "run">>}
Savings   == ({"save", "digest"} \X OutputNames) \cup ({"refuse"} \X Fields)
Marks     == {"open", "reserve", "retire", "safety", "report"} \X {"run"}
AllSteps  == Readings \cup Savings \cup Marks

\* Steps that do not read file f; that identify it; that load it and verify it later; that do all three.
Leaves(P, f) == \A i \in 1..Len(P) : P[i] # <<"identify", f>> /\ P[i] # <<"load", f>>
IdentifiesAt(P, f, a) == \A i \in 1..Len(P) : (P[i] = <<"identify", f>> <=> i = a) /\ P[i] # <<"load", f>>
Identifies(P, f) == \E a \in 1..Len(P) : IdentifiesAt(P, f, a)
LoadsAt(P, f, b, c) ==
    /\ b < c /\ P[c] = <<"verify", f>>
    /\ \A i \in 1..Len(P) : P[i] # <<"identify", f>> /\ (P[i] = <<"load", f>> <=> i = b)
Loads(P, f) == \E b, c \in 1..Len(P) : LoadsAt(P, f, b, c)
ReadsAt(P, f, a, b, c) ==
    /\ a < b /\ b < c /\ P[c] = <<"verify", f>>
    /\ \A i \in 1..Len(P) : (P[i] = <<"identify", f>> <=> i = a) /\ (P[i] = <<"load", f>> <=> i = b)
Reads(P, f) == \E a, b, c \in 1..Len(P) : ReadsAt(P, f, a, b, c)

\* A program that reads in r steps and then, if it is not to prepare only, publishes.
Shape(P, j, r) ==
    /\ P \in Seq(AllSteps) /\ r \in 0..Len(P)
    /\ \A i \in 1..Len(P) : P[i] \in Readings <=> i <= r
    /\ j.preparing => Len(P) = r
    /\ ~j.preparing => r + 2 < Len(P) /\ P[r + 1] = <<"open", "run">> /\ P[Len(P)] = <<"report", "run">>
    /\ ~j.preparing /\ j.overwrite =>
          r + 4 < Len(P) /\ P[r + 2] = <<"reserve", "run">> /\ P[r + 3] = <<"retire", "run">>
    /\ \A i \in 1..Len(P) : /\ P[i][1] = "open" => i = r + 1
                            /\ P[i][1] = "reserve" => j.overwrite /\ i = r + 2
                            /\ P[i][1] = "retire" => j.overwrite /\ i = r + 3
                            /\ P[i][1] = "report" => i = Len(P)
                            /\ P[i][1] = "refuse" => i < Len(P)
    /\ \A i \in 1..Len(P) : P[i][1] = "digest" => i - 1 \in 1..Len(P) /\ P[i - 1] = <<"save", P[i][2]>>
    /\ \A i, k \in 1..Len(P) : P[i][1] = "digest" /\ P[i] = P[k] => i = k
    /\ \A f \in ReadFiles : Leaves(P, f) \/ Reads(P, f)

\* The length of the reading part; the outputs a program digests; whether it refuses a field.
ReadLength(d) == CHOOSE r \in 0..Len(program[d]) : Shape(program[d], asked[d], r)
Digests(P) == {n \in OutputNames : \E i \in DOMAIN P : P[i] = <<"digest", n>>}
Refuses(P) == \E i \in DOMAIN P : P[i][1] = "refuse"

\* The outputs of the fields run d saves.
Expected(d) ==
    {<<n, 0>> : n \in {n \in Fields : SavesTensor(d, n)}}
    \cup UNION {{<<n, k>> : k \in 1..asked[d].returned[n]} : n \in {n \in Fields : SavesMedia(d, n)}}

\* What a run saves that refuses nothing.
Whole(d) ==
    /\ Digests(program[d]) = Expected(d) /\ ~Undeclared(d)
    /\ \A n \in Fields : IsDeclared(d, n) => Returns(d, n)
    /\ \A n \in Fields : SavesMedia(d, n) => asked[d].returned[n] # 0
    /\ \E n \in Fields : SavesTensor(d, n) \/ SavesMedia(d, n)

\* Every run has a program of that shape.
Programs ==
    /\ DOMAIN asked \subseteq Drawers
    /\ \A d \in DOMAIN asked :
          /\ IsJob(asked[d])
          /\ ReadLength(d) \in 0..Len(program[d]) /\ Shape(program[d], asked[d], ReadLength(d))
          /\ ~asked[d].preparing /\ ~Refuses(program[d]) => Whole(d)

\* Run d takes its next step; run d stops; nothing but files that are read is changed.
Advance(d) ==
    /\ ending[d] = "run" /\ passed[d] < Len(program[d])
    /\ passed' = [passed EXCEPT ![d] = @ + 1]
    /\ asked' = asked /\ program' = program /\ ending' = ending
Skip(d) == Reserve(d) /\ manifest = NoManifest
Stop(d) == Finish(d) \/ FailRun(d) \/ KillRun(d)

\* The types of the variables.
State == [content : SourceStates, changes : 0..MaxChanges]
Entry == [name : OutputNames, of : Drawers]
Report == [by : Drawers \cup {Nothing, Other}, lists : SUBSET Entry]

Types ==
    /\ ending \in [Drawers -> {"run", "complete", "failed"}]
    /\ passed \in [Drawers -> Nat]
    /\ \A d \in DOMAIN asked : passed[d] <= Len(program[d])
    /\ source \in [ReadFiles -> State]
    /\ identity \in [Drawers -> [ReadFiles -> State]]
    /\ loaded \in [Drawers -> [ReadFiles -> State]]
    /\ place \in [OutputNames -> Drawers \cup {Nothing, Other}]
    /\ manifest \in Report
    /\ aside \in [Drawers -> Report]
    /\ listed \in [Drawers -> Seq(Entry)]
    /\ met \in [Drawers -> SUBSET DOMAIN asked]

\* Run d has begun to publish, and is not at its end.
Inside(d) == /\ ending[d] = "run" /\ ~asked[d].preparing
             /\ ReadLength(d) + 1 <= passed[d] /\ passed[d] < Len(program[d])

\* Run d has taken step s.
Took(d, s) == \E i \in 1..passed[d] : program[d][i] = s

\* A run that completed took all its steps; no refusal is passed; what was saved is of some run.
RunInv == \A d \in DOMAIN asked :
    /\ ending[d] = "complete" => passed[d] = Len(program[d])
    /\ \A n \in Fields : ~Took(d, <<"refuse", n>>)
    /\ \A n \in OutputNames : Took(d, <<"save", n>>) => place[n] \in Drawers

\* A run has put a report aside only after it reserved a name, which it does with an empty file.
AsideInv == \A d \in DOMAIN asked :
    /\ ~asked[d].overwrite \/ passed[d] <= ReadLength(d) + 1 => aside[d] = NoManifest
    /\ asked[d].overwrite /\ ending[d] = "run" /\ passed[d] = ReadLength(d) + 2 => aside[d] = EmptyManifest

\* A run lists the outputs it has digested, each once.
ListInv == \A d \in DOMAIN asked :
    /\ {o.name : o \in ToSet(listed[d])} = {n \in OutputNames : Took(d, <<"digest", n>>)}
    /\ \A i, k \in 1..Len(listed[d]) : listed[d][i].name = listed[d][k].name => i = k

\* Two runs that publish at the same time have met.
MetInv == \A d, e \in DOMAIN asked : d # e /\ Inside(d) /\ Inside(e) => e \in met[d]

\* What run d has saved and listed is its own, while no overwriting run has published beside it.
Holds(d) == /\ \A n \in OutputNames : Took(d, <<"save", n>>) => place[n] = d
            /\ \A o \in ToSet(listed[d]) : o.of = d

OwnInv == \A d \in DOMAIN asked : Inside(d) /\ ~Overlapped(d) => Holds(d)

\* The report that run d writes.
Filed(d) == [by |-> d, lists |-> ToSet(listed[d])]

\* The report is of a run that has published, and of what is there; who may remove it met its run.
ManifestInv == \A d \in Drawers : manifest.by = d =>
    /\ d \in DOMAIN asked /\ ~asked[d].preparing /\ passed[d] = Len(program[d])
    /\ manifest = Filed(d)
    /\ ~Overlapped(d) => Holds(d)
    /\ \A e \in DOMAIN asked : asked[e].overwrite /\ Inside(e) /\ ReadLength(e) + 3 <= passed[e] => e \in met[d]

\* The report of a run is there or put aside.
LostInv == \A d \in DOMAIN asked : passed[d] = Len(program[d]) /\ ~asked[d].preparing /\ ~Overlapped(d) =>
    manifest = Filed(d) \/ \E e \in Drawers : aside[e] = Filed(d)

\* The state x of a file, and a later one.
Before(x, y) == x.changes <= y.changes /\ (x.changes = y.changes => x = y)

\* What run d loaded is what it identified, or the file was changed and changed back.
Verified(d, f) ==
    \/ loaded[d][f].content = identity[d][f].content
    \/ /\ ~(asked[d].metadata /\ f \in ReadWeights)
       /\ loaded[d][f].changes > identity[d][f].changes /\ source[f].changes > loaded[d][f].changes

\* What run d knows of file f is of states it had, and verified.
Kept(d, f) ==
    /\ Before(identity[d][f], source[f]) /\ Before(loaded[d][f], source[f])
    /\ Took(d, <<"load", f>>) => Before(identity[d][f], loaded[d][f])
    /\ Leaves(program[d], f) => loaded[d][f] = identity[d][f]
    /\ \A c \in 1..passed[d] :
          program[d][c] = <<"verify", f>> /\ (\E b \in 1..c : program[d][b] = <<"load", f>>) => Verified(d, f)

\* What every run knows of every file is so.
SourceInv == \A d \in DOMAIN asked, f \in ReadFiles : Kept(d, f)

\* What every reachable state of the runs is: the invariant that is inductive.
GenerationInv == /\ Programs /\ Types /\ RunInv /\ AsideInv /\ ListInv
                 /\ MetInv /\ OwnInv /\ ManifestInv /\ LostInv /\ SourceInv
-----------------------------------------------------------------------------
(* The part of a program that saves. *)

\* Saves each output before its digest, and digests no output twice.
SavePart(P) ==
    /\ P \in Seq(Savings)
    /\ \A i \in 1..Len(P) : P[i][1] = "digest" => i - 1 \in 1..Len(P) /\ P[i - 1] = <<"save", P[i][2]>>
    /\ \A i, k \in 1..Len(P) : P[i][1] = "digest" /\ P[i] = P[k] => i = k

\* The steps of two programs put one after the other.
LEMMA ConcatSteps ==
    ASSUME NEW T, NEW s \in Seq(T), NEW t \in Seq(T)
    PROVE  /\ s \o t \in Seq(T) /\ Len(s \o t) = Len(s) + Len(t)
           /\ Len(s) \in Nat /\ Len(t) \in Nat
           /\ DOMAIN s = 1..Len(s) /\ DOMAIN t = 1..Len(t) /\ DOMAIN (s \o t) = 1..Len(s) + Len(t)
           /\ \A i \in 1..Len(s) : (s \o t)[i] = s[i]
           /\ \A i \in 1..Len(t) : (s \o t)[Len(s) + i] = t[i]
           /\ \A i \in 1..Len(s) + Len(t) : i > Len(s) => i - Len(s) \in 1..Len(t) /\ (s \o t)[i] = t[i - Len(s)]
OBVIOUS

\* They digest what both do, and refuse if one does.
LEMMA ConcatDigests ==
    ASSUME NEW T, NEW s \in Seq(T), NEW t \in Seq(T)
    PROVE  /\ Digests(s \o t) = Digests(s) \cup Digests(t)
           /\ Refuses(s \o t) <=> Refuses(s) \/ Refuses(t)
<1> DEFINE u == s \o t
           m == Len(s)
           n == Len(t)
<1>1. /\ Len(u) = m + n /\ m \in Nat /\ n \in Nat
      /\ DOMAIN s = 1..m /\ DOMAIN t = 1..n /\ DOMAIN u = 1..m + n
      /\ \A i \in 1..m : u[i] = s[i]
      /\ \A i \in 1..n : u[m + i] = t[i]
      /\ \A i \in 1..m + n : i > m => i - m \in 1..n /\ u[i] = t[i - m]
  BY ONLY s \in Seq(T), t \in Seq(T), ConcatSteps
<1> HIDE DEF u, m, n
<1>2. Digests(u) = Digests(s) \cup Digests(t)
  <2>1. \A i \in 1..m : i \in 1..m + n
    BY <1>1
  <2>2. \A i \in 1..n : m + i \in 1..m + n
    BY <1>1
  <2>3. \A i \in 1..m + n : i \in 1..m \/ (i > m /\ i - m \in 1..n)
    BY <1>1
  <2>4. ASSUME NEW x \in OutputNames, NEW i \in DOMAIN u, u[i] = <<"digest", x>>
        PROVE  x \in Digests(s) \cup Digests(t)
    <3>1. CASE i \in 1..m
      BY <1>1, <2>4, <3>1 DEF Digests
    <3>2. CASE i > m /\ i - m \in 1..n
      BY <1>1, <2>4, <3>2 DEF Digests
    <3>3. QED
      BY <1>1, <2>3, <3>1, <3>2
  <2>5. Digests(s) \subseteq Digests(u)
    BY <1>1, <2>1 DEF Digests
  <2>6. Digests(t) \subseteq Digests(u)
    <3>1. ASSUME NEW x \in OutputNames, NEW i \in DOMAIN t, t[i] = <<"digest", x>>
          PROVE  x \in Digests(u)
      BY <1>1, <2>2, <3>1 DEF Digests
    <3>2. QED
      BY <3>1 DEF Digests
  <2>7. Digests(u) \subseteq Digests(s) \cup Digests(t)
    BY <2>4 DEF Digests
  <2>8. QED
    BY <2>5, <2>6, <2>7
<1>3. Refuses(u) <=> Refuses(s) \/ Refuses(t)
  <2>1. \A i \in 1..m : i \in 1..m + n
    BY <1>1
  <2>2. \A i \in 1..n : m + i \in 1..m + n
    BY <1>1
  <2>3. \A i \in 1..m + n : i \in 1..m \/ (i > m /\ i - m \in 1..n)
    BY <1>1
  <2>4. Refuses(s) => Refuses(u)
    BY <1>1, <2>1 DEF Refuses
  <2>5. Refuses(t) => Refuses(u)
    BY <1>1, <2>2 DEF Refuses
  <2>6. Refuses(u) => Refuses(s) \/ Refuses(t)
    <3>1. ASSUME NEW i \in 1..m + n, u[i][1] = "refuse"
          PROVE  Refuses(s) \/ Refuses(t)
      <4>1. CASE i \in 1..m
        BY <1>1, <3>1, <4>1 DEF Refuses
      <4>2. CASE i > m /\ i - m \in 1..n
        <5>1. t[i - m][1] = "refuse"
          BY <1>1, <3>1, <4>2
        <5>2. QED
          BY <1>1, <4>2, <5>1 DEF Refuses
      <4>3. QED
        BY <2>3, <4>1, <4>2
    <3>2. QED
      BY <1>1, <3>1 DEF Refuses
  <2>7. QED
    BY <2>4, <2>5, <2>6
<1>4. QED
  BY <1>2, <1>3 DEF u

\* Two saving parts of different outputs make one.
LEMMA PartConcat ==
    ASSUME NEW s, NEW t, SavePart(s), SavePart(t), Digests(s) \cap Digests(t) = {}
    PROVE  /\ SavePart(s \o t) /\ Digests(s \o t) = Digests(s) \cup Digests(t)
           /\ Refuses(s \o t) <=> Refuses(s) \/ Refuses(t)
<1>0. s \in Seq(Savings) /\ t \in Seq(Savings)
  BY DEF SavePart
<1> DEFINE u == s \o t
           m == Len(s)
           n == Len(t)
<1>1. /\ u \in Seq(Savings) /\ Len(u) = m + n /\ m \in Nat /\ n \in Nat
      /\ DOMAIN s = 1..m /\ DOMAIN t = 1..n /\ DOMAIN u = 1..m + n
      /\ \A i \in 1..m : u[i] = s[i]
      /\ \A i \in 1..n : u[m + i] = t[i]
      /\ \A i \in 1..m + n : i > m => i - m \in 1..n /\ u[i] = t[i - m]
  BY ONLY <1>0, ConcatSteps
<1> HIDE DEF u, m, n
<1>2. /\ Digests(s \o t) = Digests(s) \cup Digests(t)
      /\ Refuses(s \o t) <=> Refuses(s) \/ Refuses(t)
  BY ONLY <1>0, ConcatDigests
<1>4. ASSUME NEW i \in 1..m + n, u[i][1] = "digest"
      PROVE  i - 1 \in 1..m + n /\ u[i - 1] = <<"save", u[i][2]>>
  <2>1. CASE i \in 1..m
    <3>1. i - 1 \in 1..m /\ s[i - 1] = <<"save", s[i][2]>>
      BY <1>1, <1>4, <2>1 DEF SavePart, m
    <3>2. QED
      BY <1>1, <2>1, <3>1
  <2>2. CASE i > m
    <3>1. i - m \in 1..n /\ u[i] = t[i - m]
      BY <1>1, <2>2
    <3>2. (i - m) - 1 \in 1..n /\ t[(i - m) - 1] = <<"save", t[i - m][2]>>
      BY <1>4, <3>1 DEF SavePart, n
    <3>3. i - 1 \in 1..m + n /\ i - 1 > m /\ (i - 1) - m = (i - m) - 1
      BY <1>1, <3>1, <3>2
    <3>4. u[i - 1] = t[(i - m) - 1]
      BY <1>1, <3>3
    <3>5. QED
      BY <3>1, <3>2, <3>3, <3>4
  <2>3. QED
    BY <1>1, <2>1, <2>2
<1>5. \A i \in 1..m : s[i][1] = "digest" => s[i][2] \in Digests(s) /\ s[i] = <<"digest", s[i][2]>>
  <2>1. ASSUME NEW i \in 1..m, s[i][1] = "digest"
        PROVE  s[i][2] \in Digests(s) /\ s[i] = <<"digest", s[i][2]>>
    <3>1. s[i] \in Savings
      BY <1>0 DEF m
    <3>2. s[i][2] \in OutputNames /\ s[i] = <<"digest", s[i][2]>>
      BY <2>1, <3>1 DEF Savings
    <3>3. QED
      BY <1>1, <3>2 DEF Digests
  <2>2. QED
    BY <2>1
<1>6. \A i \in 1..n : t[i][1] = "digest" => t[i][2] \in Digests(t) /\ t[i] = <<"digest", t[i][2]>>
  <2>1. ASSUME NEW i \in 1..n, t[i][1] = "digest"
        PROVE  t[i][2] \in Digests(t) /\ t[i] = <<"digest", t[i][2]>>
    <3>1. t[i] \in Savings
      BY <1>0 DEF n
    <3>2. t[i][2] \in OutputNames /\ t[i] = <<"digest", t[i][2]>>
      BY <2>1, <3>1 DEF Savings
    <3>3. QED
      BY <1>1, <3>2 DEF Digests
  <2>2. QED
    BY <2>1
<1>7. ASSUME NEW i \in 1..m + n, NEW k \in 1..m + n, u[i][1] = "digest", u[i] = u[k]
      PROVE  i = k
  <2>1. CASE i \in 1..m /\ k \in 1..m
    BY <1>1, <1>7, <2>1 DEF SavePart, m
  <2>2. CASE i > m /\ k > m
    <3>1. i - m \in 1..n /\ k - m \in 1..n /\ t[i - m] = t[k - m] /\ t[i - m][1] = "digest"
      BY <1>1, <1>7, <2>2
    <3>2. i - m = k - m
      BY <3>1 DEF SavePart, n
    <3>3. QED
      BY <1>1, <3>2
  <2>3. CASE i \in 1..m /\ k > m
    <3>1. k - m \in 1..n /\ s[i] = t[k - m] /\ s[i][1] = "digest"
      BY <1>1, <1>7, <2>3
    <3>2. s[i][2] \in Digests(s) /\ s[i][2] \in Digests(t)
      BY <1>5, <1>6, <2>3, <3>1
    <3>3. QED
      BY <3>2
  <2>4. CASE i > m /\ k \in 1..m
    <3>1. i - m \in 1..n /\ s[k] = t[i - m] /\ s[k][1] = "digest"
      BY <1>1, <1>7, <2>4
    <3>2. s[k][2] \in Digests(s) /\ s[k][2] \in Digests(t)
      BY <1>5, <1>6, <2>4, <3>1
    <3>3. QED
      BY <3>2
  <2>5. QED
    BY <1>1, <2>1, <2>2, <2>3, <2>4
<1>8. SavePart(u)
  BY <1>1, <1>4, <1>7 DEF SavePart
<1>9. QED
  BY <1>2, <1>8 DEF u

\* So do any number of them, by induction on how many of them are taken.
LEMMA PartFlatten ==
    ASSUME NEW s \in Seq(Seq(Savings)), \A i \in 1..Len(s) : SavePart(s[i]),
           \A i, k \in 1..Len(s) : i # k => Digests(s[i]) \cap Digests(s[k]) = {}
    PROVE  /\ SavePart(FlattenSeq(s)) /\ Digests(FlattenSeq(s)) = UNION {Digests(s[i]) : i \in 1..Len(s)}
           /\ Refuses(FlattenSeq(s)) <=> \E i \in 1..Len(s) : Refuses(s[i])
<1>1. PICK m \in Nat : m = Len(s)
  OBVIOUS
<1>2. CASE m = 0
  <2>0. Len(s) = 0
    BY <1>1, <1>2
  <2>1. s = <<>> /\ FlattenSeq(s) = <<>>
    <3>1. s = <<>>
      BY <2>0
    <3>2. FlattenSeq(s) = s
      BY <2>0 DEF FlattenSeq
    <3>3. QED
      BY <3>1, <3>2
  <2>2. SavePart(<<>>) /\ Digests(<<>>) = {} /\ ~Refuses(<<>>)
    BY DEF SavePart, Digests, Refuses
  <2>3. 1..Len(s) = {}
    BY <1>1, <1>2
  <2>4. QED
    BY <2>1, <2>2, <2>3
<1>3. CASE m # 0
  <2>1. PICK f : /\ FlattenSeq(s) = f[m] /\ f[1] = s[1]
                 /\ \A i \in 2..m : f[i] = f[i - 1] \o s[i]
    <3>1. m \in Nat \ {0} /\ Len(s) = m
      BY <1>1, <1>3
    <3>2. QED
      BY ONLY <3>1, FlattenRec
  <2> DEFINE Good(l) == /\ SavePart(f[l]) /\ Digests(f[l]) = UNION {Digests(s[i]) : i \in 1..l}
                        /\ Refuses(f[l]) <=> \E i \in 1..l : Refuses(s[i])
             S == {l \in Nat : l + 1 > m \/ Good(l + 1)}
  <2>2. 0 \in S
    <3>1. 1 \in 1..m /\ 1..1 = {1}
      BY <1>3
    <3>2. Good(1)
      BY <1>1, <2>1, <3>1
    <3>3. QED
      BY <3>2
  <2>3. ASSUME NEW l \in S
        PROVE  l + 1 \in S
    <3>0. l \in Nat /\ (l + 1) + 1 = l + 2 /\ (l + 2 > m \/ l + 2 \in 1..m)
      BY <1>1
    <3>1. SUFFICES ASSUME l + 2 \in 1..m PROVE Good(l + 2)
      <4>1. l + 2 > m \/ Good(l + 2)
        BY <3>0
      <4>2. (l + 1) + 1 > m \/ Good((l + 1) + 1)
        BY <3>0, <4>1
      <4>3. QED
        BY <3>0, <4>2
    <3>2. Good(l + 1)
      <4>1. ~(l + 1 > m)
        BY <1>1, <3>0, <3>1
      <4>2. QED
        BY <4>1
    <3>3. l \in Nat /\ l + 2 \in 2..m /\ (l + 2) - 1 = l + 1 /\ l + 2 \notin 1..l + 1
          /\ 1..l + 2 = (1..l + 1) \cup {l + 2} /\ \A i \in 1..l + 1 : i \in 1..m /\ i # l + 2
      BY <3>1
    <3>4. f[l + 2] = f[l + 1] \o s[l + 2]
      BY <2>1, <3>3
    <3>5. Digests(f[l + 1]) \cap Digests(s[l + 2]) = {}
      <4>1. \A i \in 1..l + 1 : Digests(s[i]) \cap Digests(s[l + 2]) = {}
        BY <1>1, <3>1, <3>3
      <4>2. QED
        BY <3>2, <4>1
    <3>6. /\ SavePart(f[l + 2]) /\ Digests(f[l + 2]) = Digests(f[l + 1]) \cup Digests(s[l + 2])
          /\ Refuses(f[l + 2]) <=> Refuses(f[l + 1]) \/ Refuses(s[l + 2])
      BY <1>1, <3>1, <3>2, <3>4, <3>5, PartConcat
    <3>7. QED
      BY <3>2, <3>3, <3>6
  <2>4. S = Nat
    BY <2>2, <2>3, SetInduction
  <2>5. m - 1 \in Nat /\ (m - 1) + 1 = m /\ ~(m > m)
    BY <1>1, <1>3
  <2>6. Good(m)
    <3>1. m - 1 \in S
      BY <2>4, <2>5
    <3>2. (m - 1) + 1 > m \/ Good((m - 1) + 1)
      BY <3>1
    <3>3. QED
      BY <2>5, <3>2
  <2>7. QED
    BY <1>1, <2>1, <2>6
<1>4. QED
  BY <1>2, <1>3

-----------------------------------------------------------------------------
\* The saving part that does nothing.
LEMMA PartOfNothing == SavePart(<<>>) /\ Digests(<<>>) = {} /\ ~Refuses(<<>>)
BY DEF SavePart, Digests, Refuses

\* The saving part of one file.
LEMMA PartOfOutput ==
    ASSUME NEW n \in OutputNames, NEW P, P = <<<<"save", n>>, <<"digest", n>>>>
    PROVE  SavePart(P) /\ Digests(P) = {n} /\ ~Refuses(P)
<1>1. /\ Len(P) = 2 /\ DOMAIN P = 1..2 /\ P[1] = <<"save", n>> /\ P[2] = <<"digest", n>>
      /\ P[1][1] = "save" /\ P[2][1] = "digest" /\ P[2][2] = n
  OBVIOUS
<1>2. P[1] \in Savings /\ P[2] \in Savings
  BY <1>1 DEF Savings
<1>3. P \in Seq(Savings)
  BY <1>2
<1>4. 1..2 = {1, 2} /\ 2 - 1 = 1
  OBVIOUS
<1>5. SavePart(P)
  BY <1>1, <1>3, <1>4 DEF SavePart
<1>6. Digests(P) = {n}
  BY <1>1, <1>4 DEF Digests
<1>7. ~Refuses(P)
  BY <1>1, <1>4 DEF Refuses
<1>8. QED
  BY <1>5, <1>6, <1>7

\* The saving part of a field that is refused.
LEMMA PartOfRefusal ==
    ASSUME NEW n \in Fields, NEW P, P = <<<<"refuse", n>>>>
    PROVE  SavePart(P) /\ Digests(P) = {} /\ Refuses(P)
<1>1. Len(P) = 1 /\ DOMAIN P = 1..1 /\ P[1] = <<"refuse", n>> /\ P[1][1] = "refuse" /\ 1..1 = {1}
  OBVIOUS
<1>2. P[1] \in Savings
  BY <1>1 DEF Savings
<1>3. P \in Seq(Savings)
  BY <1>2
<1>4. QED
  BY <1>1, <1>3 DEF SavePart, Digests, Refuses

\* SaveTensor(): the tensor of a field, or a refusal if it is not returned.
LEMMA PartOfTensor ==
    ASSUME NEW d, NEW n \in Fields
    PROVE  /\ SavePart(SaveTensor(d, n)) /\ (Refuses(SaveTensor(d, n)) <=> ~Returns(d, n))
           /\ Digests(SaveTensor(d, n)) = IF Returns(d, n) THEN {<<n, 0>>} ELSE {}
<1>1. <<n, 0>> \in OutputNames
  BY DEF OutputNames
<1>2. CASE Returns(d, n)
  BY <1>1, <1>2, PartOfOutput DEF SaveTensor
<1>3. CASE ~Returns(d, n)
  BY <1>3, PartOfRefusal DEF SaveTensor
<1>4. QED
  BY <1>2, <1>3

\* SaveMedia(): the files of a field, or a refusal if it is empty.
LEMMA PartOfMedia ==
    ASSUME NEW d, NEW n \in Fields, asked[d].returned[n] \in 0..2
    PROVE  /\ SavePart(SaveMedia(d, n)) /\ (Refuses(SaveMedia(d, n)) <=> asked[d].returned[n] = 0)
           /\ Digests(SaveMedia(d, n)) = {<<n, k>> : k \in 1..asked[d].returned[n]}
<1>1. PICK m : m = asked[d].returned[n]
  OBVIOUS
<1>2. CASE m = 0
  <2>1. SaveMedia(d, n) = <<<<"refuse", n>>>>
    BY <1>1, <1>2 DEF SaveMedia
  <2>2. {<<n, k>> : k \in 1..m} = {}
    BY <1>2
  <2>3. QED
    BY <1>1, <1>2, <2>1, <2>2, PartOfRefusal
<1>3. CASE m # 0
  <2>1. m \in 1..2
    BY <1>1, <1>3
  <2>2. PICK s : s = [i \in 1..m |-> <<<<"save", <<n, i>>>>, <<"digest", <<n, i>>>>>>]
    OBVIOUS
  <2>3. SaveMedia(d, n) = FlattenSeq(s)
    BY <1>1, <1>3, <2>2 DEF SaveMedia
  <2>4. ASSUME NEW i \in 1..m
        PROVE  /\ SavePart(s[i]) /\ Digests(s[i]) = {<<n, i>>} /\ ~Refuses(s[i]) /\ s[i] \in Seq(Savings)
    <3>1. <<n, i>> \in OutputNames
      BY <2>1 DEF OutputNames
    <3>2. s[i] = <<<<"save", <<n, i>>>>, <<"digest", <<n, i>>>>>>
      BY <2>2
    <3>3. SavePart(s[i]) /\ Digests(s[i]) = {<<n, i>>} /\ ~Refuses(s[i])
      BY <3>1, <3>2, PartOfOutput
    <3>4. QED
      BY <3>3 DEF SavePart
  <2>5. s \in Seq(Seq(Savings)) /\ Len(s) = m
    <3>1. m \in Nat
      BY <2>1
    <3>2. s \in [1..m -> Seq(Savings)]
      BY <2>2, <2>4
    <3>3. PICK T : T = Seq(Savings)
      OBVIOUS
    <3>4. s \in [1..m -> T]
      BY <3>2, <3>3
    <3>5. s \in Seq(T) /\ Len(s) = m
      BY ONLY <3>1, <3>4
    <3>6. QED
      BY <3>3, <3>5
  <2>6. \A i, k \in 1..m : i # k => Digests(s[i]) \cap Digests(s[k]) = {}
    <3>1. \A i \in 1..m : Digests(s[i]) = {<<n, i>>}
      BY <2>4
    <3>2. QED
      BY <3>1
  <2>7. /\ SavePart(FlattenSeq(s)) /\ Digests(FlattenSeq(s)) = UNION {Digests(s[i]) : i \in 1..m}
        /\ Refuses(FlattenSeq(s)) <=> \E i \in 1..m : Refuses(s[i])
    BY <2>4, <2>5, <2>6, PartFlatten
  <2>8. UNION {Digests(s[i]) : i \in 1..m} = {<<n, k>> : k \in 1..m}
    BY <2>4
  <2>9. QED
    BY <1>1, <1>3, <2>3, <2>4, <2>7, <2>8
<1>4. QED
  BY <1>2, <1>3

\* The declared fields, one after the other; that they are all different is needed here.
LEMMA PartOfDeclared ==
    ASSUME NEW d, IsJob(asked[d])
    PROVE  /\ SavePart(SaveDeclared(d))
           /\ Refuses(SaveDeclared(d)) <=> \E n \in Fields : IsDeclared(d, n) /\ ~Returns(d, n)
           /\ Digests(SaveDeclared(d)) = {<<n, 0>> : n \in {n \in Fields : IsDeclared(d, n) /\ Returns(d, n)}}
<1>1. PICK names : names = asked[d].declared
  OBVIOUS
<1>2. /\ names \in Seq(Fields) /\ DOMAIN names = 1..Len(names)
      /\ \A i, k \in 1..Len(names) : names[i] = names[k] => i = k
  BY <1>1 DEF IsJob, IsInjective
<1>3. \A n : IsDeclared(d, n) <=> n \in Fields /\ \E i \in 1..Len(names) : names[i] = n
  BY <1>1, <1>2 DEF IsDeclared, ToSet
<1>4. PICK s : s = [i \in DOMAIN names |-> SaveTensor(d, names[i])]
  OBVIOUS
<1>5. SaveDeclared(d) = FlattenSeq(s)
  BY <1>1, <1>4 DEF SaveDeclared
<1>6. PICK m \in Nat : m = Len(names)
  <2>1. names \in Seq(Fields)
    BY <1>2
  <2>2. Len(names) \in Nat
    BY ONLY <2>1
  <2>3. QED
    BY <2>2
<1>7. ASSUME NEW i \in 1..m
      PROVE  /\ SavePart(s[i]) /\ (Refuses(s[i]) <=> ~Returns(d, names[i]))
             /\ Digests(s[i]) = IF Returns(d, names[i]) THEN {<<names[i], 0>>} ELSE {}
             /\ s[i] \in Seq(Savings) /\ names[i] \in Fields
  <2>1. names[i] \in Fields /\ s[i] = SaveTensor(d, names[i])
    <3>1. i \in DOMAIN names /\ i \in 1..Len(names) /\ names \in Seq(Fields)
      BY <1>2, <1>6
    <3>2. names[i] \in Fields
      BY ONLY <3>1
    <3>3. QED
      BY <1>4, <3>1, <3>2
  <2>2. PICK n \in Fields : n = names[i]
    BY <2>1
  <2>3. /\ SavePart(s[i]) /\ (Refuses(s[i]) <=> ~Returns(d, n))
        /\ Digests(s[i]) = IF Returns(d, n) THEN {<<n, 0>>} ELSE {}
    BY <2>1, <2>2, PartOfTensor
  <2>4. s[i] \in Seq(Savings)
    BY <2>3 DEF SavePart
  <2>5. QED
    BY <2>2, <2>3, <2>4
<1>8. s \in Seq(Seq(Savings)) /\ Len(s) = m
  <2>1. m \in Nat /\ DOMAIN s = 1..m /\ s = [i \in DOMAIN names |-> s[i]] /\ DOMAIN names = 1..m
    BY <1>2, <1>4, <1>6
  <2>2. \A i \in 1..m : s[i] \in Seq(Savings)
    BY <1>7
  <2>3. s \in [1..m -> Seq(Savings)]
    BY <2>1, <2>2
  <2>4. PICK T : T = Seq(Savings)
    OBVIOUS
  <2>5. s \in [1..m -> T] /\ m \in Nat
    BY <2>1, <2>3, <2>4
  <2>6. s \in Seq(T) /\ Len(s) = m
    BY ONLY <2>5
  <2>7. QED
    BY <2>4, <2>6
<1>a. \A i \in 1..m : \A x : x \in Digests(s[i]) <=> x = <<names[i], 0>> /\ Returns(d, names[i])
  <2>1. ASSUME NEW i \in 1..m, NEW x
        PROVE  x \in Digests(s[i]) <=> x = <<names[i], 0>> /\ Returns(d, names[i])
    <3>1. Digests(s[i]) = IF Returns(d, names[i]) THEN {<<names[i], 0>>} ELSE {}
      BY <1>7
    <3>2. QED
      BY <3>1
  <2>2. QED
    BY <2>1
<1>9. \A i, k \in 1..m : i # k => Digests(s[i]) \cap Digests(s[k]) = {}
  <2>1. \A i, k \in 1..m : i # k => <<names[i], 0>> # <<names[k], 0>>
    BY <1>2, <1>6
  <2>2. QED
    BY <1>a, <2>1
<1>10. /\ SavePart(FlattenSeq(s)) /\ Digests(FlattenSeq(s)) = UNION {Digests(s[i]) : i \in 1..m}
       /\ Refuses(FlattenSeq(s)) <=> \E i \in 1..m : Refuses(s[i])
  <2>1. \A i \in 1..Len(s) : SavePart(s[i])
    BY <1>7, <1>8
  <2>2. QED
    BY <1>8, <1>9, <2>1, PartFlatten
<1>11. UNION {Digests(s[i]) : i \in 1..m} = {<<n, 0>> : n \in {n \in Fields : IsDeclared(d, n) /\ Returns(d, n)}}
  <2>1. ASSUME NEW x, x \in UNION {Digests(s[i]) : i \in 1..m}
        PROVE  x \in {<<n, 0>> : n \in {n \in Fields : IsDeclared(d, n) /\ Returns(d, n)}}
    <3>1. PICK i \in 1..m : x \in Digests(s[i])
      BY <2>1
    <3>2. Returns(d, names[i]) /\ x = <<names[i], 0>> /\ names[i] \in Fields
      BY <1>a, <1>7, <3>1
    <3>3. IsDeclared(d, names[i])
      BY <1>3, <1>6, <3>2
    <3>4. QED
      BY <3>2, <3>3
  <2>2. ASSUME NEW n \in Fields, IsDeclared(d, n), Returns(d, n)
        PROVE  <<n, 0>> \in UNION {Digests(s[i]) : i \in 1..m}
    <3>1. PICK i \in 1..m : names[i] = n
      BY <1>3, <1>6, <2>2
    <3>2. <<n, 0>> \in Digests(s[i])
      BY <1>a, <2>2, <3>1
    <3>3. QED
      BY <3>2
  <2>3. QED
    BY <2>1, <2>2
<1>12. (\E i \in 1..m : Refuses(s[i])) <=> \E n \in Fields : IsDeclared(d, n) /\ ~Returns(d, n)
  <2>1. \A i \in 1..m : names[i] \in Fields /\ (Refuses(s[i]) <=> ~Returns(d, names[i]))
    BY <1>7
  <2>2. \A i \in 1..m : IsDeclared(d, names[i])
    BY <1>3, <1>6, <2>1
  <2>3. \A n \in Fields : IsDeclared(d, n) => \E i \in 1..m : names[i] = n
    BY <1>3, <1>6
  <2>4. QED
    BY <2>1, <2>2, <2>3
<1>13. QED
  BY <1>5, <1>10, <1>11, <1>12

\* A field of tokens, if it is not declared.
LEMMA PartOfToken ==
    ASSUME NEW d, NEW n \in {"sequences", "token_ids"}
    PROVE  /\ SavePart(SaveTokens(d, n)) /\ ~Refuses(SaveTokens(d, n))
           /\ Digests(SaveTokens(d, n)) = IF Returns(d, n) /\ ~IsDeclared(d, n) THEN {<<n, 0>>} ELSE {}
<1>1. n \in Fields /\ n \in ToSet(TokenFields)
  BY DEF Fields, ToSet, TokenFields
<1>2. SavesTensor(d, n) /\ ~IsDeclared(d, n) <=> Returns(d, n) /\ ~IsDeclared(d, n)
  BY <1>1 DEF SavesTensor
<1>3. CASE Returns(d, n) /\ ~IsDeclared(d, n)
  <2>1. SaveTokens(d, n) = SaveTensor(d, n)
    BY <1>2, <1>3 DEF SaveTokens, If
  <2>2. /\ SavePart(SaveTensor(d, n)) /\ (Refuses(SaveTensor(d, n)) <=> ~Returns(d, n))
        /\ Digests(SaveTensor(d, n)) = IF Returns(d, n) THEN {<<n, 0>>} ELSE {}
    BY <1>1, PartOfTensor
  <2>3. QED
    BY <1>3, <2>1, <2>2
<1>4. CASE ~(Returns(d, n) /\ ~IsDeclared(d, n))
  <2>1. SaveTokens(d, n) = <<>>
    BY <1>2, <1>4 DEF SaveTokens, If
  <2>2. QED
    BY <1>4, <2>1, PartOfNothing
<1>5. QED
  BY <1>3, <1>4

\* The fields that are saved as media.
LEMMA PartOfAllMedia ==
    ASSUME NEW d, IsJob(asked[d])
    PROVE  /\ SavePart(SaveAllMedia(d))
           /\ Refuses(SaveAllMedia(d)) <=> \E n \in Fields : SavesMedia(d, n) /\ asked[d].returned[n] = 0
           /\ Digests(SaveAllMedia(d)) =
                 UNION {{<<n, k>> : k \in 1..asked[d].returned[n]} : n \in {n \in Fields : SavesMedia(d, n)}}
<1>1. PICK s : s = [i \in DOMAIN MediaFields |-> If(SavesMedia(d, MediaFields[i]), SaveMedia(d, MediaFields[i]))]
  OBVIOUS
<1>2. SaveAllMedia(d) = FlattenSeq(s)
  BY <1>1 DEF SaveAllMedia
<1>3. /\ DOMAIN MediaFields = 1..6 /\ Len(MediaFields) = 6
      /\ \A i, k \in 1..6 : i # k => MediaFields[i] # MediaFields[k]
      /\ \A i \in 1..6 : MediaFields[i] \in Fields
      /\ \A n : n \in ToSet(MediaFields) => \E i \in 1..6 : n = MediaFields[i]
  <2>1. DOMAIN MediaFields = 1..6 /\ Len(MediaFields) = 6
    BY DEF MediaFields
  <2>2. \A i, k \in 1..6 : i # k => MediaFields[i] # MediaFields[k]
    BY DEF MediaFields
  <2>3. \A i \in 1..6 : MediaFields[i] \in Fields
    BY <2>1 DEF Fields, ToSet
  <2>4. \A n : n \in ToSet(MediaFields) => \E i \in 1..6 : n = MediaFields[i]
    BY <2>1 DEF ToSet
  <2>5. QED
    BY <2>1, <2>2, <2>3, <2>4
<1>4. ASSUME NEW i \in 1..6
      PROVE  LET n == MediaFields[i] IN
             /\ SavePart(s[i]) /\ s[i] \in Seq(Savings)
             /\ Refuses(s[i]) <=> SavesMedia(d, n) /\ asked[d].returned[n] = 0
             /\ Digests(s[i]) = IF SavesMedia(d, n) THEN {<<n, k>> : k \in 1..asked[d].returned[n]} ELSE {}
  <2>1. PICK n \in Fields : n = MediaFields[i]
    BY <1>3
  <2>2. s[i] = If(SavesMedia(d, n), SaveMedia(d, n))
    BY <1>1, <1>3, <2>1
  <2>3. CASE SavesMedia(d, n)
    <3>1. asked[d].returned[n] \in 0..2
      BY <2>3 DEF SavesMedia, Returns, IsJob
    <3>2. s[i] = SaveMedia(d, n)
      BY <2>2, <2>3 DEF If
    <3>3. /\ SavePart(SaveMedia(d, n)) /\ (Refuses(SaveMedia(d, n)) <=> asked[d].returned[n] = 0)
          /\ Digests(SaveMedia(d, n)) = {<<n, k>> : k \in 1..asked[d].returned[n]}
      BY <3>1, PartOfMedia
    <3>4. s[i] \in Seq(Savings)
      BY <3>2, <3>3 DEF SavePart
    <3>5. QED
      BY <2>1, <2>3, <3>2, <3>3, <3>4
  <2>4. CASE ~SavesMedia(d, n)
    <3>1. s[i] = <<>>
      BY <2>2, <2>4 DEF If
    <3>2. QED
      BY <2>1, <2>4, <3>1, PartOfNothing
  <2>5. QED
    BY <2>3, <2>4
<1>5. s \in Seq(Seq(Savings)) /\ Len(s) = 6
  BY <1>1, <1>3, <1>4
<1>6. \A i, k \in 1..6 : i # k => Digests(s[i]) \cap Digests(s[k]) = {}
  <2>1. ASSUME NEW i \in 1..6, NEW x \in Digests(s[i])
        PROVE  x[1] = MediaFields[i]
    BY <1>4
  <2>2. QED
    BY <1>3, <2>1
<1>7. /\ SavePart(FlattenSeq(s)) /\ Digests(FlattenSeq(s)) = UNION {Digests(s[i]) : i \in 1..6}
      /\ Refuses(FlattenSeq(s)) <=> \E i \in 1..6 : Refuses(s[i])
  BY <1>4, <1>5, <1>6, PartFlatten
<1>8. \A n \in Fields : SavesMedia(d, n) => \E i \in 1..6 : n = MediaFields[i]
  BY <1>3 DEF SavesMedia
<1>9. UNION {Digests(s[i]) : i \in 1..6} =
         UNION {{<<n, k>> : k \in 1..asked[d].returned[n]} : n \in {n \in Fields : SavesMedia(d, n)}}
  <2>1. ASSUME NEW x, x \in UNION {Digests(s[i]) : i \in 1..6}
        PROVE  x \in UNION {{<<n, k>> : k \in 1..asked[d].returned[n]} : n \in {n \in Fields : SavesMedia(d, n)}}
    <3>1. PICK i \in 1..6 : x \in Digests(s[i])
      BY <2>1
    <3>2. PICK n \in Fields : n = MediaFields[i]
      BY <1>3
    <3>3. SavesMedia(d, n) /\ x \in {<<n, k>> : k \in 1..asked[d].returned[n]}
      BY <1>4, <3>1, <3>2
    <3>4. QED
      BY <3>3
  <2>2. ASSUME NEW n \in Fields, SavesMedia(d, n), NEW x \in {<<n, k>> : k \in 1..asked[d].returned[n]}
        PROVE  x \in UNION {Digests(s[i]) : i \in 1..6}
    <3>1. PICK i \in 1..6 : n = MediaFields[i]
      BY <1>8, <2>2
    <3>2. x \in Digests(s[i])
      BY <1>4, <2>2, <3>1
    <3>3. QED
      BY <3>2
  <2>3. QED
    BY <2>1, <2>2
<1>10. (\E i \in 1..6 : Refuses(s[i])) <=> \E n \in Fields : SavesMedia(d, n) /\ asked[d].returned[n] = 0
  BY <1>3, <1>4, <1>8
<1>11. QED
  BY <1>2, <1>7, <1>9, <1>10

\* What save_outputs() saves, and when it refuses.
LEMMA SavingSteps ==
    ASSUME NEW d, IsJob(asked[d])
    PROVE  /\ SavePart(Saving(d))
           /\ ~Refuses(Saving(d)) =>
                 /\ Digests(Saving(d)) = Expected(d) /\ ~Undeclared(d)
                 /\ \A n \in Fields : IsDeclared(d, n) => Returns(d, n)
                 /\ \A n \in Fields : SavesMedia(d, n) => asked[d].returned[n] # 0
                 /\ \E n \in Fields : SavesTensor(d, n) \/ SavesMedia(d, n)
<1> DEFINE a == If(Undeclared(d), <<<<"refuse", "latents">>>>)
           b == SaveDeclared(d)
           c == SaveTokens(d, "sequences")
           e == SaveTokens(d, "token_ids")
           g == SaveAllMedia(d)
           h == If(\A n \in Fields : ~SavesTensor(d, n) /\ ~SavesMedia(d, n), <<<<"refuse", "text">>>>)
<1>0. Saving(d) = a \o b \o c \o e \o g \o h
  BY DEF Saving
<1>1. SavePart(a) /\ Digests(a) = {} /\ (Refuses(a) <=> Undeclared(d))
  <2>1. "latents" \in Fields
    BY DEF Fields
  <2>2. QED
    BY <2>1, PartOfRefusal, PartOfNothing DEF If
<1>2. /\ SavePart(b) /\ (Refuses(b) <=> \E n \in Fields : IsDeclared(d, n) /\ ~Returns(d, n))
      /\ Digests(b) = {<<n, 0>> : n \in {n \in Fields : IsDeclared(d, n) /\ Returns(d, n)}}
  BY PartOfDeclared
<1>3. /\ SavePart(c) /\ ~Refuses(c)
      /\ Digests(c) = IF Returns(d, "sequences") /\ ~IsDeclared(d, "sequences") THEN {<<"sequences", 0>>} ELSE {}
  BY PartOfToken
<1>4. /\ SavePart(e) /\ ~Refuses(e)
      /\ Digests(e) = IF Returns(d, "token_ids") /\ ~IsDeclared(d, "token_ids") THEN {<<"token_ids", 0>>} ELSE {}
  BY PartOfToken
<1>5. /\ SavePart(g) /\ (Refuses(g) <=> \E n \in Fields : SavesMedia(d, n) /\ asked[d].returned[n] = 0)
      /\ Digests(g) = UNION {{<<n, k>> : k \in 1..asked[d].returned[n]} : n \in {n \in Fields : SavesMedia(d, n)}}
  BY PartOfAllMedia
<1>6. SavePart(h) /\ Digests(h) = {} /\ (Refuses(h) <=> \A n \in Fields : ~SavesTensor(d, n) /\ ~SavesMedia(d, n))
  <2>1. "text" \in Fields
    BY DEF Fields, ToSet, MediaFields
  <2>2. QED
    BY <2>1, PartOfRefusal, PartOfNothing DEF If
<1>7. \A x \in Digests(g) : x[2] # 0
  <2>1. \A n \in Fields : SavesMedia(d, n) => asked[d].returned[n] \in 0..2
    BY DEF SavesMedia, Returns, IsJob
  <2>2. ASSUME NEW n \in Fields, SavesMedia(d, n), NEW k \in 1..asked[d].returned[n]
        PROVE  <<n, k>>[2] # 0
    BY <2>1, <2>2
  <2>3. QED
    BY <1>5, <2>2
<1> HIDE DEF a, b, c, e, g, h
<1>8. /\ SavePart(a \o b) /\ Digests(a \o b) = Digests(a) \cup Digests(b)
      /\ Refuses(a \o b) <=> Refuses(a) \/ Refuses(b)
  <2>1. Digests(a) \cap Digests(b) = {}
    BY <1>1
  <2>2. QED
    BY <1>1, <1>2, <2>1, PartConcat
<1>9. /\ SavePart(a \o b \o c) /\ Digests(a \o b \o c) = Digests(b) \cup Digests(c)
      /\ Refuses(a \o b \o c) <=> Refuses(a) \/ Refuses(b)
  <2>1. Digests(a \o b) \cap Digests(c) = {}
    BY <1>1, <1>2, <1>3, <1>8
  <2>2. QED
    BY <1>1, <1>3, <1>8, <2>1, PartConcat
<1>10. /\ SavePart(a \o b \o c \o e) /\ Digests(a \o b \o c \o e) = Digests(b) \cup Digests(c) \cup Digests(e)
       /\ Refuses(a \o b \o c \o e) <=> Refuses(a) \/ Refuses(b)
  <2>1. Digests(b) \cap Digests(e) = {} /\ Digests(c) \cap Digests(e) = {}
    BY <1>2, <1>3, <1>4
  <2>2. Digests(a \o b \o c) \cap Digests(e) = {}
    BY <1>9, <2>1
  <2>3. QED
    BY <1>4, <1>9, <2>2, PartConcat
<1>11. /\ SavePart(a \o b \o c \o e \o g)
       /\ Digests(a \o b \o c \o e \o g) = Digests(b) \cup Digests(c) \cup Digests(e) \cup Digests(g)
       /\ Refuses(a \o b \o c \o e \o g) <=> Refuses(a) \/ Refuses(b) \/ Refuses(g)
  <2>1. \A x \in Digests(b) \cup Digests(c) \cup Digests(e) : x[2] = 0
    BY <1>2, <1>3, <1>4
  <2>2. Digests(a \o b \o c \o e) \cap Digests(g) = {}
    BY <1>7, <1>10, <2>1
  <2>3. /\ SavePart(a \o b \o c \o e \o g)
        /\ Digests(a \o b \o c \o e \o g) = Digests(a \o b \o c \o e) \cup Digests(g)
        /\ Refuses(a \o b \o c \o e \o g) <=> Refuses(a \o b \o c \o e) \/ Refuses(g)
    <3>1. SavePart(a \o b \o c \o e) /\ SavePart(g)
      BY <1>5, <1>10
    <3>2. QED
      BY <2>2, <3>1, PartConcat
  <2>4. QED
    BY <1>10, <2>3
<1>12. /\ SavePart(Saving(d))
       /\ Digests(Saving(d)) = Digests(b) \cup Digests(c) \cup Digests(e) \cup Digests(g)
       /\ Refuses(Saving(d)) <=> Refuses(a) \/ Refuses(b) \/ Refuses(g) \/ Refuses(h)
  <2>1. Digests(a \o b \o c \o e \o g) \cap Digests(h) = {}
    BY <1>6
  <2>2. /\ SavePart(a \o b \o c \o e \o g \o h)
        /\ Digests(a \o b \o c \o e \o g \o h) = Digests(a \o b \o c \o e \o g) \cup Digests(h)
        /\ Refuses(a \o b \o c \o e \o g \o h) <=> Refuses(a \o b \o c \o e \o g) \/ Refuses(h)
    BY <1>6, <1>11, <2>1, PartConcat
  <2>3. QED
    BY <1>0, <1>6, <1>11, <2>2
<1>13. ASSUME ~Refuses(Saving(d))
       PROVE  /\ ~Undeclared(d)
              /\ \A n \in Fields : IsDeclared(d, n) => Returns(d, n)
              /\ \A n \in Fields : SavesMedia(d, n) => asked[d].returned[n] # 0
              /\ \E n \in Fields : SavesTensor(d, n) \/ SavesMedia(d, n)
  BY <1>1, <1>2, <1>5, <1>6, <1>12, <1>13
<1>14. ASSUME ~Refuses(Saving(d))
       PROVE  Digests(Saving(d)) = Expected(d)
  <2>1. \A n \in Fields : IsDeclared(d, n) => Returns(d, n)
    BY <1>13, <1>14
  <2>2. \A n : n \in ToSet(TokenFields) <=> n \in {"sequences", "token_ids"}
    <3>1. DOMAIN TokenFields = 1..2 /\ TokenFields[1] = "sequences" /\ TokenFields[2] = "token_ids" /\ 1..2 = {1, 2}
      BY DEF TokenFields
    <3>2. QED
      BY <3>1 DEF ToSet
  <2>3. {"sequences", "token_ids"} \subseteq Fields
    BY <2>2 DEF Fields
  <2>4. {<<n, 0>> : n \in {n \in Fields : SavesTensor(d, n)}} = Digests(b) \cup Digests(c) \cup Digests(e)
    <3>1. \A n \in Fields : SavesTensor(d, n) <=>
             \/ IsDeclared(d, n) /\ Returns(d, n)
             \/ n \in {"sequences", "token_ids"} /\ Returns(d, n) /\ ~IsDeclared(d, n)
      BY <2>1, <2>2 DEF SavesTensor
    <3>2. \A x : x \in Digests(b) <=> \E n \in Fields : x = <<n, 0>> /\ IsDeclared(d, n) /\ Returns(d, n)
      BY <1>2
    <3>3. \A x : x \in Digests(c) \cup Digests(e) <=>
             \E n \in {"sequences", "token_ids"} : x = <<n, 0>> /\ Returns(d, n) /\ ~IsDeclared(d, n)
      BY <1>3, <1>4
    <3>4. ASSUME NEW x, x \in Digests(b) \cup Digests(c) \cup Digests(e)
          PROVE  x \in {<<n, 0>> : n \in {n \in Fields : SavesTensor(d, n)}}
      BY <2>3, <3>1, <3>2, <3>3, <3>4
    <3>5. ASSUME NEW n \in Fields, SavesTensor(d, n)
          PROVE  <<n, 0>> \in Digests(b) \cup Digests(c) \cup Digests(e)
      BY <3>1, <3>2, <3>3, <3>5
    <3>6. QED
      BY <3>4, <3>5
  <2>5. QED
    BY <1>5, <1>12, <2>4 DEF Expected
<1>15. QED
  BY <1>12, <1>13, <1>14

-----------------------------------------------------------------------------
(* The part of a program that reads. *)

\* Two programs that do not read a file, one after the other, do not.
LEMMA LeavesConcat ==
    ASSUME NEW s \in Seq(AllSteps), NEW t \in Seq(AllSteps), NEW f, Leaves(s, f), Leaves(t, f)
    PROVE  s \o t \in Seq(AllSteps) /\ Leaves(s \o t, f)
<1>0. PICK m, n, u : m = Len(s) /\ n = Len(t) /\ u = s \o t
  OBVIOUS
<1>1. m = Len(s) /\ n = Len(t)
  BY <1>0
<1>2. /\ Len(u) = m + n /\ m \in Nat /\ n \in Nat
      /\ \A i \in 1..m : u[i] = s[i]
      /\ \A i \in 1..m + n : i > m => i - m \in 1..n /\ u[i] = t[i - m]
  BY ONLY <1>0, s \in Seq(AllSteps), t \in Seq(AllSteps), ConcatSteps
<1>3. \A i \in 1..m + n : i \in 1..m \/ i > m
  BY <1>2
<1>4. Leaves(u, f)
  BY <1>1, <1>2, <1>3 DEF Leaves
<1>5. s \o t \in Seq(AllSteps)
  BY ONLY s \in Seq(AllSteps), t \in Seq(AllSteps), ConcatSteps
<1>6. QED
  BY <1>0, <1>4, <1>5

\* A file that one of two programs identifies, and the other does not read.
LEMMA IdentifiesConcat ==
    ASSUME NEW s \in Seq(AllSteps), NEW t \in Seq(AllSteps), NEW f
    PROVE  /\ Identifies(s, f) /\ Leaves(t, f) => Identifies(s \o t, f)
           /\ Leaves(s, f) /\ Identifies(t, f) => Identifies(s \o t, f)
<1>0. PICK m, n, u : m = Len(s) /\ n = Len(t) /\ u = s \o t
  OBVIOUS
<1>1. m = Len(s) /\ n = Len(t)
  BY <1>0
<1>2. /\ Len(u) = m + n /\ m \in Nat /\ n \in Nat
      /\ \A i \in 1..m : u[i] = s[i]
      /\ \A i \in 1..n : u[m + i] = t[i]
      /\ \A i \in 1..m + n : i > m => i - m \in 1..n /\ u[i] = t[i - m]
  BY ONLY <1>0, s \in Seq(AllSteps), t \in Seq(AllSteps), ConcatSteps
<1>3. \A i \in 1..m + n : i \in 1..m \/ (i > m /\ i - m \in 1..n)
  BY <1>2
<1>4. ASSUME Identifies(s, f), Leaves(t, f)
      PROVE  Identifies(u, f)
  <2>1. PICK a \in 1..m : \A i \in 1..m : (s[i] = <<"identify", f>> <=> i = a) /\ s[i] # <<"load", f>>
    BY <1>1, <1>4 DEF Identifies, IdentifiesAt
  <2>2. \A i \in 1..n : t[i] # <<"identify", f>> /\ t[i] # <<"load", f>>
    BY <1>1, <1>4 DEF Leaves
  <2>3. a \in 1..m + n /\ \A i \in 1..m + n : i > m => i # a
    BY <1>2
  <2>4. \A i \in 1..m + n : (u[i] = <<"identify", f>> <=> i = a) /\ u[i] # <<"load", f>>
    BY <1>2, <1>3, <2>1, <2>2, <2>3
  <2>5. IdentifiesAt(u, f, a)
    BY ONLY <1>2, <2>4 DEF IdentifiesAt
  <2>6. QED
    BY ONLY <1>2, <2>3, <2>5 DEF Identifies
<1>5. ASSUME Leaves(s, f), Identifies(t, f)
      PROVE  Identifies(u, f)
  <2>1. PICK a \in 1..n : \A i \in 1..n : (t[i] = <<"identify", f>> <=> i = a) /\ t[i] # <<"load", f>>
    BY <1>1, <1>5 DEF Identifies, IdentifiesAt
  <2>2. \A i \in 1..m : s[i] # <<"identify", f>> /\ s[i] # <<"load", f>>
    BY <1>1, <1>5 DEF Leaves
  <2>3. m + a \in 1..m + n /\ \A i \in 1..m : i # m + a
    BY <1>2
  <2>4. \A i \in 1..m + n : i = m + a <=> i - m = a
    BY <1>2
  <2>5. \A i \in 1..m + n : (u[i] = <<"identify", f>> <=> i = m + a) /\ u[i] # <<"load", f>>
    BY <1>2, <1>3, <2>1, <2>2, <2>3, <2>4
  <2>6. IdentifiesAt(u, f, m + a)
    BY ONLY <1>2, <2>5 DEF IdentifiesAt
  <2>7. QED
    BY ONLY <1>2, <2>3, <2>6 DEF Identifies
<1>6. QED
  BY <1>0, <1>4, <1>5

\* A file that one of two programs loads; that the first identifies and the second loads.
LEMMA LoadsConcat ==
    ASSUME NEW s \in Seq(AllSteps), NEW t \in Seq(AllSteps), NEW f
    PROVE  /\ Loads(s, f) /\ Leaves(t, f) => Loads(s \o t, f)
           /\ Leaves(s, f) /\ Loads(t, f) => Loads(s \o t, f)
           /\ Identifies(s, f) /\ Loads(t, f) => Reads(s \o t, f)
<1>0. PICK m, n, u : m = Len(s) /\ n = Len(t) /\ u = s \o t
  OBVIOUS
<1>1. m = Len(s) /\ n = Len(t)
  BY <1>0
<1>2. /\ Len(u) = m + n /\ m \in Nat /\ n \in Nat
      /\ \A i \in 1..m : u[i] = s[i]
      /\ \A i \in 1..n : u[m + i] = t[i]
      /\ \A i \in 1..m + n : i > m => i - m \in 1..n /\ u[i] = t[i - m]
  BY ONLY <1>0, s \in Seq(AllSteps), t \in Seq(AllSteps), ConcatSteps
<1>3. \A i \in 1..m + n : i \in 1..m \/ (i > m /\ i - m \in 1..n)
  BY <1>2
<1>4. ASSUME Loads(s, f), Leaves(t, f)
      PROVE  Loads(u, f)
  <2>1. PICK b, c \in 1..m :
           /\ b < c /\ s[c] = <<"verify", f>>
           /\ \A i \in 1..m : s[i] # <<"identify", f>> /\ (s[i] = <<"load", f>> <=> i = b)
    BY <1>1, <1>4 DEF Loads, LoadsAt
  <2>2. \A i \in 1..n : t[i] # <<"identify", f>> /\ t[i] # <<"load", f>>
    BY <1>1, <1>4 DEF Leaves
  <2>3. b \in 1..m + n /\ c \in 1..m + n /\ \A i \in 1..m + n : i > m => i # b
    BY <1>2
  <2>4. \A i \in 1..m + n : u[i] # <<"identify", f>> /\ (u[i] = <<"load", f>> <=> i = b)
    BY <1>2, <1>3, <2>1, <2>2, <2>3
  <2>a. u[c] = <<"verify", f>> /\ b < c
    BY <1>2, <2>1
  <2>5. LoadsAt(u, f, b, c)
    BY ONLY <1>2, <2>a, <2>4 DEF LoadsAt
  <2>6. QED
    BY ONLY <1>2, <2>3, <2>5 DEF Loads
<1>5. ASSUME Loads(t, f)
      PROVE  /\ Leaves(s, f) => Loads(u, f)
             /\ Identifies(s, f) => Reads(u, f)
  <2>1. PICK b, c \in 1..n :
           /\ b < c /\ t[c] = <<"verify", f>>
           /\ \A i \in 1..n : t[i] # <<"identify", f>> /\ (t[i] = <<"load", f>> <=> i = b)
    BY <1>1, <1>5 DEF Loads, LoadsAt
  <2>2. m + b \in 1..m + n /\ m + c \in 1..m + n /\ m + b < m + c /\ \A i \in 1..m : i # m + b /\ i < m + b
    BY <1>2, <2>1
  <2>3. \A i \in 1..m + n : i = m + b <=> i - m = b
    BY <1>2
  <2>4. u[m + c] = <<"verify", f>>
    BY <1>2, <2>1
  <2>5. ASSUME Leaves(s, f)
        PROVE  Loads(u, f)
    <3>1. \A i \in 1..m : s[i] # <<"identify", f>> /\ s[i] # <<"load", f>>
      BY <1>1, <2>5 DEF Leaves
    <3>2. \A i \in 1..m + n : u[i] # <<"identify", f>> /\ (u[i] = <<"load", f>> <=> i = m + b)
      BY <1>2, <1>3, <2>1, <2>2, <2>3, <3>1
    <3>3. LoadsAt(u, f, m + b, m + c)
      BY ONLY <1>2, <2>2, <2>4, <3>2 DEF LoadsAt
    <3>4. QED
      BY ONLY <1>2, <2>2, <3>3 DEF Loads
  <2>6. ASSUME Identifies(s, f)
        PROVE  Reads(u, f)
    <3>1. PICK a \in 1..m : \A i \in 1..m : (s[i] = <<"identify", f>> <=> i = a) /\ s[i] # <<"load", f>>
      BY <1>1, <2>6 DEF Identifies, IdentifiesAt
    <3>2. a \in 1..m + n /\ a < m + b /\ \A i \in 1..m + n : i > m => i # a
      BY <1>2, <2>2
    <3>3. \A i \in 1..m + n : (u[i] = <<"identify", f>> <=> i = a) /\ (u[i] = <<"load", f>> <=> i = m + b)
      BY <1>2, <1>3, <2>1, <2>2, <2>3, <3>1, <3>2
    <3>4. ReadsAt(u, f, a, m + b, m + c)
      BY ONLY <1>2, <2>2, <2>4, <3>2, <3>3 DEF ReadsAt
    <3>5. QED
      BY ONLY <1>2, <2>2, <3>2, <3>4 DEF Reads
  <2>7. QED
    BY <2>5, <2>6
<1>6. QED
  BY <1>0, <1>4, <1>5

\* A file that one of two programs reads, and the other leaves alone.
LEMMA ReadsConcat ==
    ASSUME NEW s \in Seq(AllSteps), NEW t \in Seq(AllSteps), NEW f
    PROVE  /\ Reads(s, f) /\ Leaves(t, f) => Reads(s \o t, f)
           /\ Leaves(s, f) /\ Reads(t, f) => Reads(s \o t, f)
<1>0. PICK m, n, u : m = Len(s) /\ n = Len(t) /\ u = s \o t
  OBVIOUS
<1>1. m = Len(s) /\ n = Len(t)
  BY <1>0
<1>2. /\ Len(u) = m + n /\ m \in Nat /\ n \in Nat
      /\ \A i \in 1..m : u[i] = s[i]
      /\ \A i \in 1..n : u[m + i] = t[i]
      /\ \A i \in 1..m + n : i > m => i - m \in 1..n /\ u[i] = t[i - m]
  BY ONLY <1>0, s \in Seq(AllSteps), t \in Seq(AllSteps), ConcatSteps
<1>3. \A i \in 1..m + n : i \in 1..m \/ (i > m /\ i - m \in 1..n)
  BY <1>2
<1>4. ASSUME Reads(s, f), Leaves(t, f)
      PROVE  Reads(u, f)
  <2>0. PICK a, b, c \in 1..Len(s) : ReadsAt(s, f, a, b, c)
    BY ONLY <1>4 DEF Reads
  <2>1. /\ a \in 1..m /\ b \in 1..m /\ c \in 1..m
        /\ a < b /\ b < c /\ s[c] = <<"verify", f>>
        /\ \A i \in 1..m : (s[i] = <<"identify", f>> <=> i = a) /\ (s[i] = <<"load", f>> <=> i = b)
    BY ONLY <1>1, <2>0 DEF ReadsAt
  <2>2. \A i \in 1..n : t[i] # <<"identify", f>> /\ t[i] # <<"load", f>>
    BY <1>1, <1>4 DEF Leaves
  <2>3. /\ a \in 1..m + n /\ b \in 1..m + n /\ c \in 1..m + n
        /\ \A i \in 1..m + n : i > m => i # a /\ i # b
    BY <1>2, <2>1
  <2>4. \A i \in 1..m + n : (u[i] = <<"identify", f>> <=> i = a) /\ (u[i] = <<"load", f>> <=> i = b)
    BY <1>2, <1>3, <2>1, <2>2, <2>3
  <2>a. u[c] = <<"verify", f>> /\ a < b /\ b < c
    BY <1>2, <2>1
  <2>5. ReadsAt(u, f, a, b, c)
    BY ONLY <1>2, <2>a, <2>4 DEF ReadsAt
  <2>6. QED
    BY ONLY <1>2, <2>3, <2>5 DEF Reads
<1>5. ASSUME Leaves(s, f), Reads(t, f)
      PROVE  Reads(u, f)
  <2>0. PICK a, b, c \in 1..Len(t) : ReadsAt(t, f, a, b, c)
    BY ONLY <1>5 DEF Reads
  <2>1. /\ a \in 1..n /\ b \in 1..n /\ c \in 1..n
        /\ a < b /\ b < c /\ t[c] = <<"verify", f>>
        /\ \A i \in 1..n : (t[i] = <<"identify", f>> <=> i = a) /\ (t[i] = <<"load", f>> <=> i = b)
    BY ONLY <1>1, <2>0 DEF ReadsAt
  <2>2. \A i \in 1..m : s[i] # <<"identify", f>> /\ s[i] # <<"load", f>>
    BY <1>1, <1>5 DEF Leaves
  <2>3. /\ m + a \in 1..m + n /\ m + b \in 1..m + n /\ m + c \in 1..m + n
        /\ m + a < m + b /\ m + b < m + c /\ \A i \in 1..m : i # m + a /\ i # m + b
    BY <1>2, <2>1
  <2>4. \A i \in 1..m + n : (i = m + a <=> i - m = a) /\ (i = m + b <=> i - m = b)
    BY <1>2
  <2>5. \A i \in 1..m + n : (u[i] = <<"identify", f>> <=> i = m + a) /\ (u[i] = <<"load", f>> <=> i = m + b)
    BY <1>2, <1>3, <2>1, <2>2, <2>3, <2>4
  <2>6. u[m + c] = <<"verify", f>>
    BY <1>2, <2>1
  <2>7. ReadsAt(u, f, m + a, m + b, m + c)
    BY ONLY <1>2, <2>3, <2>5, <2>6 DEF ReadsAt
  <2>8. QED
    BY ONLY <1>2, <2>3, <2>7 DEF Reads
<1>6. QED
  BY <1>0, <1>4, <1>5

-----------------------------------------------------------------------------
(* Programs. *)

\* A program of one reading step.
LEMMA OneRead ==
    ASSUME NEW x \in {"identify", "load", "verify"}, NEW f \in ReadFiles, NEW P, P = <<<<x, f>>>>
    PROVE  /\ P \in Seq(Readings) /\ P \in Seq(AllSteps)
           /\ \A g : f # g \/ x = "verify" => Leaves(P, g)
           /\ x = "identify" => Identifies(P, f)
<1>1. Len(P) = 1 /\ P[1] = <<x, f>> /\ 1..1 = {1}
  OBVIOUS
<1>2. <<x, f>> \in Readings /\ <<x, f>> \in AllSteps
  BY DEF Readings, FileSteps, AllSteps
<1>3. P \in Seq(Readings) /\ P \in Seq(AllSteps)
  BY <1>2
<1>4. \A g : f # g \/ x = "verify" => Leaves(P, g)
  BY <1>1 DEF Leaves
<1>5. ASSUME x = "identify"
      PROVE  Identifies(P, f)
  <2>1. IdentifiesAt(P, f, 1)
    BY <1>1, <1>5 DEF IdentifiesAt
  <2>2. QED
    BY <1>1, <2>1 DEF Identifies
<1>6. QED
  BY <1>3, <1>4, <1>5

\* A program of no step reads nothing.
LEMMA NoStep ==
    /\ <<>> \in Seq(Readings) /\ <<>> \in Seq(AllSteps) /\ \A g : Leaves(<<>>, g)
<1>1. Len(<<>>) = 0 /\ 1..0 = {}
  OBVIOUS
<1>2. QED
  BY <1>1 DEF Leaves

\* A program of reading steps is a program.
LEMMA AllOfReadings == ASSUME NEW P \in Seq(Readings) PROVE P \in Seq(AllSteps)
BY DEF AllSteps

\* Two programs of reading steps make one.
LEMMA ReadingsConcat ==
    ASSUME NEW s \in Seq(Readings), NEW t \in Seq(Readings)
    PROVE  s \o t \in Seq(Readings) /\ s \o t \in Seq(AllSteps) /\ s \in Seq(AllSteps) /\ t \in Seq(AllSteps)
<1>1. s \o t \in Seq(Readings)
  OBVIOUS
<1>2. QED
  BY <1>1, AllOfReadings

\* selecting: adapter and VAE are identified.
LEMMA SelectingSteps ==
    ASSUME NEW d
    PROVE  /\ Selecting(d) \in Seq(Readings)
           /\ \A f \in ReadFiles : IF f \in {"lora", "vae"} /\ Uses(d, f) THEN Identifies(Selecting(d), f)
                                                                         ELSE Leaves(Selecting(d), f)
<1>1. PICK s, t : /\ s = If(Uses(d, "lora"), <<<<"identify", "lora">>>>)
                  /\ t = If(Uses(d, "vae"), <<<<"identify", "vae">>>>)
  OBVIOUS
<1>2. Selecting(d) = s \o t
  BY <1>1 DEF Selecting
<1>3. /\ s \in Seq(Readings)
      /\ \A f \in ReadFiles : IF f = "lora" /\ Uses(d, f) THEN Identifies(s, f) ELSE Leaves(s, f)
  BY <1>1, OneRead, NoStep DEF If, ReadFiles, ReadWeights
<1>4. /\ t \in Seq(Readings)
      /\ \A f \in ReadFiles : IF f = "vae" /\ Uses(d, f) THEN Identifies(t, f) ELSE Leaves(t, f)
  BY <1>1, OneRead, NoStep DEF If, ReadFiles, ReadWeights
<1>5. s \o t \in Seq(Readings) /\ s \in Seq(AllSteps) /\ t \in Seq(AllSteps)
  BY <1>3, <1>4, ReadingsConcat
<1>6. ASSUME NEW f \in ReadFiles
      PROVE  IF f \in {"lora", "vae"} /\ Uses(d, f) THEN Identifies(s \o t, f) ELSE Leaves(s \o t, f)
  BY <1>3, <1>4, <1>5, LeavesConcat, IdentifiesConcat
<1>7. QED
  BY <1>2, <1>5, <1>6

\* Checking() loads nothing.
LEMMA CheckingSteps ==
    ASSUME NEW d
    PROVE  Checking(d) \in Seq(Readings) /\ \A f : Leaves(Checking(d), f)
<1>1. PICK s, t : /\ s = If(Uses(d, "lora"), <<<<"verify", "lora">>>>)
                  /\ t = If(Uses(d, "vae"), <<<<"verify", "vae">>>>)
  OBVIOUS
<1>2. Checking(d) = s \o t
  BY <1>1 DEF Checking
<1>3. s \in Seq(Readings) /\ \A f : Leaves(s, f)
  BY <1>1, OneRead, NoStep DEF If, ReadFiles, ReadWeights
<1>4. t \in Seq(Readings) /\ \A f : Leaves(t, f)
  BY <1>1, OneRead, NoStep DEF If, ReadFiles, ReadWeights
<1>5. s \o t \in Seq(Readings) /\ s \in Seq(AllSteps) /\ t \in Seq(AllSteps)
  BY <1>3, <1>4, ReadingsConcat
<1>6. \A f : Leaves(s \o t, f)
  BY <1>3, <1>4, <1>5, LeavesConcat
<1>7. QED
  BY <1>2, <1>5, <1>6

\* A file that is looked at before and after it is loaded.
LEMMA ThreeReads ==
    ASSUME NEW x \in {"identify", "verify"}, NEW f \in ReadFiles, NEW P, P = <<<<x, f>>, <<"load", f>>, <<"verify", f>>>>
    PROVE  /\ P \in Seq(Readings) /\ \A g : g # f => Leaves(P, g)
           /\ x = "identify" => Reads(P, f)
           /\ x = "verify" => Loads(P, f)
<1>1. Len(P) = 3 /\ P[1] = <<x, f>> /\ P[2] = <<"load", f>> /\ P[3] = <<"verify", f>> /\ 1..3 = {1, 2, 3}
  OBVIOUS
<1>2. P[1] \in Readings /\ P[2] \in Readings /\ P[3] \in Readings
  BY <1>1 DEF Readings, FileSteps
<1>3. P \in Seq(Readings)
  BY <1>2
<1>4. \A g : g # f => Leaves(P, g)
  BY <1>1 DEF Leaves
<1>5. ASSUME x = "identify"
      PROVE  Reads(P, f)
  <2>1. ReadsAt(P, f, 1, 2, 3)
    BY <1>1, <1>5 DEF ReadsAt
  <2>2. QED
    BY <1>1, <2>1 DEF Reads
<1>6. ASSUME x = "verify"
      PROVE  Loads(P, f)
  <2>1. LoadsAt(P, f, 2, 3)
    BY <1>1, <1>6 DEF LoadsAt
  <2>2. QED
    BY <1>1, <2>1 DEF Loads
<1>7. QED
  BY <1>3, <1>4, <1>5, <1>6

\* Input() reads the input, if the run uses one.
LEMMA InputSteps ==
    ASSUME NEW d
    PROVE  /\ Input(d) \in Seq(Readings)
           /\ \A f \in ReadFiles : IF f = "input" /\ Uses(d, f) THEN Reads(Input(d), f) ELSE Leaves(Input(d), f)
<1>1. CASE Uses(d, "input")
  <2>1. Input(d) = <<<<"identify", "input">>, <<"load", "input">>, <<"verify", "input">>>>
    BY <1>1 DEF Input, If
  <2>2. "input" \in ReadFiles
    BY DEF ReadFiles
  <2>3. QED
    BY <1>1, <2>1, <2>2, ThreeReads
<1>2. CASE ~Uses(d, "input")
  <2>1. Input(d) = <<>>
    BY <1>2 DEF Input, If
  <2>2. QED
    BY <1>2, <2>1, NoStep
<1>3. QED
  BY <1>1, <1>2

\* Careful() loads its file, if the run uses it.
LEMMA CarefulSteps ==
    ASSUME NEW d, NEW f \in ReadFiles
    PROVE  /\ Careful(d, f) \in Seq(Readings) /\ \A g : g # f => Leaves(Careful(d, f), g)
           /\ IF Uses(d, f) THEN Loads(Careful(d, f), f) ELSE Leaves(Careful(d, f), f)
<1>1. CASE Uses(d, f)
  <2>1. Careful(d, f) = <<<<"verify", f>>, <<"load", f>>, <<"verify", f>>>>
    BY <1>1 DEF Careful, If
  <2>2. QED
    BY <1>1, <2>1, ThreeReads
<1>2. CASE ~Uses(d, f)
  <2>1. Careful(d, f) = <<>>
    BY <1>2 DEF Careful, If
  <2>2. QED
    BY <1>2, <2>1, NoStep
<1>3. QED
  BY <1>1, <1>2

\* prepared_pipeline(): the model is identified, read and verified; adapter and VAE are read and verified.
LEMMA LoadingSteps ==
    ASSUME NEW d
    PROVE  /\ Loading(d) \in Seq(Readings)
           /\ \A f \in ReadFiles :
                 /\ f = "model" => Reads(Loading(d), f)
                 /\ f \in {"lora", "vae"} => IF Uses(d, f) THEN Loads(Loading(d), f) ELSE Leaves(Loading(d), f)
                 /\ f = "input" => Leaves(Loading(d), f)
<1> DEFINE a == Checking(d)
           b == <<<<"identify", "model">>>>
           c == Careful(d, "vae")
           e == <<<<"load", "model">>, <<"verify", "model">>>>
           g == If(Uses(d, "vae"), <<<<"verify", "vae">>>>)
           h == Careful(d, "lora")
<1>0. {"lora", "vae", "model"} \subseteq ReadFiles /\ ReadFiles = {"lora", "vae", "model", "input"}
  BY DEF ReadFiles, ReadWeights
<1>1. Loading(d) = a \o b \o c \o e \o g \o h
  BY DEF Loading
<1>2. a \in Seq(Readings) /\ \A f : Leaves(a, f)
  BY CheckingSteps
<1>3. b \in Seq(Readings) /\ Identifies(b, "model") /\ \A f : f # "model" => Leaves(b, f)
  BY <1>0, OneRead
<1>4. /\ c \in Seq(Readings) /\ \A f : f # "vae" => Leaves(c, f)
      /\ IF Uses(d, "vae") THEN Loads(c, "vae") ELSE Leaves(c, "vae")
  BY <1>0, CarefulSteps
<1>5. e \in Seq(Readings) /\ Loads(e, "model") /\ \A f : f # "model" => Leaves(e, f)
  <2>1. Len(e) = 2 /\ e[1] = <<"load", "model">> /\ e[2] = <<"verify", "model">> /\ 1..2 = {1, 2}
    OBVIOUS
  <2>2. e[1] \in Readings /\ e[2] \in Readings
    BY <1>0, <2>1 DEF Readings, FileSteps
  <2>3. e \in Seq(Readings)
    BY <2>2
  <2> HIDE DEF e
  <2>4. LoadsAt(e, "model", 1, 2)
    BY <2>1 DEF LoadsAt
  <2>5. Loads(e, "model")
    BY <2>1, <2>4 DEF Loads
  <2>6. \A f : f # "model" => Leaves(e, f)
    BY <2>1 DEF Leaves
  <2>7. QED
    BY <2>3, <2>5, <2>6
<1>6. g \in Seq(Readings) /\ \A f : Leaves(g, f)
  BY <1>0, OneRead, NoStep DEF If
<1>7. /\ h \in Seq(Readings) /\ \A f : f # "lora" => Leaves(h, f)
      /\ IF Uses(d, "lora") THEN Loads(h, "lora") ELSE Leaves(h, "lora")
  BY <1>0, CarefulSteps
<1> HIDE DEF a, b, c, e, g, h
<1>8. PICK p : p = a \o b
  OBVIOUS
<1>9. PICK q : q = p \o c
  OBVIOUS
<1>10. PICK r : r = q \o e
  OBVIOUS
<1>11. PICK s : s = r \o g
  OBVIOUS
<1>12. PICK t : t = s \o h
  OBVIOUS
<1>13. Loading(d) = t
  BY <1>1, <1>8, <1>9, <1>10, <1>11, <1>12
<1>14. p \in Seq(Readings) /\ p \in Seq(AllSteps) /\ a \in Seq(AllSteps) /\ b \in Seq(AllSteps)
  BY <1>2, <1>3, <1>8, ReadingsConcat
<1>15. q \in Seq(Readings) /\ q \in Seq(AllSteps) /\ c \in Seq(AllSteps)
  BY <1>4, <1>9, <1>14, ReadingsConcat
<1>16. r \in Seq(Readings) /\ r \in Seq(AllSteps) /\ e \in Seq(AllSteps)
  BY <1>5, <1>10, <1>15, ReadingsConcat
<1>17. s \in Seq(Readings) /\ s \in Seq(AllSteps) /\ g \in Seq(AllSteps)
  BY <1>6, <1>11, <1>16, ReadingsConcat
<1>18. t \in Seq(Readings) /\ t \in Seq(AllSteps) /\ h \in Seq(AllSteps)
  BY <1>7, <1>12, <1>17, ReadingsConcat
<1>19. Identifies(p, "model") /\ \A f : f # "model" => Leaves(p, f)
  BY <1>2, <1>3, <1>8, <1>14, LeavesConcat, IdentifiesConcat
<1>20. /\ Identifies(q, "model") /\ \A f : f # "model" /\ f # "vae" => Leaves(q, f)
       /\ IF Uses(d, "vae") THEN Loads(q, "vae") ELSE Leaves(q, "vae")
  <2>1. Identifies(q, "model")
    BY <1>4, <1>9, <1>14, <1>15, <1>19, IdentifiesConcat
  <2>2. \A f : f # "model" /\ f # "vae" => Leaves(q, f)
    BY <1>4, <1>9, <1>14, <1>15, <1>19, LeavesConcat
  <2>3. CASE Uses(d, "vae")
    <3>1. Loads(c, "vae") /\ Leaves(p, "vae")
      BY <1>4, <1>19, <2>3
    <3>2. Loads(q, "vae")
      BY <1>9, <1>14, <1>15, <3>1, LoadsConcat
    <3>3. QED
      BY <2>1, <2>2, <2>3, <3>2
  <2>4. CASE ~Uses(d, "vae")
    <3>1. Leaves(c, "vae") /\ Leaves(p, "vae")
      BY <1>4, <1>19, <2>4
    <3>2. Leaves(q, "vae")
      BY <1>9, <1>14, <1>15, <3>1, LeavesConcat
    <3>3. QED
      BY <2>1, <2>2, <2>4, <3>2
  <2>5. QED
    BY <2>3, <2>4
<1>21. /\ Reads(r, "model") /\ \A f : f # "model" /\ f # "vae" => Leaves(r, f)
       /\ IF Uses(d, "vae") THEN Loads(r, "vae") ELSE Leaves(r, "vae")
  <2>1. Reads(r, "model")
    BY <1>5, <1>10, <1>15, <1>16, <1>20, LoadsConcat
  <2>2. \A f : f # "model" /\ f # "vae" => Leaves(r, f)
    BY <1>5, <1>10, <1>15, <1>16, <1>20, LeavesConcat
  <2>3. Leaves(e, "vae")
    BY <1>5
  <2>4. Loads(q, "vae") => Loads(r, "vae")
    BY <1>10, <1>15, <1>16, <2>3, LoadsConcat
  <2>5. Leaves(q, "vae") => Leaves(r, "vae")
    BY <1>10, <1>15, <1>16, <2>3, LeavesConcat
  <2>6. QED
    BY <1>20, <2>1, <2>2, <2>4, <2>5
<1>22. /\ Reads(s, "model") /\ \A f : f # "model" /\ f # "vae" => Leaves(s, f)
       /\ IF Uses(d, "vae") THEN Loads(s, "vae") ELSE Leaves(s, "vae")
  <2>1. Reads(s, "model")
    BY <1>6, <1>11, <1>16, <1>17, <1>21, ReadsConcat
  <2>2. \A f : f # "model" /\ f # "vae" => Leaves(s, f)
    BY <1>6, <1>11, <1>16, <1>17, <1>21, LeavesConcat
  <2>3. Loads(r, "vae") => Loads(s, "vae")
    BY <1>6, <1>11, <1>16, <1>17, LoadsConcat
  <2>4. Leaves(r, "vae") => Leaves(s, "vae")
    BY <1>6, <1>11, <1>16, <1>17, LeavesConcat
  <2>5. QED
    BY <1>21, <2>1, <2>2, <2>3, <2>4
<1>23. /\ Reads(t, "model") /\ \A f : f # "model" /\ f # "vae" /\ f # "lora" => Leaves(t, f)
       /\ IF Uses(d, "vae") THEN Loads(t, "vae") ELSE Leaves(t, "vae")
       /\ IF Uses(d, "lora") THEN Loads(t, "lora") ELSE Leaves(t, "lora")
  <2>1. Reads(t, "model")
    BY <1>7, <1>12, <1>17, <1>18, <1>22, ReadsConcat
  <2>2. \A f : f # "model" /\ f # "vae" /\ f # "lora" => Leaves(t, f)
    BY <1>7, <1>12, <1>17, <1>18, <1>22, LeavesConcat
  <2>3. Leaves(h, "vae") /\ Leaves(s, "lora")
    BY <1>7, <1>22
  <2>4. Loads(s, "vae") => Loads(t, "vae")
    BY <1>12, <1>17, <1>18, <2>3, LoadsConcat
  <2>5. Leaves(s, "vae") => Leaves(t, "vae")
    BY <1>12, <1>17, <1>18, <2>3, LeavesConcat
  <2>6. Loads(h, "lora") => Loads(t, "lora")
    BY <1>12, <1>17, <1>18, <2>3, LoadsConcat
  <2>7. Leaves(h, "lora") => Leaves(t, "lora")
    BY <1>12, <1>17, <1>18, <2>3, LeavesConcat
  <2>8. QED
    BY <1>7, <1>22, <2>1, <2>2, <2>4, <2>5, <2>6, <2>7
<1>24. QED
  BY <1>13, <1>18, <1>23

\* What two programs of reading steps, one after the other, do to a file.
LEMMA AroundReads ==
    ASSUME NEW s \in Seq(Readings), NEW t \in Seq(Readings), NEW f
    PROVE  /\ s \o t \in Seq(Readings)
           /\ Leaves(s, f) /\ Leaves(t, f) => Leaves(s \o t, f)
           /\ Identifies(s, f) /\ Leaves(t, f) => Identifies(s \o t, f)
           /\ Identifies(s, f) /\ Loads(t, f) => Reads(s \o t, f)
           /\ Leaves(s, f) /\ Reads(t, f) => Reads(s \o t, f)
           /\ Reads(s, f) /\ Leaves(t, f) => Reads(s \o t, f)
<1>1. s \o t \in Seq(Readings) /\ s \in Seq(AllSteps) /\ t \in Seq(AllSteps)
  BY ReadingsConcat
<1>2. Leaves(s, f) /\ Leaves(t, f) => Leaves(s \o t, f)
  BY <1>1, LeavesConcat
<1>3. Identifies(s, f) /\ Leaves(t, f) => Identifies(s \o t, f)
  BY <1>1, IdentifiesConcat
<1>4. Identifies(s, f) /\ Loads(t, f) => Reads(s \o t, f)
  BY <1>1, LoadsConcat
<1>5. /\ Leaves(s, f) /\ Reads(t, f) => Reads(s \o t, f)
      /\ Reads(s, f) /\ Leaves(t, f) => Reads(s \o t, f)
  BY <1>1, ReadsConcat
<1>6. QED
  BY <1>1, <1>2, <1>3, <1>4, <1>5

\* A program before it publishes.
ReadPart(d) ==
    IF asked[d].preparing
    THEN Selecting(d) \o Loading(d) \o <<<<"verify", "model">>>>
    ELSE Selecting(d) \o <<<<"directory", "run">>>> \o Input(d) \o Loading(d)
         \o Checking(d) \o <<<<"verify", "model">>>>

\* The reading part reads every file the run uses, and others not at all.
LEMMA ReadPartSteps ==
    ASSUME NEW d
    PROVE  /\ ReadPart(d) \in Seq(Readings) /\ \A f \in ReadFiles : Leaves(ReadPart(d), f) \/ Reads(ReadPart(d), f)
           /\ \A f \in ReadFiles : Uses(d, f) \/ f = "model" => f = "input" \/ Reads(ReadPart(d), f)
<1>0. ReadFiles = {"lora", "vae", "model", "input"}
  BY DEF ReadFiles, ReadWeights
<1>1. PICK v : v = <<<<"verify", "model">>>>
  OBVIOUS
<1>2. v \in Seq(Readings) /\ \A f : Leaves(v, f)
  BY <1>0, <1>1, OneRead
<1>3. PICK s, l, k, i : s = Selecting(d) /\ l = Loading(d) /\ k = Checking(d) /\ i = Input(d)
  OBVIOUS
<1>4. /\ s \in Seq(Readings)
      /\ \A f \in ReadFiles : IF f \in {"lora", "vae"} /\ Uses(d, f) THEN Identifies(s, f) ELSE Leaves(s, f)
  BY <1>3, SelectingSteps
<1>5. /\ l \in Seq(Readings)
      /\ \A f \in ReadFiles :
                 /\ f = "model" => Reads(l, f)
                 /\ f \in {"lora", "vae"} => IF Uses(d, f) THEN Loads(l, f) ELSE Leaves(l, f)
                 /\ f = "input" => Leaves(l, f)
  BY <1>3, LoadingSteps
<1>6. k \in Seq(Readings) /\ \A f : Leaves(k, f)
  BY <1>3, CheckingSteps
<1>7. /\ i \in Seq(Readings)
      /\ \A f \in ReadFiles : IF f = "input" /\ Uses(d, f) THEN Reads(i, f) ELSE Leaves(i, f)
  BY <1>3, InputSteps
<1>8. PICK w : w = <<<<"directory", "run">>>>
  OBVIOUS
<1>9. w \in Seq(Readings) /\ \A f : Leaves(w, f)
  <2>1. Len(w) = 1 /\ w[1] = <<"directory", "run">>
    BY ONLY <1>8
  <2>2. PICK x \in Readings : x = <<"directory", "run">>
    BY DEF Readings
  <2>3. w \in Seq(Readings)
    <3>1. w = <<x>>
      BY ONLY <1>8, <2>2
    <3>2. QED
      BY ONLY <3>1, x \in Readings
  <2>4. \A f : Leaves(w, f)
    <3>1. \A j \in 1..Len(w) : w[j] = <<"directory", "run">> /\ w[j][1] = "directory"
      BY ONLY <2>1
    <3>2. QED
      BY ONLY <3>1 DEF Leaves
  <2>5. QED
    BY <2>3, <2>4
<1>10. CASE asked[d].preparing
  <2>1. ReadPart(d) = s \o l \o v
    BY <1>1, <1>3, <1>10 DEF ReadPart
  <2>2. s \o l \in Seq(Readings) /\ s \o l \o v \in Seq(Readings)
    BY <1>2, <1>4, <1>5, ReadingsConcat
  <2>3. ASSUME NEW f \in ReadFiles
        PROVE  /\ Leaves(s \o l \o v, f) \/ Reads(s \o l \o v, f)
               /\ Uses(d, f) \/ f = "model" => f = "input" \/ Reads(s \o l \o v, f)
    <3>1. Leaves(s \o l, f) => Leaves(s \o l \o v, f)
      BY <1>2, <2>2, AroundReads
    <3>2. Reads(s \o l, f) => Reads(s \o l \o v, f)
      BY <1>2, <2>2, AroundReads
    <3>3. CASE f \in {"lora", "vae"} /\ Uses(d, f)
      <4>1. Identifies(s, f) /\ Loads(l, f)
        BY <1>4, <1>5, <3>3
      <4>2. Reads(s \o l, f)
        BY <1>4, <1>5, <4>1, AroundReads
      <4>3. QED
        BY <3>2, <4>2
    <3>4. CASE f \in {"lora", "vae"} /\ ~Uses(d, f)
      <4>1. Leaves(s, f) /\ Leaves(l, f)
        BY <1>4, <1>5, <3>4
      <4>2. Leaves(s \o l, f)
        BY <1>4, <1>5, <4>1, AroundReads
      <4>3. QED
        BY <3>1, <3>4, <4>2
    <3>5. CASE f = "model"
      <4>1. Leaves(s, f) /\ Reads(l, f)
        BY <1>4, <1>5, <3>5
      <4>2. Reads(s \o l, f)
        BY <1>4, <1>5, <4>1, AroundReads
      <4>3. QED
        BY <3>2, <4>2
    <3>6. CASE f = "input"
      <4>1. Leaves(s, f) /\ Leaves(l, f)
        BY <1>4, <1>5, <3>6
      <4>2. Leaves(s \o l, f)
        BY <1>4, <1>5, <4>1, AroundReads
      <4>3. QED
        BY <3>1, <3>6, <4>2
    <3>7. QED
      BY <1>0, <3>3, <3>4, <3>5, <3>6
  <2>4. QED
    BY <2>1, <2>2, <2>3
<1>11. CASE ~asked[d].preparing
  <2>1. PICK a : a = s \o w
    OBVIOUS
  <2>2. PICK b : b = a \o i
    OBVIOUS
  <2>3. PICK c : c = b \o l
    OBVIOUS
  <2>4. PICK e : e = c \o k
    OBVIOUS
  <2>5. ReadPart(d) = e \o v
    BY <1>1, <1>3, <1>8, <1>11, <2>1, <2>2, <2>3, <2>4 DEF ReadPart
  <2>6. a \in Seq(Readings)
    BY <1>4, <1>9, <2>1, ReadingsConcat
  <2>7. b \in Seq(Readings)
    BY <1>7, <2>2, <2>6, ReadingsConcat
  <2>8. c \in Seq(Readings)
    BY <1>5, <2>3, <2>7, ReadingsConcat
  <2>9. e \in Seq(Readings)
    BY <1>6, <2>4, <2>8, ReadingsConcat
  <2>10. e \o v \in Seq(Readings)
    BY <1>2, <2>9, ReadingsConcat
  <2>11. ASSUME NEW f \in ReadFiles
         PROVE  /\ Leaves(e \o v, f) \/ Reads(e \o v, f)
                /\ Uses(d, f) \/ f = "model" => f = "input" \/ Reads(e \o v, f)
    <3>1. /\ Leaves(s, f) => Leaves(a, f)
          /\ Identifies(s, f) => Identifies(a, f)
      BY <1>4, <1>9, <2>1, AroundReads
    <3>2. /\ Leaves(c, f) => Leaves(e, f)
          /\ Reads(c, f) => Reads(e, f)
      BY <1>6, <2>4, <2>8, AroundReads
    <3>3. /\ Leaves(e, f) => Leaves(e \o v, f)
          /\ Reads(e, f) => Reads(e \o v, f)
      BY <1>2, <2>9, AroundReads
    <3>4. CASE f \in {"lora", "vae"} /\ Uses(d, f)
      <4>1. Identifies(s, f) /\ Loads(l, f) /\ Leaves(i, f)
        BY <1>4, <1>5, <1>7, <3>4
      <4>2. Identifies(b, f)
        BY <1>7, <2>2, <2>6, <3>1, <4>1, AroundReads
      <4>3. Reads(c, f)
        BY <1>5, <2>3, <2>7, <4>1, <4>2, AroundReads
      <4>4. QED
        BY <3>2, <3>3, <4>3
    <3>5. CASE f \in {"lora", "vae"} /\ ~Uses(d, f)
      <4>1. Leaves(s, f) /\ Leaves(l, f) /\ Leaves(i, f)
        BY <1>4, <1>5, <1>7, <3>5
      <4>2. Leaves(b, f)
        BY <1>7, <2>2, <2>6, <3>1, <4>1, AroundReads
      <4>3. Leaves(c, f)
        BY <1>5, <2>3, <2>7, <4>1, <4>2, AroundReads
      <4>4. QED
        BY <3>2, <3>3, <3>5, <4>3
    <3>6. CASE f = "model"
      <4>1. Leaves(s, f) /\ Reads(l, f) /\ Leaves(i, f)
        BY <1>4, <1>5, <1>7, <3>6
      <4>2. Leaves(b, f)
        BY <1>7, <2>2, <2>6, <3>1, <4>1, AroundReads
      <4>3. Reads(c, f)
        BY <1>5, <2>3, <2>7, <4>1, <4>2, AroundReads
      <4>4. QED
        BY <3>2, <3>3, <4>3
    <3>7. CASE f = "input"
      <4>1. Leaves(s, f) /\ Leaves(l, f) /\ (Leaves(i, f) \/ Reads(i, f))
        BY <1>4, <1>5, <1>7, <3>7
      <4>2. Leaves(b, f) \/ Reads(b, f)
        BY <1>7, <2>2, <2>6, <3>1, <4>1, AroundReads
      <4>3. Leaves(c, f) \/ Reads(c, f)
        BY <1>5, <2>3, <2>7, <4>1, <4>2, AroundReads
      <4>4. QED
        BY <3>2, <3>3, <3>7, <4>3
    <3>8. QED
      BY <1>0, <3>4, <3>5, <3>6, <3>7
  <2>12. QED
    BY <2>5, <2>10, <2>11
<1>12. QED
  BY <1>10, <1>11

\* Steps that put an old report aside if o, save outputs and write a report.
PublishShape(P, o) ==
    /\ P \in Seq(Savings \cup Marks) /\ Len(P) > 2
    /\ P[1] = <<"open", "run">> /\ P[Len(P)] = <<"report", "run">>
    /\ o => Len(P) > 4 /\ P[2] = <<"reserve", "run">> /\ P[3] = <<"retire", "run">>
    /\ \A i \in 1..Len(P) : /\ P[i][1] = "open" => i = 1
                            /\ P[i][1] = "reserve" => o /\ i = 2
                            /\ P[i][1] = "retire" => o /\ i = 3
                            /\ P[i][1] = "report" => i = Len(P)
                            /\ P[i][1] = "refuse" => i < Len(P)
    /\ \A i \in 1..Len(P) : P[i][1] = "digest" => i - 1 \in 1..Len(P) /\ P[i - 1] = <<"save", P[i][2]>>
    /\ \A i, k \in 1..Len(P) : P[i][1] = "digest" /\ P[i] = P[k] => i = k

\* Publishing() opens, retires the report if it overwrites, saves, and reports last.
LEMMA PublishingSteps ==
    ASSUME NEW d, IsJob(asked[d])
    PROVE  /\ PublishShape(Publishing(d), asked[d].overwrite)
           /\ Digests(Publishing(d)) = Digests(Saving(d)) /\ (Refuses(Publishing(d)) <=> Refuses(Saving(d)))
<1>1. PICK h, s, t, u, v, o :
         /\ h = <<<<"open", "run">>>> \o If(asked[d].overwrite, <<<<"reserve", "run">>, <<"retire", "run">>>>)
         /\ s = Saving(d) /\ t = <<<<"safety", "run">>, <<"report", "run">>>> /\ u = h \o s /\ v = u \o t
         /\ o = asked[d].overwrite
  OBVIOUS
<1>2. Publishing(d) = v
  BY <1>1 DEF Publishing
<1>3. SavePart(s)
  BY <1>1, SavingSteps
<1>4. PICK k \in Nat : k = Len(h)
  <2>1. Len(h) \in Nat
    BY <1>1 DEF If
  <2>2. QED
    BY <2>1
<1>5. /\ h \in Seq(Marks) /\ h[1] = <<"open", "run">> /\ k = (IF o THEN 3 ELSE 1)
      /\ o => h[2] = <<"reserve", "run">> /\ h[3] = <<"retire", "run">>
      /\ \A i \in 1..k : i = 1 \/ (o /\ i = 2) \/ (o /\ i = 3)
  <2>1. CASE o
    <3>0. h = <<<<"open", "run">>>> \o <<<<"reserve", "run">>, <<"retire", "run">>>>
      BY <1>1, <2>1 DEF If
    <3>2. <<"open", "run">> \in Marks /\ <<"reserve", "run">> \in Marks /\ <<"retire", "run">> \in Marks
      BY DEF Marks
    <3>1. PICK x, y : /\ x = <<<<"open", "run">>>> /\ y = <<<<"reserve", "run">>, <<"retire", "run">>>>
                      /\ h = x \o y
      BY <3>0
    <3>10. x \in Seq(Marks) /\ Len(x) = 1 /\ x[1] = <<"open", "run">>
      BY ONLY <3>1, <3>2
    <3>11. y \in Seq(Marks) /\ Len(y) = 2 /\ y[1] = <<"reserve", "run">> /\ y[2] = <<"retire", "run">>
      BY ONLY <3>1, <3>2
    <3>12. h = x \o y
      BY <3>1
    <3>15. PICK m, p \in Nat : m = 1 /\ p = 2
      OBVIOUS
    <3>18. PICK S : S = Marks
      OBVIOUS
    <3>16. x \in Seq(S) /\ y \in Seq(S)
      BY <3>10, <3>11, <3>18
    <3>19. Len(x) = m /\ Len(y) = p
      BY <3>10, <3>11, <3>15
    <3>17. /\ h \in Seq(S) /\ Len(h) = m + p
           /\ \A i \in 1..m : h[i] = x[i]
           /\ \A i \in 1..m + p : i > m => i - m \in 1..p /\ h[i] = y[i - m]
      BY ONLY m \in Nat, p \in Nat, <3>16, <3>19, <3>12, ConcatSteps
    <3>3. /\ h \in Seq(Marks) /\ Len(h) = 1 + 2
          /\ \A i \in 1..1 : h[i] = x[i]
          /\ \A i \in 1..1 + 2 : i > 1 => i - 1 \in 1..2 /\ h[i] = y[i - 1]
      BY <3>15, <3>17, <3>18
    <3>13. 1 \in 1..1 /\ 2 \in 1..1 + 2 /\ 3 \in 1..1 + 2 /\ 2 > 1 /\ 3 > 1 /\ 2 - 1 = 1 /\ 3 - 1 = 2 /\ 1 + 2 = 3
      OBVIOUS
    <3>14. Len(h) = 3 /\ h[1] = x[1] /\ h[2] = y[1] /\ h[3] = y[2]
      BY ONLY <3>3, <3>13
    <3>4. Len(h) = 3 /\ h[1] = <<"open", "run">> /\ h[2] = <<"reserve", "run">> /\ h[3] = <<"retire", "run">>
      BY ONLY <3>10, <3>11, <3>14
    <3>5. \A i \in 1..3 : i = 1 \/ i = 2 \/ i = 3
      OBVIOUS
    <3>6. QED
      BY <1>4, <2>1, <3>3, <3>4, <3>5
  <2>2. CASE ~o
    <3>1. h = <<<<"open", "run">>>>
      BY <1>1, <2>2 DEF If
    <3>2. <<"open", "run">> \in Marks
      BY DEF Marks
    <3>3. h \in Seq(Marks)
      BY ONLY <3>1, <3>2
    <3>4. Len(h) = 1 /\ h[1] = <<"open", "run">>
      BY ONLY <3>1
    <3>5. \A i \in 1..1 : i = 1
      OBVIOUS
    <3>6. QED
      BY <1>4, <2>2, <3>3, <3>4, <3>5
  <2>3. QED
    BY <2>1, <2>2
<1>6. s \in Seq(Savings)
  BY <1>3 DEF SavePart
<1>7. PICK n \in Nat : n = Len(s)
  <2>1. Len(s) \in Nat
    BY ONLY <1>6
  <2>2. QED
    BY <2>1
<1>8. t \in Seq(Marks) /\ Len(t) = 2 /\ t[1] = <<"safety", "run">> /\ t[2] = <<"report", "run">>
  <2>1. t = <<<<"safety", "run">>, <<"report", "run">>>>
    BY <1>1
  <2>2. <<"safety", "run">> \in Marks /\ <<"report", "run">> \in Marks
    BY DEF Marks
  <2>3. t \in Seq(Marks)
    BY ONLY <2>1, <2>2
  <2>4. QED
    BY ONLY <2>1, <2>3
<1>9. PICK T : T = Savings \cup Marks
  OBVIOUS
<1>10. h \in Seq(T) /\ s \in Seq(T) /\ t \in Seq(T)
  <2>1. Savings \subseteq T /\ Marks \subseteq T
    BY <1>9
  <2>2. QED
    BY ONLY <2>1, <1>5, <1>6, <1>8
<1>11. u = h \o s /\ v = u \o t
  BY <1>1
<1>12. /\ u \in Seq(T) /\ Len(u) = k + n
       /\ \A i \in 1..k : u[i] = h[i]
       /\ \A i \in 1..k + n : i > k => i - k \in 1..n /\ u[i] = s[i - k]
  BY ONLY <1>4, <1>7, <1>10, <1>11, ConcatSteps
<1>13. /\ v \in Seq(T) /\ Len(v) = k + n + 2
       /\ \A i \in 1..k + n : v[i] = u[i]
       /\ \A i \in 1..k + n + 2 : i > k + n => i - (k + n) \in 1..2 /\ v[i] = t[i - (k + n)]
  <2>1. v = u \o t /\ t \in Seq(T)
    BY <1>10, <1>11
  <2>10. u \in Seq(T)
    BY <1>12
  <2>2. PICK p, q \in Nat : p = k + n /\ q = 2
    OBVIOUS
  <2>3. Len(u) = p /\ Len(t) = q
    BY <1>8, <1>12, <2>2
  <2>4. /\ v \in Seq(T) /\ Len(v) = p + q
        /\ \A i \in 1..p : v[i] = u[i]
        /\ \A i \in 1..p + q : i > p => i - p \in 1..q /\ v[i] = t[i - p]
    BY ONLY <2>1, <2>10, <2>3, ConcatSteps
  <2>5. QED
    BY <2>2, <2>4
<1>14. PICK l \in Nat : l = k + n + 2
  OBVIOUS
<1>15. \A i \in 1..l : i \in 1..k \/ (i > k /\ i - k \in 1..n) \/ i = l - 1 \/ i = l
  BY <1>14
<1>16. /\ \A i \in 1..k : i \in 1..l /\ v[i] = h[i]
       /\ \A i \in 1..l : i > k /\ i - k \in 1..n => v[i] = s[i - k]
       /\ l \in 1..l /\ l - 1 \in 1..l /\ v[l - 1] = <<"safety", "run">> /\ v[l] = <<"report", "run">>
  <2>1. ASSUME NEW i \in 1..k
        PROVE  i \in 1..l /\ v[i] = h[i]
    BY ONLY <1>12, <1>13, <1>14, k \in Nat, n \in Nat, i \in 1..k
  <2>2. ASSUME NEW i \in 1..l, i > k, i - k \in 1..n
        PROVE  v[i] = s[i - k]
    <3>1. i \in 1..k + n
      BY ONLY <2>2, k \in Nat, n \in Nat, i \in 1..l
    <3>2. QED
      BY ONLY <2>2, <3>1, <1>12, <1>13
  <2>3. l \in 1..l /\ l - 1 \in 1..l /\ l > k + n /\ l - 1 > k + n /\ l - (k + n) = 2 /\ (l - 1) - (k + n) = 1
    BY ONLY <1>14, k \in Nat, n \in Nat
  <2>4. v[l - 1] = t[1] /\ v[l] = t[2]
    BY ONLY <1>13, <1>14, <2>3
  <2>5. QED
    BY <1>8, <2>1, <2>2, <2>3, <2>4
<1>17. \A i \in 1..n : /\ s[i][1] \in {"save", "digest", "refuse"}
                       /\ s[i][1] = "digest" => i - 1 \in 1..n /\ s[i - 1] = <<"save", s[i][2]>>
  <2>1. \A i \in 1..n : s[i] \in Savings
    BY ONLY <1>6, <1>7
  <2>2. \A x \in Savings : x[1] \in {"save", "digest", "refuse"}
    BY DEF Savings
  <2>3. QED
    BY <1>3, <1>7, <2>1, <2>2 DEF SavePart
<1>18. \A i \in 1..k : /\ h[i][1] \in {"open", "reserve", "retire"}
                       /\ h[i][1] = "open" => i = 1
                       /\ h[i][1] = "reserve" => o /\ i = 2
                       /\ h[i][1] = "retire" => o /\ i = 3
  BY <1>5
<1>19. ASSUME NEW i \in 1..l
       PROVE  /\ v[i][1] = "open" => i = 1
              /\ v[i][1] = "reserve" => o /\ i = 2
              /\ v[i][1] = "retire" => o /\ i = 3
              /\ v[i][1] = "report" => i = l
              /\ v[i][1] = "refuse" => i < l
              /\ v[i][1] = "digest" => i > k /\ i - k \in 1..n /\ v[i] = s[i - k]
  <2>1. CASE i \in 1..k
    BY ONLY <1>16, <1>18, <2>1
  <2>2. CASE i > k /\ i - k \in 1..n
    <3>1. v[i] = s[i - k] /\ v[i][1] \in {"save", "digest", "refuse"} /\ i < l
      BY ONLY <1>14, <1>16, <1>17, <2>2, i \in 1..l, k \in Nat, n \in Nat
    <3>2. QED
      BY ONLY <2>2, <3>1
  <2>3. CASE i = l - 1
    <3>1. v[i][1] = "safety"
      BY <1>16, <2>3
    <3>2. QED
      BY <3>1
  <2>4. CASE i = l
    <3>1. v[i][1] = "report"
      BY <1>16, <2>4
    <3>2. QED
      BY <2>4, <3>1
  <2>5. QED
    BY <1>15, <2>1, <2>2, <2>3, <2>4
<1>20. ASSUME NEW i \in 1..l, v[i][1] = "digest"
       PROVE  i - 1 \in 1..l /\ v[i - 1] = <<"save", v[i][2]>>
  <2>1. i > k /\ i - k \in 1..n /\ v[i] = s[i - k]
    BY <1>19, <1>20
  <2>2. (i - k) - 1 \in 1..n /\ s[(i - k) - 1] = <<"save", v[i][2]>>
    BY <1>17, <1>20, <2>1
  <2>3. i - 1 \in 1..l /\ i - 1 > k /\ (i - 1) - k = (i - k) - 1
    BY ONLY <1>14, <2>1, <2>2, k \in Nat, n \in Nat, i \in 1..l
  <2>4. v[i - 1] = s[(i - k) - 1]
    BY ONLY <1>16, <2>2, <2>3
  <2>5. QED
    BY <2>2, <2>3, <2>4
<1>21. ASSUME NEW i \in 1..l, NEW j \in 1..l, v[i][1] = "digest", v[i] = v[j]
       PROVE  i = j
  <2>1. /\ i - k \in 1..n /\ v[i] = s[i - k]
        /\ j - k \in 1..n /\ v[j] = s[j - k]
    BY <1>19, <1>21
  <2>2. i - k = j - k
    BY <1>3, <1>7, <1>21, <2>1 DEF SavePart
  <2>3. QED
    BY ONLY <2>2, k \in Nat, i \in 1..l, j \in 1..l
<1>22. /\ Len(v) = l /\ v \in Seq(T) /\ l > 2 /\ v[1] = <<"open", "run">> /\ v[l] = <<"report", "run">>
       /\ o => l > 4 /\ v[2] = <<"reserve", "run">> /\ v[3] = <<"retire", "run">>
  <2>1. k \in 1..3 /\ 1 \in 1..k /\ l > 2 /\ (o => l > 4 /\ 2 \in 1..k /\ 3 \in 1..k)
    BY <1>5, <1>14
  <2>2. QED
    BY <1>5, <1>13, <1>14, <1>16, <2>1
<1>23. PublishShape(v, o)
  <2>10. v \in Seq(T)
    BY <1>22
  <2>1. v \in Seq(Savings \cup Marks)
    BY ONLY <1>9, <2>10
  <2>2. QED
    BY ONLY <2>1, <1>19, <1>20, <1>21, <1>22 DEF PublishShape
<1>24. Digests(v) = Digests(s) /\ (Refuses(v) <=> Refuses(s))
  <2>1. \A x \in Marks : x[1] \notin {"digest", "refuse"}
    BY DEF Marks
  <2>2. ASSUME NEW x, x \in Seq(Marks)
        PROVE  Digests(x) = {} /\ ~Refuses(x)
    <3>1. \A i \in DOMAIN x : x[i] \in Marks
      BY ONLY <2>2
    <3>2. \A i \in DOMAIN x : x[i][1] \notin {"digest", "refuse"}
      BY <2>1, <3>1
    <3>3. QED
      BY <3>2 DEF Digests, Refuses
  <2>3. Digests(u) = Digests(h) \cup Digests(s) /\ (Refuses(u) <=> Refuses(h) \/ Refuses(s))
    BY ONLY <1>10, <1>11, ConcatDigests
  <2>4. u \in Seq(T)
    BY <1>12
  <2>40. t \in Seq(T)
    BY <1>10
  <2>41. v = u \o t
    BY <1>11
  <2>5. Digests(v) = Digests(u) \cup Digests(t) /\ (Refuses(v) <=> Refuses(u) \/ Refuses(t))
    BY ONLY <2>40, <2>41, <2>4, ConcatDigests
  <2>6. QED
    BY <1>5, <1>8, <2>2, <2>3, <2>5
<1>25. QED
  BY <1>1, <1>2, <1>23, <1>24

\* Every program has this shape, and lists what it is expected to list.
LEMMA ProgramSteps ==
    ASSUME NEW d, IsJob(asked[d])
    PROVE  \E r \in 0..Len(Steps(d)) : Shape(Steps(d), asked[d], r)
<1>1. PICK R, r, j : R = ReadPart(d) /\ r = Len(R) /\ j = asked[d]
  OBVIOUS
<1>2. R \in Seq(Readings) /\ \A f \in ReadFiles : Leaves(R, f) \/ Reads(R, f)
  BY <1>1, ReadPartSteps
<1>3. r \in Nat
  BY ONLY <1>1, <1>2
<1>4. \A x \in Readings : x[1] \in {"identify", "load", "verify", "directory"}
  BY DEF Readings, FileSteps
<1>5. \A i \in 1..r : R[i] \in Readings /\ R[i][1] \in {"identify", "load", "verify", "directory"}
  <2>1. \A i \in 1..r : R[i] \in Readings
    BY ONLY <1>1, <1>2
  <2>2. QED
    BY <1>4, <2>1
<1>6. j.preparing \in BOOLEAN /\ j.overwrite \in BOOLEAN
  BY <1>1 DEF IsJob
<1>7. CASE j.preparing
  <2>1. Steps(d) = R
    BY <1>1, <1>7 DEF Steps, ReadPart
  <2>2. R \in Seq(AllSteps)
    BY <1>2, AllOfReadings
  <2>3. Shape(R, j, r)
    BY <1>1, <1>2, <1>3, <1>5, <1>7, <2>2 DEF Shape
  <2>4. QED
    BY <1>1, <1>3, <2>1, <2>3
<1>8. CASE ~j.preparing
  <2>1. PICK q, P : q = Publishing(d) /\ P = R \o q
    OBVIOUS
  <2>2. Steps(d) = P
    BY <1>1, <1>8, <2>1 DEF Steps, ReadPart
  <2>3. PublishShape(q, j.overwrite)
    BY <1>1, <2>1, PublishingSteps
  <2>4. q \in Seq(Savings \cup Marks)
    BY <2>3 DEF PublishShape
  <2>5. PICK l \in Nat : l = Len(q)
    <3>1. Len(q) \in Nat
      BY ONLY <2>4
    <3>2. QED
      BY <3>1
  <2>6. PICK T : T = AllSteps
    OBVIOUS
  <2>7. R \in Seq(T) /\ q \in Seq(T)
    <3>1. Readings \subseteq T /\ Savings \cup Marks \subseteq T
      BY <2>6 DEF AllSteps
    <3>2. QED
      BY ONLY <1>2, <2>4, <3>1
  <2>8. P = R \o q
    BY <2>1
  <2>9. /\ P \in Seq(T) /\ Len(P) = r + l
        /\ \A i \in 1..r : P[i] = R[i]
        /\ \A i \in 1..l : P[r + i] = q[i]
        /\ \A i \in 1..r + l : i > r => i - r \in 1..l /\ P[i] = q[i - r]
    BY ONLY <1>1, <2>5, <2>7, <2>8, ConcatSteps
  <2>10. PICK m \in Nat : m = r + l
    BY <1>3
  <2>11. \A i \in 1..m : i \in 1..r \/ (i > r /\ i - r \in 1..l)
    BY <1>3, <2>10
  <2>12. \A x \in Savings \cup Marks : x[1] \notin {"identify", "load", "verify", "directory"}
    BY DEF Savings, Marks
  <2>13. \A i \in 1..l : q[i] \in AllSteps /\ q[i][1] \notin {"identify", "load", "verify", "directory"}
    <3>1. \A i \in 1..l : q[i] \in Savings \cup Marks
      BY ONLY <2>4, <2>5
    <3>2. QED
      BY <2>12, <3>1 DEF AllSteps
  <2>14. ASSUME NEW i \in 1..m, i \in 1..r
         PROVE  /\ P[i] \in Readings /\ P[i][1] \in {"identify", "load", "verify", "directory"}
    BY <1>5, <2>9, <2>14
  <2>15. ASSUME NEW i \in 1..m, i > r
         PROVE  /\ i - r \in 1..l /\ P[i] = q[i - r] /\ P[i] \notin Readings
                /\ P[i][1] \notin {"identify", "load", "verify", "directory"}
    <3>1. i - r \in 1..l /\ P[i] = q[i - r]
      BY <2>9, <2>10, <2>15
    <3>2. QED
      BY <1>4, <2>13, <3>1
  <2>16. \A i \in 1..m : (P[i] \in Readings <=> i <= r)
    BY <1>3, <2>11, <2>14, <2>15
  <2>17. /\ l > 2 /\ q[1] = <<"open", "run">> /\ q[l] = <<"report", "run">>
         /\ j.overwrite => l > 4 /\ q[2] = <<"reserve", "run">> /\ q[3] = <<"retire", "run">>
         /\ \A i \in 1..l : /\ q[i][1] = "open" => i = 1
                            /\ q[i][1] = "reserve" => j.overwrite /\ i = 2
                            /\ q[i][1] = "retire" => j.overwrite /\ i = 3
                            /\ q[i][1] = "report" => i = l
                            /\ q[i][1] = "refuse" => i < l
         /\ \A i \in 1..l : q[i][1] = "digest" => i - 1 \in 1..l /\ q[i - 1] = <<"save", q[i][2]>>
         /\ \A i, k \in 1..l : q[i][1] = "digest" /\ q[i] = q[k] => i = k
    BY <2>3, <2>5 DEF PublishShape
  <2>18. /\ r + 2 < m /\ P[r + 1] = <<"open", "run">> /\ P[m] = <<"report", "run">>
         /\ j.overwrite => r + 4 < m /\ P[r + 2] = <<"reserve", "run">> /\ P[r + 3] = <<"retire", "run">>
    <3>1. 1 \in 1..l /\ l \in 1..l /\ r + 2 < m /\ (l > 4 => 2 \in 1..l /\ 3 \in 1..l /\ r + 4 < m)
      BY <1>3, <2>10, <2>17
    <3>2. QED
      BY <2>9, <2>10, <2>17, <3>1
  <2>19. ASSUME NEW i \in 1..m
         PROVE  /\ P[i][1] = "open" => i = r + 1
                /\ P[i][1] = "reserve" => j.overwrite /\ i = r + 2
                /\ P[i][1] = "retire" => j.overwrite /\ i = r + 3
                /\ P[i][1] = "report" => i = m
                /\ P[i][1] = "refuse" => i < m
    <3>1. CASE i \in 1..r
      <4>1. P[i][1] \in {"identify", "load", "verify", "directory"}
        BY <2>14, <3>1
      <4>2. QED
        BY <4>1
    <3>2. CASE i > r
      <4>1. i - r \in 1..l /\ P[i] = q[i - r]
        BY <2>15, <3>2
      <4>2. /\ i - r = 1 => i = r + 1
            /\ i - r = 2 => i = r + 2
            /\ i - r = 3 => i = r + 3
            /\ i - r = l => i = m
            /\ i - r < l => i < m
        BY <1>3, <2>10
      <4>3. QED
        BY <2>17, <4>1, <4>2
    <3>3. QED
      BY <2>11, <3>1, <3>2
  <2>20. ASSUME NEW i \in 1..m, P[i][1] = "digest"
         PROVE  i - r \in 1..l /\ P[i] = q[i - r] /\ i - 1 \in 1..m /\ P[i - 1] = <<"save", P[i][2]>>
    <3>1. ~(i \in 1..r)
      <4>1. ASSUME i \in 1..r PROVE FALSE
        <5>1. P[i][1] \in {"identify", "load", "verify", "directory"}
          BY <2>14, <4>1
        <5>2. QED
          BY <2>20, <5>1
      <4>2. QED
        BY <4>1
    <3>2. i > r /\ i - r \in 1..l /\ P[i] = q[i - r]
      BY <2>11, <2>15, <3>1
    <3>3. (i - r) - 1 \in 1..l /\ q[(i - r) - 1] = <<"save", P[i][2]>>
      BY <2>17, <2>20, <3>2
    <3>4. i - 1 \in 1..m /\ r + ((i - r) - 1) = i - 1
      BY <1>3, <2>10, <3>2, <3>3
    <3>5. P[i - 1] = q[(i - r) - 1]
      BY ONLY <2>9, <3>3, <3>4
    <3>6. QED
      BY <3>2, <3>3, <3>4, <3>5
  <2>21. ASSUME NEW i \in 1..m, NEW k \in 1..m, P[i][1] = "digest", P[i] = P[k]
         PROVE  i = k
    <3>1. P[k][1] = "digest"
      BY <2>21
    <3>2. i - r \in 1..l /\ P[i] = q[i - r] /\ k - r \in 1..l /\ P[k] = q[k - r]
      BY <2>20, <2>21, <3>1
    <3>3. i - r = k - r
      BY <2>17, <2>21, <3>2
    <3>4. QED
      BY ONLY <1>3, <3>3, i \in 1..m, k \in 1..m
  <2>22. \A f : Leaves(q, f)
    <3>1. \A i \in 1..Len(q) : q[i][1] \notin {"identify", "load", "verify", "directory"}
      BY <2>5, <2>13
    <3>2. QED
      BY ONLY <3>1 DEF Leaves
  <2>23. \A f \in ReadFiles : Leaves(P, f) \/ Reads(P, f)
    <3>1. R \in Seq(AllSteps) /\ q \in Seq(AllSteps)
      BY <2>6, <2>7
    <3>2. QED
      BY <1>2, <2>8, <2>22, <3>1, LeavesConcat, ReadsConcat
  <2>24. Len(P) = m /\ P \in Seq(AllSteps) /\ r \in 0..m
    BY <1>3, <2>6, <2>9, <2>10
  <2>25. Shape(P, j, r)
    BY ONLY <1>8, <2>16, <2>18, <2>19, <2>20, <2>21, <2>23, <2>24 DEF Shape
  <2>26. QED
    BY <1>1, <2>2, <2>24, <2>25
<1>9. QED
  BY <1>6, <1>7, <1>8

\* The program of a run that publishes saves what Saving() does.
LEMMA ProgramDigests ==
    ASSUME NEW d, IsJob(asked[d]), ~asked[d].preparing
    PROVE  Digests(Steps(d)) = Digests(Saving(d)) /\ (Refuses(Steps(d)) <=> Refuses(Saving(d)))
<1>1. Steps(d) = ReadPart(d) \o Publishing(d)
  BY DEF Steps, ReadPart
<1>2. ReadPart(d) \in Seq(Readings)
  BY ReadPartSteps
<1>3. Publishing(d) \in Seq(Savings \cup Marks)
  BY PublishingSteps DEF PublishShape
<1>4. PICK R, q, T : R = ReadPart(d) /\ q = Publishing(d) /\ T = AllSteps
  OBVIOUS
<1>5. R \in Seq(T) /\ q \in Seq(T)
  <2>1. Readings \subseteq T /\ Savings \cup Marks \subseteq T
    BY <1>4 DEF AllSteps
  <2>2. R \in Seq(Readings) /\ q \in Seq(Savings \cup Marks)
    BY <1>2, <1>3, <1>4
  <2>3. QED
    BY ONLY <2>1, <2>2
<1>6. Digests(R \o q) = Digests(R) \cup Digests(q) /\ (Refuses(R \o q) <=> Refuses(R) \/ Refuses(q))
  BY ONLY <1>5, ConcatDigests
<1>7. Digests(R) = {} /\ ~Refuses(R)
  <2>1. \A x \in Readings : x[1] \notin {"digest", "refuse"}
    BY DEF Readings, FileSteps
  <2>2. R \in Seq(Readings)
    BY <1>2, <1>4
  <2>3. \A i \in DOMAIN R : R[i] \in Readings
    BY ONLY <2>2
  <2>4. \A i \in DOMAIN R : R[i][1] \notin {"digest", "refuse"}
    BY <2>1, <2>3
  <2>5. QED
    BY <2>4 DEF Digests, Refuses
<1>8. QED
  BY <1>1, <1>4, <1>6, <1>7, PublishingSteps

\* Run with program P, arguments j and reading in r steps has taken p steps: where it is.
Lies(P, j, r, p) ==
    /\ Len(P) \in Nat /\ r \in Nat /\ r <= Len(P)
    /\ (p < Len(P) /\ \E i \in 1..p : P[i][1] = "open") <=> (~j.preparing /\ r + 1 <= p /\ p < Len(P))
    /\ p < Len(P) =>
          /\ P[p + 1][1] = "open" => ~j.preparing /\ p = r
          /\ P[p + 1][1] = "reserve" =>
                /\ ~j.preparing /\ j.overwrite /\ p = r + 1 /\ r + 4 < Len(P)
                /\ P[p + 1] = <<"reserve", "run">> /\ P[p + 2] = <<"retire", "run">>
          /\ P[p + 1][1] = "retire" => ~j.preparing /\ j.overwrite /\ p = r + 2 /\ r + 4 < Len(P)
          /\ P[p + 1][1] = "report" => p + 1 = Len(P)
          /\ P[p + 1][1] \in {"save", "digest", "safety", "report"} =>
                ~j.preparing /\ r + 1 <= p /\ (j.overwrite => r + 3 <= p)
          /\ P[p + 1][1] = "save" => P[p + 1][2] \in OutputNames
          /\ P[p + 1][1] = "digest" =>
                /\ P[p + 1][2] \in OutputNames /\ P[p + 1] = <<"digest", P[p + 1][2]>>
                /\ \E i \in 1..p : P[i] = <<"save", P[p + 1][2]>>
                /\ \A i \in 1..p : P[i] # P[p + 1]

\* Where the steps of a program are.
LEMMA Geometry ==
    ASSUME NEW P, NEW j, NEW r, Shape(P, j, r), NEW p \in 0..Len(P)
    PROVE  Lies(P, j, r, p)
<1>1. Len(P) \in Nat /\ r \in 0..Len(P) /\ p \in Nat /\ p <= Len(P)
  BY DEF Shape
<1>2. \A i \in 1..Len(P) : P[i] \in AllSteps
  <2>1. P \in Seq(AllSteps)
    BY DEF Shape
  <2>2. QED
    BY ONLY <2>1
<1>3. j.preparing => Len(P) = r
  BY DEF Shape
<1>4. ~j.preparing => r + 2 < Len(P) /\ P[r + 1] = <<"open", "run">> /\ P[Len(P)] = <<"report", "run">>
  BY DEF Shape
<1>5. ~j.preparing /\ j.overwrite => r + 4 < Len(P) /\ P[r + 2] = <<"reserve", "run">> /\ P[r + 3] = <<"retire", "run">>
  BY DEF Shape
<1>6. \A i \in 1..Len(P) : (P[i] \in Readings <=> i <= r)
  BY DEF Shape
<1>7. \A i \in 1..Len(P) : /\ P[i][1] = "open" => i = r + 1
                           /\ P[i][1] = "reserve" => j.overwrite /\ i = r + 2
                           /\ P[i][1] = "retire" => j.overwrite /\ i = r + 3
                           /\ P[i][1] = "report" => i = Len(P)
  BY DEF Shape
<1>8. \A i \in 1..Len(P) : P[i][1] = "digest" => i - 1 \in 1..Len(P) /\ P[i - 1] = <<"save", P[i][2]>>
  BY DEF Shape
<1>9. \A i, k \in 1..Len(P) : P[i][1] = "digest" /\ P[i] = P[k] => i = k
  BY DEF Shape
<1>10. \A x \in Readings : x[1] \in {"identify", "load", "verify", "directory"}
  BY DEF Readings, FileSteps
<1>11. (p < Len(P) /\ \E i \in 1..p : P[i][1] = "open") <=> (~j.preparing /\ r + 1 <= p /\ p < Len(P))
  <2>1. ASSUME NEW i \in 1..p, P[i][1] = "open", p < Len(P)
        PROVE  ~j.preparing /\ r + 1 <= p
    <3>1. i \in 1..Len(P)
      BY <1>1
    <3>2. i = r + 1
      BY <1>7, <2>1, <3>1
    <3>3. r # Len(P)
      BY <1>1, <3>1, <3>2
    <3>4. QED
      BY <1>1, <1>3, <3>2, <3>3
  <2>2. ASSUME ~j.preparing, r + 1 <= p
        PROVE  \E i \in 1..p : P[i][1] = "open"
    <3>1. r + 1 \in 1..p /\ P[r + 1][1] = "open"
      BY <1>1, <1>4, <2>2
    <3>2. QED
      BY <3>1
  <2>3. QED
    BY <2>1, <2>2
<1>12. ASSUME p < Len(P)
       PROVE  /\ P[p + 1][1] = "open" => ~j.preparing /\ p = r
              /\ P[p + 1][1] = "reserve" =>
                    /\ ~j.preparing /\ j.overwrite /\ p = r + 1 /\ r + 4 < Len(P)
                    /\ P[p + 1] = <<"reserve", "run">> /\ P[p + 2] = <<"retire", "run">>
              /\ P[p + 1][1] = "retire" => ~j.preparing /\ j.overwrite /\ p = r + 2 /\ r + 4 < Len(P)
              /\ P[p + 1][1] = "report" => p + 1 = Len(P)
              /\ P[p + 1][1] \in {"save", "digest", "safety", "report"} =>
                    ~j.preparing /\ r + 1 <= p /\ (j.overwrite => r + 3 <= p)
              /\ P[p + 1][1] = "save" => P[p + 1][2] \in OutputNames
              /\ P[p + 1][1] = "digest" =>
                    /\ P[p + 1][2] \in OutputNames /\ P[p + 1] = <<"digest", P[p + 1][2]>>
                    /\ \E i \in 1..p : P[i] = <<"save", P[p + 1][2]>>
                    /\ \A i \in 1..p : P[i] # P[p + 1]
  <2>1. PICK k \in 1..Len(P) : k = p + 1
    BY <1>1, <1>12
  <2>2. PICK x : x = P[k]
    OBVIOUS
  <2>3. ~(x \in Readings) => ~j.preparing /\ k > r
    BY <1>1, <1>3, <1>6, <2>1, <2>2
  <2>4. x[1] \in {"open", "reserve", "retire", "save", "digest", "safety", "report"} => ~j.preparing /\ k > r
    BY <1>10, <2>3
  <2>5. /\ x[1] = "open" => k = r + 1
        /\ x[1] = "reserve" => j.overwrite /\ k = r + 2
        /\ x[1] = "retire" => j.overwrite /\ k = r + 3
        /\ x[1] = "report" => k = Len(P)
    BY <1>7, <2>2
  <2>6. ASSUME x[1] \in {"save", "digest", "safety", "report"}
        PROVE  k > r + 1 /\ (j.overwrite => k > r + 3)
    <3>1. ~j.preparing /\ k > r
      BY <2>4, <2>6
    <3>2. k # r + 1
      <4>1. P[r + 1][1] = "open"
        BY <1>4, <3>1
      <4>2. QED
        BY <2>2, <2>6, <4>1
    <3>3. ASSUME j.overwrite PROVE k # r + 2 /\ k # r + 3
      <4>1. P[r + 2][1] = "reserve" /\ P[r + 3][1] = "retire"
        BY <1>5, <3>1, <3>3
      <4>2. QED
        BY <2>2, <2>6, <4>1
    <3>4. QED
      BY <1>1, <3>1, <3>2, <3>3
  <2>7. x \in AllSteps
    BY <1>2, <2>2
  <2>8. /\ x[1] = "save" => x[2] \in OutputNames
        /\ x[1] = "digest" => x[2] \in OutputNames /\ x = <<"digest", x[2]>>
    BY <2>7 DEF AllSteps, Readings, FileSteps, Savings, Marks
  <2>9. ASSUME x[1] = "digest"
        PROVE  (\E i \in 1..p : P[i] = <<"save", x[2]>>) /\ \A i \in 1..p : P[i] # x
    <3>1. k - 1 \in 1..Len(P) /\ P[k - 1] = <<"save", x[2]>>
      BY <1>8, <2>2, <2>9
    <3>2. k - 1 \in 1..p
      BY <1>1, <2>1, <3>1
    <3>3. ASSUME NEW i \in 1..p, P[i] = x PROVE FALSE
      <4>1. i \in 1..Len(P)
        BY <1>1
      <4>2. i = k
        BY <1>9, <2>2, <2>9, <3>3, <4>1
      <4>3. QED
        BY <1>1, <2>1, <4>2
    <3>4. QED
      BY <3>1, <3>2, <3>3
  <2>10. /\ x[1] = "open" => ~j.preparing /\ p = r
         /\ x[1] = "retire" => ~j.preparing /\ j.overwrite /\ p = r + 2 /\ r + 4 < Len(P)
         /\ x[1] = "report" => p + 1 = Len(P)
         /\ x[1] \in {"save", "digest", "safety", "report"} =>
               ~j.preparing /\ r + 1 <= p /\ (j.overwrite => r + 3 <= p)
    BY <1>1, <1>5, <2>1, <2>4, <2>5, <2>6
  <2>11. ASSUME x[1] = "reserve"
         PROVE  /\ ~j.preparing /\ j.overwrite /\ p = r + 1 /\ r + 4 < Len(P)
                /\ x = <<"reserve", "run">> /\ P[p + 2] = <<"retire", "run">>
    <3>1. ~j.preparing /\ j.overwrite /\ p = r + 1 /\ k = r + 2
      BY <1>1, <2>1, <2>4, <2>5, <2>11
    <3>2. p + 2 = r + 3
      BY <1>1, <3>1
    <3>3. QED
      BY <1>5, <2>2, <3>1, <3>2
  <2>12. P[p + 1] = x
    BY <2>1, <2>2
  <2>13. QED
    BY ONLY <2>8, <2>9, <2>10, <2>11, <2>12
<1>13. QED
  BY ONLY <1>1, <1>11, <1>12 DEF Lies

\* What a run is about to do, and how far it is then.
LEMMA RunFacts ==
    ASSUME Programs, Types, NEW d \in DOMAIN asked
    PROVE  /\ d \in Drawers /\ Len(program[d]) \in Nat /\ ReadLength(d) \in Nat /\ passed[d] \in Nat
           /\ passed[d] <= Len(program[d]) /\ ReadLength(d) <= Len(program[d])
           /\ IsPublishing(d) <=> Inside(d)
           /\ Due(d, "open") => ~asked[d].preparing /\ passed[d] = ReadLength(d)
           /\ Due(d, "reserve") =>
                 /\ ~asked[d].preparing /\ asked[d].overwrite /\ passed[d] = ReadLength(d) + 1
                 /\ ReadLength(d) + 4 < Len(program[d]) /\ Inside(d)
                 /\ Now(d) = <<"reserve", "run">> /\ program[d][passed[d] + 2] = <<"retire", "run">>
           /\ Due(d, "retire") =>
                 /\ ~asked[d].preparing /\ asked[d].overwrite /\ passed[d] = ReadLength(d) + 2
                 /\ ReadLength(d) + 4 < Len(program[d]) /\ Inside(d)
           /\ Due(d, "report") => passed[d] + 1 = Len(program[d])
           /\ \A op \in {"save", "digest", "safety", "report"} : Due(d, op) =>
                 ~asked[d].preparing /\ Inside(d) /\ (asked[d].overwrite => ReadLength(d) + 3 <= passed[d])
           /\ Due(d, "save") => Now(d)[2] \in OutputNames
           /\ Due(d, "digest") =>
                 /\ Now(d)[2] \in OutputNames /\ Now(d) = <<"digest", Now(d)[2]>>
                 /\ Took(d, <<"save", Now(d)[2]>>) /\ ~Took(d, Now(d))
<1>1. PICK P, j, r, p : P = program[d] /\ j = asked[d] /\ r = ReadLength(d) /\ p = passed[d]
  OBVIOUS
<1>2. d \in Drawers /\ Shape(P, j, r) /\ p \in Nat /\ p <= Len(P)
  BY <1>1 DEF Programs, Types
<1>3. Len(P) \in Nat
  <2>1. P \in Seq(AllSteps)
    BY <1>2 DEF Shape
  <2>2. QED
    BY ONLY <2>1
<1>4. p \in 0..Len(P)
  BY <1>2, <1>3
<1>5. /\ Len(P) \in Nat /\ r \in Nat /\ r <= Len(P)
      /\ (p < Len(P) /\ \E i \in 1..p : P[i][1] = "open") <=> (~j.preparing /\ r + 1 <= p /\ p < Len(P))
      /\ p < Len(P) =>
            /\ P[p + 1][1] = "open" => ~j.preparing /\ p = r
            /\ P[p + 1][1] = "reserve" =>
                  /\ ~j.preparing /\ j.overwrite /\ p = r + 1 /\ r + 4 < Len(P)
                  /\ P[p + 1] = <<"reserve", "run">> /\ P[p + 2] = <<"retire", "run">>
            /\ P[p + 1][1] = "retire" => ~j.preparing /\ j.overwrite /\ p = r + 2 /\ r + 4 < Len(P)
            /\ P[p + 1][1] = "report" => p + 1 = Len(P)
            /\ P[p + 1][1] \in {"save", "digest", "safety", "report"} =>
                  ~j.preparing /\ r + 1 <= p /\ (j.overwrite => r + 3 <= p)
            /\ P[p + 1][1] = "save" => P[p + 1][2] \in OutputNames
            /\ P[p + 1][1] = "digest" =>
                  /\ P[p + 1][2] \in OutputNames /\ P[p + 1] = <<"digest", P[p + 1][2]>>
                  /\ \E i \in 1..p : P[i] = <<"save", P[p + 1][2]>>
                  /\ \A i \in 1..p : P[i] # P[p + 1]
  <2>1. Lies(P, j, r, p)
    BY ONLY <1>2, <1>4, Geometry
  <2>2. QED
    BY ONLY <2>1 DEF Lies
<1>6. /\ IsPublishing(d) <=> (ending[d] = "run" /\ p < Len(P) /\ \E i \in 1..p : P[i][1] = "open")
      /\ Inside(d) <=> (ending[d] = "run" /\ ~j.preparing /\ r + 1 <= p /\ p < Len(P))
      /\ Now(d) = P[p + 1] /\ program[d][passed[d] + 2] = P[p + 2]
      /\ \A op : Due(d, op) <=> (ending[d] = "run" /\ p < Len(P) /\ P[p + 1][1] = op)
      /\ \A s : Took(d, s) <=> \E i \in 1..p : P[i] = s
  BY <1>1 DEF IsPublishing, Inside, Now, Due, Took
<1>7. IsPublishing(d) <=> Inside(d)
  BY ONLY <1>5, <1>6
<1>8. /\ Due(d, "open") => ~j.preparing /\ p = r
      /\ Due(d, "reserve") =>
            /\ ~j.preparing /\ j.overwrite /\ p = r + 1 /\ r + 4 < Len(P) /\ Inside(d)
            /\ Now(d) = <<"reserve", "run">> /\ program[d][passed[d] + 2] = <<"retire", "run">>
      /\ Due(d, "retire") => ~j.preparing /\ j.overwrite /\ p = r + 2 /\ r + 4 < Len(P) /\ Inside(d)
      /\ Due(d, "report") => p + 1 = Len(P)
  BY ONLY <1>2, <1>5, <1>6
<1>9. \A op \in {"save", "digest", "safety", "report"} : Due(d, op) =>
          ~j.preparing /\ Inside(d) /\ (j.overwrite => r + 3 <= p)
  BY ONLY <1>2, <1>5, <1>6
<1>10. /\ Due(d, "save") => Now(d)[2] \in OutputNames
       /\ Due(d, "digest") =>
             /\ Now(d)[2] \in OutputNames /\ Now(d) = <<"digest", Now(d)[2]>>
             /\ Took(d, <<"save", Now(d)[2]>>) /\ ~Took(d, Now(d))
  BY ONLY <1>5, <1>6
<1>11. QED
  BY <1>1, <1>2, <1>3, <1>5, <1>7, <1>8, <1>9, <1>10

\* No step changes what a run was asked, its program, or how long it reads.
LEMMA AskedStays ==
    ASSUME [GenericNext]_genericVars
    PROVE  /\ asked' = asked /\ program' = program
           /\ \A d : ReadLength(d)' = ReadLength(d)
<1>1. asked' = asked /\ program' = program
  BY DEF GenericNext, Identify, LoadSource, VerifySource, CheckDirectory, OpenPublication,
     Reserve, RetireReport,
         SaveOutput, DigestOutput, Safety, WriteReport, Finish, FailRun, KillRun, ChangeSource
<1>2. QED
  BY <1>1 DEF ReadLength

\* What a step does to the steps that are taken.
LEMMA StepKinds ==
    ASSUME NEW d \in DOMAIN asked
    PROVE  /\ Identify(d) => Advance(d) /\ Due(d, "identify")
           /\ LoadSource(d) => Advance(d) /\ Due(d, "load")
           /\ VerifySource(d) => Advance(d) /\ Due(d, "verify")
           /\ CheckDirectory(d) => Advance(d) /\ Due(d, "directory")
           /\ OpenPublication(d) => Advance(d) /\ Due(d, "open")
           /\ RetireReport(d) => Advance(d) /\ Due(d, "retire")
           /\ SaveOutput(d) => Advance(d) /\ Due(d, "save")
           /\ DigestOutput(d) => Advance(d) /\ Due(d, "digest")
           /\ Safety(d) => Advance(d) /\ Due(d, "safety")
           /\ WriteReport(d) => Advance(d) /\ Due(d, "report")
           /\ Reserve(d) => Skip(d) \/ (Advance(d) /\ Due(d, "reserve"))
  BY DEF Identify, LoadSource, VerifySource, CheckDirectory, OpenPublication, Reserve, RetireReport,
         SaveOutput, DigestOutput, Safety, WriteReport, Advance, Due, Taking, Skip

\* How far a run is after its step, and after the two of Reserve() that find no report.
LEMMA AdvanceFacts ==
    ASSUME Programs, Types, NEW d \in DOMAIN asked, NEW e \in DOMAIN asked
    PROVE  /\ Advance(d) => passed'[e] = IF e = d THEN passed[d] + 1 ELSE passed[e]
           /\ Skip(d) => passed'[e] = IF e = d THEN passed[d] + 2 ELSE passed[e]
           /\ Advance(d) \/ Skip(d) => /\ asked' = asked /\ program' = program /\ ending' = ending
                                       /\ ending[d] = "run" /\ passed[d] < Len(program[d])
                                       /\ ReadLength(e)' = ReadLength(e)
<1>1. passed \in [Drawers -> Nat] /\ d \in Drawers /\ e \in Drawers
  BY DEF Programs, Types
<1>2. Advance(d) \/ Skip(d) => /\ asked' = asked /\ program' = program /\ ending' = ending
                               /\ ending[d] = "run" /\ passed[d] < Len(program[d])
  BY DEF Advance, Skip, Reserve, Due
<1>3. Skip(d) => passed' = [passed EXCEPT ![d] = @ + 2]
  BY DEF Skip, Reserve
<1>4. Advance(d) => passed' = [passed EXCEPT ![d] = @ + 1]
  BY DEF Advance
<1>5. asked' = asked /\ program' = program => ReadLength(e)' = ReadLength(e)
  BY DEF ReadLength
<1>6. QED
  BY <1>1, <1>2, <1>3, <1>4, <1>5

\* The steps that are taken after a step.
LEMMA TookSteps ==
    ASSUME Programs, Types, NEW d \in DOMAIN asked, NEW e \in DOMAIN asked
    PROVE  /\ Advance(d) => \A s : (Took(e, s)' <=> Took(e, s) \/ (e = d /\ s = Now(d)))
           /\ Skip(d) => \A s : (Took(e, s)' <=> Took(e, s) \/ (e = d /\ s \in {<<"reserve", "run">>, <<"retire", "run">>}))
<1>1. passed[e] \in Nat
  BY RunFacts
<1>2. ASSUME Advance(d), NEW s
      PROVE  Took(e, s)' <=> Took(e, s) \/ (e = d /\ s = Now(d))
  <2>1. program' = program /\ passed'[e] = IF e = d THEN passed[d] + 1 ELSE passed[e]
    BY <1>2, AdvanceFacts
  <2>2. CASE e = d
    <3>1. Took(e, s)' <=> \E i \in 1..passed[e] + 1 : program[e][i] = s
      BY <2>1, <2>2 DEF Took
    <3>2. \A i : i \in 1..passed[e] + 1 <=> i \in 1..passed[e] \/ i = passed[e] + 1
      BY <1>1
    <3>3. QED
      BY <2>2, <3>1, <3>2 DEF Took, Now
  <2>3. CASE e # d
    BY <2>1, <2>3 DEF Took
  <2>4. QED
    BY <2>2, <2>3
<1>3. ASSUME Skip(d), NEW s
      PROVE  Took(e, s)' <=> Took(e, s) \/ (e = d /\ s \in {<<"reserve", "run">>, <<"retire", "run">>})
  <2>1. program' = program /\ passed'[e] = IF e = d THEN passed[d] + 2 ELSE passed[e]
    BY <1>3, AdvanceFacts
  <2>2. CASE e = d
    <3>1. Took(e, s)' <=> \E i \in 1..passed[e] + 2 : program[e][i] = s
      BY <2>1, <2>2 DEF Took
    <3>2. \A i : i \in 1..passed[e] + 2 <=> i \in 1..passed[e] \/ i = passed[e] + 1 \/ i = passed[e] + 2
      BY <1>1
    <3>3. Due(d, "reserve")
      BY <1>3 DEF Skip, Reserve
    <3>4. program[e][passed[e] + 1] = <<"reserve", "run">> /\ program[e][passed[e] + 2] = <<"retire", "run">>
      BY <2>2, <3>3, RunFacts DEF Now
    <3>5. QED
      BY <2>2, <3>1, <3>2, <3>4 DEF Took
  <2>3. CASE e # d
    BY <2>1, <2>3 DEF Took
  <2>4. QED
    BY <2>2, <2>3
<1>4. QED
  BY <1>2, <1>3

\* Only the step that opens its publication takes a run into it.
LEMMA InsideSteps ==
    ASSUME Programs, Types, NEW d \in DOMAIN asked, NEW e \in DOMAIN asked
    PROVE  /\ Advance(d) /\ Inside(e)' => Inside(e) \/ (e = d /\ Due(d, "open"))
           /\ (Advance(d) \/ Skip(d)) /\ e # d => (Inside(e)' <=> Inside(e))
           /\ Skip(d) /\ Inside(e)' => Inside(e)
           /\ Stop(d) /\ Inside(e)' => Inside(e)
<1>1. /\ passed[e] \in Nat /\ ReadLength(e) \in Nat /\ Len(program[e]) \in Nat
      /\ d \in Drawers /\ e \in Drawers /\ ending \in [Drawers -> {"run", "complete", "failed"}]
  BY RunFacts DEF Types
<1>2. ASSUME Advance(d) \/ Skip(d), e # d
      PROVE  Inside(e)' <=> Inside(e)
  <2>1. /\ asked' = asked /\ program' = program /\ ending' = ending /\ ReadLength(e)' = ReadLength(e)
        /\ passed'[e] = passed[e]
    BY <1>2, AdvanceFacts
  <2>2. QED
    BY <2>1 DEF Inside
<1>3. ASSUME Advance(d), e = d, Inside(e)'
      PROVE  Inside(e) \/ Due(d, "open")
  <2>1. /\ asked' = asked /\ program' = program /\ ending' = ending /\ ReadLength(e)' = ReadLength(e)
        /\ passed'[e] = passed[e] + 1 /\ ending[d] = "run" /\ passed[d] < Len(program[d])
    BY <1>3, AdvanceFacts
  <2>2. ~asked[e].preparing /\ ReadLength(e) + 1 <= passed[e] + 1 /\ passed[e] + 1 < Len(program[e])
    BY <1>3, <2>1 DEF Inside
  <2>3. CASE passed[e] = ReadLength(e)
    <3>1. program[e][ReadLength(e) + 1] = <<"open", "run">>
      BY <2>2 DEF Programs, Shape
    <3>2. QED
      BY <1>3, <2>1, <2>3, <3>1 DEF Due, Now
  <2>4. CASE passed[e] # ReadLength(e)
    BY <1>1, <1>3, <2>1, <2>2, <2>4 DEF Inside
  <2>5. QED
    BY <2>3, <2>4
<1>4. ASSUME Skip(d), e = d
      PROVE  Inside(e)
  <2>1. Due(d, "reserve")
    BY <1>4 DEF Skip, Reserve
  <2>2. QED
    BY <1>4, <2>1, RunFacts
<1>5. ASSUME Stop(d), Inside(e)'
      PROVE  Inside(e)
  <2>1. /\ asked' = asked /\ program' = program /\ passed' = passed
        /\ \E s \in {"complete", "failed"} : ending' = [ending EXCEPT ![d] = s]
    BY <1>5 DEF Stop, Finish, FailRun, KillRun
  <2>2. ReadLength(e)' = ReadLength(e)
    BY <2>1 DEF ReadLength
  <2>3. ending'[e] = "run" /\ ~asked[e].preparing /\ ReadLength(e) + 1 <= passed[e] /\ passed[e] < Len(program[e])
    BY <1>5, <2>1, <2>2 DEF Inside
  <2>4. ending[e] = "run"
    BY <1>1, <2>1, <2>3
  <2>5. QED
    BY <2>3, <2>4 DEF Inside
<1>6. QED
  BY <1>2, <1>3, <1>4, <1>5

\* The variables keep their types.
LEMMA TypesNext ==
    ASSUME Programs, Types, RunInv, GenericNext
    PROVE  Types'
<1>0. asked' = asked /\ program' = program
  BY AskedStays
<1>1. ending' \in [Drawers -> {"run", "complete", "failed"}]
  <2>1. ending' = ending \/ \E d \in Drawers, s \in {"complete", "failed"} : ending' = [ending EXCEPT ![d] = s]
    BY DEF GenericNext, Identify, LoadSource, VerifySource, CheckDirectory, OpenPublication,
       Reserve,
           RetireReport, SaveOutput, DigestOutput, Safety, WriteReport, Finish, FailRun, KillRun, ChangeSource, Programs
  <2>2. ending \in [Drawers -> {"run", "complete", "failed"}]
    BY DEF Types
  <2>3. QED
    BY <2>1, <2>2
<1>2. passed' \in [Drawers -> Nat] /\ \A e \in DOMAIN asked : passed'[e] <= Len(program[e])
  <2>1. CASE passed' = passed
    BY <2>1 DEF Types
  <2>2. ASSUME NEW d \in DOMAIN asked, Advance(d) \/ Skip(d)
        PROVE  passed' \in [Drawers -> Nat] /\ \A e \in DOMAIN asked : passed'[e] <= Len(program[e])
    <3>1. \E k \in {1, 2} : passed' = [passed EXCEPT ![d] = @ + k]
      BY <2>2 DEF Advance, Skip, Reserve
    <3>2. passed \in [Drawers -> Nat]
      BY DEF Types
    <3>3. Skip(d) => Due(d, "reserve")
      BY DEF Skip, Reserve
    <3>4. Skip(d) => passed[d] + 2 <= Len(program[d])
      <4>1. ASSUME Skip(d)
            PROVE  passed[d] = ReadLength(d) + 1 /\ ReadLength(d) + 4 < Len(program[d])
        BY <3>3, <4>1, RunFacts
      <4>2. ReadLength(d) \in Nat /\ Len(program[d]) \in Nat
        BY RunFacts
      <4>3. QED
        BY ONLY <4>1, <4>2
    <3>5. Advance(d) => passed[d] < Len(program[d])
      BY DEF Advance
    <3>6. ASSUME NEW e \in DOMAIN asked PROVE passed'[e] <= Len(program[e])
      <4>1. passed[e] \in Nat /\ Len(program[e]) \in Nat /\ passed[e] <= Len(program[e])
        BY RunFacts
      <4>2. passed'[e] = passed[e] \/ (e = d /\ Advance(d) /\ passed'[e] = passed[d] + 1) 
               \/ (e = d /\ Skip(d) /\ passed'[e] = passed[d] + 2)
        BY <2>2, AdvanceFacts
      <4>3. QED
        BY <3>4, <3>5, <4>1, <4>2
    <3>7. passed' \in [Drawers -> Nat]
      <4>1. PICK k \in {1, 2} : passed' = [passed EXCEPT ![d] = @ + k]
        BY <3>1
      <4>2. passed[d] + k \in Nat
        <5>1. passed[d] \in Nat
          BY RunFacts
        <5>2. QED
          BY <5>1
      <4>3. QED
        BY <3>2, <4>1, <4>2
    <3>8. QED
      BY <3>6, <3>7
  <2>3. passed' = passed \/ \E d \in DOMAIN asked : Advance(d) \/ Skip(d)
    BY StepKinds DEF GenericNext, Finish, FailRun, KillRun, ChangeSource
  <2>4. QED
    BY <2>1, <2>2, <2>3
<1>3. source' \in [ReadFiles -> State]
  <2>1. source' = source \/ \E f \in ReadFiles, c \in SourceStates :
             /\ source[f].changes < MaxChanges
             /\ source' = [source EXCEPT ![f] = [content |-> c, changes |-> source[f].changes + 1]]
    BY DEF GenericNext, Identify, LoadSource, VerifySource, CheckDirectory, OpenPublication,
       Reserve,
           RetireReport, SaveOutput, DigestOutput, Safety, WriteReport, Finish, FailRun, KillRun, ChangeSource
  <2>2. source \in [ReadFiles -> State]
    BY DEF Types
  <2>3. ASSUME NEW f \in ReadFiles, NEW c \in SourceStates, source[f].changes < MaxChanges
        PROVE  [content |-> c, changes |-> source[f].changes + 1] \in State
    BY <2>2, <2>3, GenericAssumption DEF State
  <2>4. QED
    BY <2>1, <2>2, <2>3
<1>4. Readings \subseteq {<<o, f>> : o \in {"identify", "load", "verify"}, f \in ReadFiles} \cup {<<"directory", "run">>}
  BY DEF Readings, FileSteps
<1>5. ASSUME NEW d \in DOMAIN asked, NEW op \in {"identify", "load", "verify"}, Due(d, op)
      PROVE  Now(d)[2] \in ReadFiles
  <2>1. passed[d] + 1 \in 1..Len(program[d]) /\ Now(d)[1] = op
    <3>1. passed[d] \in Nat /\ Len(program[d]) \in Nat
      BY RunFacts
    <3>2. passed[d] < Len(program[d]) /\ Now(d)[1] = op
      BY <1>5 DEF Due
    <3>3. QED
      BY <3>1, <3>2
  <2>2. Now(d) \in AllSteps
    <3>1. program[d] \in Seq(AllSteps)
      BY DEF Programs, Shape
    <3>2. QED
      BY ONLY <2>1, <3>1 DEF Now
  <2>3. QED
    BY <2>1, <2>2 DEF AllSteps, Readings, FileSteps, Savings, Marks
<1>6. identity' \in [Drawers -> [ReadFiles -> State]]
  <2>1. identity' = identity \/ \E d \in DOMAIN asked :
            Due(d, "identify") /\ identity' = [identity EXCEPT ![d][Now(d)[2]] = source[Now(d)[2]]]
    BY DEF GenericNext, Identify, LoadSource, VerifySource, CheckDirectory, OpenPublication,
       Reserve,
           RetireReport, SaveOutput, DigestOutput, Safety, WriteReport, Finish, FailRun, KillRun, ChangeSource
  <2>2. source \in [ReadFiles -> State] /\ identity \in [Drawers -> [ReadFiles -> State]]
    BY DEF Types
  <2>3. QED
    BY <1>5, <2>1, <2>2
<1>7. loaded' \in [Drawers -> [ReadFiles -> State]]
  <2>1. loaded' = loaded \/ \E d \in DOMAIN asked :
            Due(d, "load") /\ loaded' = [loaded EXCEPT ![d][Now(d)[2]] = source[Now(d)[2]]]
    BY DEF GenericNext, Identify, LoadSource, VerifySource, CheckDirectory, OpenPublication,
       Reserve,
           RetireReport, SaveOutput, DigestOutput, Safety, WriteReport, Finish, FailRun, KillRun, ChangeSource
  <2>2. source \in [ReadFiles -> State] /\ loaded \in [Drawers -> [ReadFiles -> State]]
    BY DEF Types
  <2>3. QED
    BY <1>5, <2>1, <2>2
<1>8. place' \in [OutputNames -> Drawers \cup {Nothing, Other}]
  <2>1. place' = place \/ \E d \in DOMAIN asked : place' = [place EXCEPT ![Now(d)[2]] = d]
    BY DEF GenericNext, Identify, LoadSource, VerifySource, CheckDirectory, OpenPublication,
       Reserve,
           RetireReport, SaveOutput, DigestOutput, Safety, WriteReport, Finish, FailRun, KillRun, ChangeSource
  <2>2. place \in [OutputNames -> Drawers \cup {Nothing, Other}] /\ DOMAIN asked \subseteq Drawers
    BY DEF Types, Programs
  <2>3. QED
    BY <2>1, <2>2
<1>9. \A d \in Drawers : ToSet(listed[d]) \subseteq Entry
  <2>1. \A d \in Drawers : listed[d] \in Seq(Entry)
    BY DEF Types
  <2>2. QED
    BY ONLY <2>1 DEF ToSet
<1>10. manifest' \in Report
  <2>1. \/ manifest' = manifest \/ manifest' = NoManifest
        \/ \E d \in DOMAIN asked : manifest' = [by |-> d, lists |-> ToSet(listed[d])]
    BY DEF GenericNext, Identify, LoadSource, VerifySource, CheckDirectory, OpenPublication,
       Reserve,
           RetireReport, SaveOutput, DigestOutput, Safety, WriteReport, Finish, FailRun, KillRun, ChangeSource
  <2>2. manifest \in Report /\ DOMAIN asked \subseteq Drawers
    BY DEF Types, Programs
  <2>3. NoManifest \in Report
    BY DEF Report, NoManifest
  <2>4. \A d \in Drawers : [by |-> d, lists |-> ToSet(listed[d])] \in Report
    BY <1>9 DEF Report
  <2>5. QED
    BY <2>1, <2>2, <2>3, <2>4
<1>11. aside' \in [Drawers -> Report]
  <2>1. \/ aside' = aside
        \/ \E d \in DOMAIN asked, r \in {manifest, EmptyManifest, NoManifest} : aside' = [aside EXCEPT ![d] = r]
    BY DEF GenericNext, Identify, LoadSource, VerifySource, CheckDirectory, OpenPublication,
       Reserve,
           RetireReport, SaveOutput, DigestOutput, Safety, WriteReport, Finish, FailRun, KillRun, ChangeSource
  <2>2. manifest \in Report /\ NoManifest \in Report /\ EmptyManifest \in Report
    BY DEF Types, Report, NoManifest, EmptyManifest
  <2>3. aside \in [Drawers -> Report]
    BY DEF Types
  <2>4. QED
    BY <2>1, <2>2, <2>3
<1>12. listed' \in [Drawers -> Seq(Entry)]
  <2>1. \/ listed' = listed
        \/ \E d \in DOMAIN asked : /\ Due(d, "digest")
                /\ listed' = [listed EXCEPT ![d] = Append(@, [name |-> Now(d)[2], of |-> place[Now(d)[2]]])]
    BY DEF GenericNext, Identify, LoadSource, VerifySource, CheckDirectory, OpenPublication,
       Reserve,
           RetireReport, SaveOutput, DigestOutput, Safety, WriteReport, Finish, FailRun, KillRun, ChangeSource
  <2>2. \A d \in DOMAIN asked : Due(d, "digest") => [name |-> Now(d)[2], of |-> place[Now(d)[2]]] \in Entry
    BY RunFacts DEF RunInv, Entry
  <2>3. listed \in [Drawers -> Seq(Entry)]
    BY DEF Types
  <2>4. QED
    <3>1. listed' = listed \/ \E d \in DOMAIN asked, x \in Entry : listed' = [listed EXCEPT ![d] = Append(@, x)]
      BY <2>1, <2>2
    <3>2. ASSUME NEW d \in DOMAIN asked, NEW x \in Entry, listed' = [listed EXCEPT ![d] = Append(@, x)]
          PROVE  listed' \in [Drawers -> Seq(Entry)]
      <4>1. d \in Drawers
        BY DEF Programs
      <4>2. listed[d] \in Seq(Entry)
        BY <2>3, <4>1
      <4>3. Append(listed[d], x) \in Seq(Entry)
        BY ONLY <4>2, x \in Entry
      <4>4. QED
        BY <2>3, <3>2, <4>3
    <3>3. QED
      BY <2>3, <3>1, <3>2
<1>13. met' \in [Drawers -> SUBSET DOMAIN asked]
  <2>1. \/ met' = met
        \/ \E d \in DOMAIN asked, others \in SUBSET DOMAIN asked :
              met' = [e \in Drawers |-> met[e] \cup IF e = d THEN others ELSE IF e \in others THEN {d} ELSE {}]
    <3>1. ASSUME NEW d \in DOMAIN asked, OpenPublication(d)
          PROVE  \E others \in SUBSET DOMAIN asked :
              met' = [e \in Drawers |-> met[e] \cup IF e = d THEN others ELSE IF e \in others THEN {d} ELSE {}]
      <4>1. PICK others : others = {e \in DOMAIN asked \ {d} : IsPublishing(e)}
        OBVIOUS
      <4>2. met' = [e \in Drawers |-> met[e] \cup IF e = d THEN others ELSE IF e \in others THEN {d} ELSE {}]
        BY <3>1, <4>1 DEF OpenPublication
      <4>3. others \in SUBSET DOMAIN asked
        BY <4>1
      <4>4. QED
        BY <4>2, <4>3
    <3>2. QED
      BY <3>1 DEF GenericNext, Identify, LoadSource, VerifySource, CheckDirectory, Reserve,
           RetireReport, SaveOutput, DigestOutput, Safety, WriteReport, Finish, FailRun, KillRun, ChangeSource
  <2>2. met \in [Drawers -> SUBSET DOMAIN asked]
    BY DEF Types
  <2>3. QED
    BY <2>1, <2>2
<1>14. QED
  BY <1>0, <1>1, <1>2, <1>3, <1>6, <1>7, <1>8, <1>10, <1>11, <1>12, <1>13 DEF Types

\* A run that completed is at its end, has refused nothing, and something is where it saved.
LEMMA RunNext ==
    ASSUME Programs, Types, RunInv, GenericNext
    PROVE  RunInv'
<1>0. asked' = asked /\ program' = program
  BY AskedStays
<1> SUFFICES ASSUME NEW e \in DOMAIN asked
             PROVE  /\ ending'[e] = "complete" => passed'[e] = Len(program[e])
                    /\ \A n \in Fields : ~Took(e, <<"refuse", n>>)'
                    /\ \A n \in OutputNames : Took(e, <<"save", n>>)' => place'[n] \in Drawers
  BY <1>0 DEF RunInv
<1>1. e \in Drawers /\ ending \in [Drawers -> {"run", "complete", "failed"}]
      /\ place \in [OutputNames -> Drawers \cup {Nothing, Other}] /\ DOMAIN asked \subseteq Drawers
  BY DEF Programs, Types
<1>2. /\ ending[e] = "complete" => passed[e] = Len(program[e])
      /\ \A n \in Fields : ~Took(e, <<"refuse", n>>)
      /\ \A n \in OutputNames : Took(e, <<"save", n>>) => place[n] \in Drawers
  BY DEF RunInv
<1>3. ASSUME NEW d \in DOMAIN asked, Advance(d), Now(d)[1] # "refuse",
             (Now(d)[1] # "save" /\ place' = place) \/ SaveOutput(d)
      PROVE  /\ ending'[e] = "complete" => passed'[e] = Len(program[e])
             /\ \A n \in Fields : ~Took(e, <<"refuse", n>>)'
             /\ \A n \in OutputNames : Took(e, <<"save", n>>)' => place'[n] \in Drawers
  <2>1. /\ passed'[e] = IF e = d THEN passed[d] + 1 ELSE passed[e]
        /\ ending' = ending /\ ending[d] = "run"
    BY <1>3, AdvanceFacts
  <2>2. \A s : (Took(e, s)' <=> Took(e, s) \/ (e = d /\ s = Now(d)))
    BY <1>3, TookSteps
  <2>3. ASSUME NEW n \in Fields PROVE ~Took(e, <<"refuse", n>>)'
    <3>1. Now(d) # <<"refuse", n>>
      BY <1>3
    <3>2. ~Took(e, <<"refuse", n>>)
      BY <1>2
    <3>3. QED
      BY <2>2, <3>1, <3>2
  <2>4. CASE Now(d)[1] # "save" /\ place' = place
    <3>1. \A n \in OutputNames : Took(e, <<"save", n>>)' => Took(e, <<"save", n>>)
      BY <2>2, <2>4
    <3>2. QED
      BY <1>2, <2>1, <2>3, <2>4, <3>1
  <2>5. CASE SaveOutput(d)
    <3>1. place' = [place EXCEPT ![Now(d)[2]] = d] /\ d \in Drawers
      BY <1>1, <2>5 DEF SaveOutput
    <3>2. ASSUME NEW n \in OutputNames, Took(e, <<"save", n>>)'
          PROVE  place'[n] \in Drawers
      <4>1. Took(e, <<"save", n>>) \/ Now(d) = <<"save", n>>
        BY <2>2, <3>2
      <4>2. QED
        BY <1>1, <1>2, <3>1, <4>1
    <3>3. QED
      BY <1>2, <2>1, <2>3, <3>2
  <2>6. QED
    BY <1>3, <2>4, <2>5
<1>4. ASSUME NEW d \in DOMAIN asked, Skip(d)
      PROVE  /\ ending'[e] = "complete" => passed'[e] = Len(program[e])
             /\ \A n \in Fields : ~Took(e, <<"refuse", n>>)'
             /\ \A n \in OutputNames : Took(e, <<"save", n>>)' => place'[n] \in Drawers
  <2>1. /\ passed'[e] = IF e = d THEN passed[d] + 2 ELSE passed[e]
        /\ ending' = ending /\ ending[d] = "run"
    BY <1>4, AdvanceFacts
  <2>2. \A s : (Took(e, s)' <=> Took(e, s) \/ (e = d /\ s \in {<<"reserve", "run">>, <<"retire", "run">>}))
    BY <1>4, TookSteps
  <2>3. /\ \A n : <<"refuse", n>> \notin {<<"reserve", "run">>, <<"retire", "run">>}
        /\ \A n : <<"save", n>> \notin {<<"reserve", "run">>, <<"retire", "run">>}
    OBVIOUS
  <2>4. place' = place
    BY <1>4 DEF Skip, Reserve
  <2>5. QED
    BY <1>2, <2>1, <2>2, <2>3, <2>4
<1>5. ASSUME passed' = passed, place' = place,
             ending' = ending \/ \E d \in DOMAIN asked : \/ ending' = [ending EXCEPT ![d] = "failed"]
                                                         \/ Finish(d)
      PROVE  /\ ending'[e] = "complete" => passed'[e] = Len(program[e])
             /\ \A n \in Fields : ~Took(e, <<"refuse", n>>)'
             /\ \A n \in OutputNames : Took(e, <<"save", n>>)' => place'[n] \in Drawers
  <2>1. \A s : Took(e, s)' <=> Took(e, s)
    BY <1>0, <1>5 DEF Took
  <2>2. ending'[e] = "complete" => ending[e] = "complete" \/ passed[e] = Len(program[e])
    BY <1>1, <1>5 DEF Finish
  <2>3. QED
    BY <1>2, <1>5, <2>1, <2>2
<1>6. ASSUME NEW d \in DOMAIN asked,
             \/ Identify(d) \/ LoadSource(d) \/ VerifySource(d) \/ CheckDirectory(d) \/ OpenPublication(d)
             \/ RetireReport(d) \/ SaveOutput(d) \/ DigestOutput(d) \/ Safety(d) \/ WriteReport(d)
             \/ (Reserve(d) /\ ~Skip(d))
      PROVE  /\ Advance(d) /\ Now(d)[1] # "refuse"
             /\ (Now(d)[1] # "save" /\ place' = place) \/ SaveOutput(d)
  BY <1>6, StepKinds DEF Identify, LoadSource, VerifySource, CheckDirectory, OpenPublication,
     Reserve,
           RetireReport, SaveOutput, DigestOutput, Safety, WriteReport, Due
<1>7. \/ passed' = passed /\ place' = place /\ ending' = ending
      \/ \E d \in DOMAIN asked :
            \/ Identify(d) \/ LoadSource(d) \/ VerifySource(d) \/ CheckDirectory(d) \/ OpenPublication(d)
            \/ RetireReport(d) \/ SaveOutput(d) \/ DigestOutput(d) \/ Safety(d) \/ WriteReport(d)
            \/ (Reserve(d) /\ ~Skip(d)) \/ Skip(d)
            \/ (passed' = passed /\ place' = place /\ (Finish(d) \/ ending' = [ending EXCEPT ![d] = "failed"]))
  BY DEF GenericNext, Finish, FailRun, KillRun, ChangeSource
<1>8. QED
  BY <1>3, <1>4, <1>5, <1>6, <1>7

\* No report is put aside before there is a name for it, and none in place of another.
LEMMA AsideNext ==
    ASSUME Programs, Types, AsideInv, GenericNext
    PROVE  AsideInv'
<1>0. asked' = asked /\ program' = program /\ \A d : ReadLength(d)' = ReadLength(d)
  BY AskedStays
<1> SUFFICES ASSUME NEW e \in DOMAIN asked
             PROVE  /\ ~asked[e].overwrite \/ passed'[e] <= ReadLength(e) + 1 => aside'[e] = NoManifest
                    /\ asked[e].overwrite /\ ending'[e] = "run" /\ passed'[e] = ReadLength(e) + 2 =>
                          aside'[e] = EmptyManifest
  BY <1>0 DEF AsideInv
<1>1. /\ e \in Drawers /\ ending \in [Drawers -> {"run", "complete", "failed"}] /\ aside \in [Drawers -> Report]
      /\ DOMAIN asked \subseteq Drawers
  BY DEF Programs, Types
<1>2. /\ ~asked[e].overwrite \/ passed[e] <= ReadLength(e) + 1 => aside[e] = NoManifest
      /\ asked[e].overwrite /\ ending[e] = "run" /\ passed[e] = ReadLength(e) + 2 => aside[e] = EmptyManifest
  BY DEF AsideInv
<1>3. passed[e] \in Nat /\ ReadLength(e) \in Nat
  BY RunFacts
<1>4. ASSUME passed'[e] = passed[e], aside'[e] = aside[e], ending'[e] = "run" => ending[e] = "run"
      PROVE  /\ ~asked[e].overwrite \/ passed'[e] <= ReadLength(e) + 1 => aside'[e] = NoManifest
             /\ asked[e].overwrite /\ ending'[e] = "run" /\ passed'[e] = ReadLength(e) + 2 =>
                   aside'[e] = EmptyManifest
  BY <1>2, <1>4
<1>5. ASSUME NEW d \in DOMAIN asked, Advance(d), ~Due(d, "reserve"), ~Due(d, "retire"), aside' = aside
      PROVE  /\ ~asked[e].overwrite \/ passed'[e] <= ReadLength(e) + 1 => aside'[e] = NoManifest
             /\ asked[e].overwrite /\ ending'[e] = "run" /\ passed'[e] = ReadLength(e) + 2 =>
                   aside'[e] = EmptyManifest
  <2>1. /\ passed'[e] = IF e = d THEN passed[d] + 1 ELSE passed[e]
        /\ ending' = ending /\ ending[d] = "run" /\ passed[d] < Len(program[d])
    BY <1>5, AdvanceFacts
  <2>2. CASE e # d
    BY <1>4, <1>5, <2>1, <2>2
  <2>3. CASE e = d
    <3>1. passed[e] = ReadLength(e) + 1 => ~asked[e].overwrite
      <4>1. ASSUME passed[e] = ReadLength(e) + 1, asked[e].overwrite PROVE FALSE
        <5>1. ~asked[e].preparing
          BY <1>3, <2>1, <2>3, <4>1 DEF Programs, Shape
        <5>2. program[e][ReadLength(e) + 2] = <<"reserve", "run">>
          BY <4>1, <5>1 DEF Programs, Shape
        <5>3. passed[e] + 1 = ReadLength(e) + 2
          BY <1>3, <4>1
        <5>4. QED
          BY <1>5, <2>1, <2>3, <5>2, <5>3 DEF Due, Now
      <4>2. QED
        BY <4>1
    <3>2. QED
      BY <1>2, <1>3, <1>5, <2>1, <2>3, <3>1
  <2>4. QED
    BY <2>2, <2>3
<1>6. ASSUME NEW d \in DOMAIN asked, Reserve(d), ~Skip(d)
      PROVE  /\ ~asked[e].overwrite \/ passed'[e] <= ReadLength(e) + 1 => aside'[e] = NoManifest
             /\ asked[e].overwrite /\ ending'[e] = "run" /\ passed'[e] = ReadLength(e) + 2 =>
                   aside'[e] = EmptyManifest
  <2>1. Advance(d) /\ Due(d, "reserve") /\ aside' = [aside EXCEPT ![d] = EmptyManifest]
    BY <1>6, StepKinds DEF Reserve, Skip
  <2>2. passed'[e] = IF e = d THEN passed[d] + 1 ELSE passed[e]
    BY <2>1, AdvanceFacts
  <2>3. ending' = ending
    BY <2>1 DEF Advance
  <2>4. CASE e # d
    BY <1>1, <1>4, <2>1, <2>2, <2>3, <2>4
  <2>5. CASE e = d
    <3>1. asked[e].overwrite /\ passed[e] = ReadLength(e) + 1
      BY <2>1, <2>5, RunFacts
    <3>2. aside'[e] = EmptyManifest
      BY <1>1, <2>1, <2>5
    <3>3. QED
      BY <1>3, <2>2, <2>5, <3>1, <3>2
  <2>6. QED
    BY <2>4, <2>5
<1>7. ASSUME NEW d \in DOMAIN asked, Skip(d) \/ RetireReport(d)
      PROVE  /\ ~asked[e].overwrite \/ passed'[e] <= ReadLength(e) + 1 => aside'[e] = NoManifest
             /\ asked[e].overwrite /\ ending'[e] = "run" /\ passed'[e] = ReadLength(e) + 2 =>
                   aside'[e] = EmptyManifest
  <2>1. aside' = aside \/ aside' = [aside EXCEPT ![d] = manifest]
    BY <1>7 DEF Skip, Reserve, RetireReport
  <2>2. passed'[e] = IF e = d THEN (IF Skip(d) THEN passed[d] + 2 ELSE passed[d] + 1) ELSE passed[e]
    BY <1>7, StepKinds, AdvanceFacts
  <2>3. ending' = ending
    BY <1>7 DEF Skip, Reserve, RetireReport
  <2>4. CASE e # d
    BY <1>1, <1>4, <2>1, <2>2, <2>3, <2>4
  <2>5. CASE e = d
    <3>1. Skip(d) => Due(d, "reserve")
      BY DEF Skip, Reserve
    <3>2. ~Skip(d) => Due(d, "retire")
      BY <1>7, StepKinds
    <3>3. Skip(d) => asked[e].overwrite /\ passed[e] = ReadLength(e) + 1
      BY <2>5, <3>1, RunFacts
    <3>4. ~Skip(d) => asked[e].overwrite /\ passed[e] = ReadLength(e) + 2
      BY <2>5, <3>2, RunFacts
    <3>5. QED
      BY <1>3, <2>2, <2>5, <3>3, <3>4
  <2>6. QED
    BY <2>4, <2>5
<1>8. ASSUME NEW d \in DOMAIN asked, Stop(d)
      PROVE  /\ ~asked[e].overwrite \/ passed'[e] <= ReadLength(e) + 1 => aside'[e] = NoManifest
             /\ asked[e].overwrite /\ ending'[e] = "run" /\ passed'[e] = ReadLength(e) + 2 =>
                   aside'[e] = EmptyManifest
  <2>1. /\ passed' = passed /\ \E s \in {"complete", "failed"} : ending' = [ending EXCEPT ![d] = s]
        /\ aside' = aside \/ (Due(d, "retire") /\ aside' = [aside EXCEPT ![d] = NoManifest])
    BY <1>8 DEF Stop, Finish, FailRun, KillRun
  <2>2. CASE aside'[e] = aside[e]
    BY <1>1, <1>4, <2>1, <2>2
  <2>3. CASE aside'[e] # aside[e]
    <3>1. e = d /\ Due(d, "retire") /\ aside'[e] = NoManifest
      BY <1>1, <2>1, <2>3
    <3>2. ending'[e] # "run"
      BY <1>1, <2>1, <3>1
    <3>3. QED
      BY <3>1, <3>2
  <2>4. QED
    BY <2>2, <2>3
<1>9. ASSUME NEW d \in DOMAIN asked,
             \/ Identify(d) \/ LoadSource(d) \/ VerifySource(d) \/ CheckDirectory(d) \/ OpenPublication(d)
             \/ SaveOutput(d) \/ DigestOutput(d) \/ Safety(d) \/ WriteReport(d)
      PROVE  Advance(d) /\ ~Due(d, "reserve") /\ ~Due(d, "retire") /\ aside' = aside
  BY <1>9, StepKinds DEF Identify, LoadSource, VerifySource, CheckDirectory, OpenPublication,
           SaveOutput, DigestOutput, Safety, WriteReport, Due
<1>10. \/ passed' = passed /\ aside' = aside /\ ending' = ending
       \/ \E d \in DOMAIN asked :
            \/ Identify(d) \/ LoadSource(d) \/ VerifySource(d) \/ CheckDirectory(d) \/ OpenPublication(d)
            \/ SaveOutput(d) \/ DigestOutput(d) \/ Safety(d) \/ WriteReport(d)
            \/ (Reserve(d) /\ ~Skip(d)) \/ Skip(d) \/ RetireReport(d) \/ Stop(d)
  BY DEF GenericNext, ChangeSource, Stop
<1>11. QED
  BY <1>4, <1>5, <1>6, <1>7, <1>8, <1>9, <1>10

\* A run has listed what it has digested, each once.
LEMMA ListNext ==
    ASSUME Programs, Types, ListInv, GenericNext
    PROVE  ListInv'
<1>0. asked' = asked /\ program' = program
  BY AskedStays
<1> SUFFICES ASSUME NEW e \in DOMAIN asked
             PROVE  /\ {o.name : o \in ToSet(listed'[e])} = {n \in OutputNames : Took(e, <<"digest", n>>)'}
                    /\ \A i, k \in 1..Len(listed'[e]) : listed'[e][i].name = listed'[e][k].name => i = k
  BY <1>0 DEF ListInv
<1>1. e \in Drawers /\ listed \in [Drawers -> Seq(Entry)] /\ DOMAIN asked \subseteq Drawers
  BY DEF Programs, Types
<1>2. /\ {o.name : o \in ToSet(listed[e])} = {n \in OutputNames : Took(e, <<"digest", n>>)}
      /\ \A i, k \in 1..Len(listed[e]) : listed[e][i].name = listed[e][k].name => i = k
  BY DEF ListInv
<1>3. ASSUME listed'[e] = listed[e], \A n \in OutputNames : Took(e, <<"digest", n>>)' <=> Took(e, <<"digest", n>>)
      PROVE  /\ {o.name : o \in ToSet(listed'[e])} = {n \in OutputNames : Took(e, <<"digest", n>>)'}
             /\ \A i, k \in 1..Len(listed'[e]) : listed'[e][i].name = listed'[e][k].name => i = k
  BY <1>2, <1>3
<1>4. ASSUME NEW d \in DOMAIN asked, DigestOutput(d)
      PROVE  /\ {o.name : o \in ToSet(listed'[e])} = {n \in OutputNames : Took(e, <<"digest", n>>)'}
             /\ \A i, k \in 1..Len(listed'[e]) : listed'[e][i].name = listed'[e][k].name => i = k
  <2>1. Advance(d) /\ Due(d, "digest")
    BY <1>4, StepKinds
  <2>2. \A s : (Took(e, s)' <=> Took(e, s) \/ (e = d /\ s = Now(d)))
    BY <2>1, TookSteps
  <2>3. PICK m, x : m = Now(d)[2] /\ x = [name |-> m, of |-> place[m]]
    OBVIOUS
  <2>4. listed' = [listed EXCEPT ![d] = Append(@, x)]
    BY <1>4, <2>3 DEF DigestOutput
  <2>5. CASE e # d
    BY <1>1, <1>3, <2>2, <2>4, <2>5
  <2>6. CASE e = d
    <3>1. m \in OutputNames /\ Now(d) = <<"digest", m>> /\ ~Took(d, Now(d))
      BY <2>1, <2>3, RunFacts
    <3>2. PICK l : l = listed[e]
      OBVIOUS
    <3>3. l \in Seq(Entry) /\ listed'[e] = Append(l, x)
      BY <1>1, <2>4, <2>6, <3>2
    <3>4. PICK c \in Nat : c = Len(l)
      <4>1. Len(l) \in Nat
        BY ONLY <3>3
      <4>2. QED
        BY <4>1
    <3>5. PICK v : v = Append(l, x)
      OBVIOUS
    <3>6. Len(v) = c + 1 /\ (\A i \in 1..c : v[i] = l[i]) /\ v[c + 1] = x
          /\ DOMAIN v = 1..c + 1 /\ DOMAIN l = 1..c
      BY ONLY <3>3, <3>4, <3>5
    <3>7. {o.name : o \in ToSet(v)} = {o.name : o \in ToSet(l)} \cup {m}
      <4>1. ToSet(v) = ToSet(l) \cup {x}
        <5>1. \A i : i \in 1..c + 1 <=> i \in 1..c \/ i = c + 1
          BY ONLY c \in Nat
        <5>2. QED
          BY ONLY <3>6, <5>1 DEF ToSet
      <4>2. x.name = m
        BY <2>3
      <4>3. QED
        BY ONLY <4>1, <4>2
    <3>8. m \notin {o.name : o \in ToSet(l)}
      BY <1>2, <2>6, <3>1, <3>2
    <3>9. ASSUME NEW i \in 1..c + 1, NEW k \in 1..c + 1, v[i].name = v[k].name
          PROVE  i = k
      <4>1. \A j \in 1..c : l[j].name \in {o.name : o \in ToSet(l)}
        BY <3>6 DEF ToSet
      <4>2. x.name = m
        BY <2>3
      <4>3. CASE i = c + 1 /\ k = c + 1
        BY <4>3
      <4>4. CASE i \in 1..c /\ k \in 1..c
        BY <1>2, <3>2, <3>4, <3>6, <3>9, <4>4
      <4>5. CASE i \in 1..c /\ k = c + 1
        BY <3>6, <3>8, <3>9, <4>1, <4>2, <4>5
      <4>6. CASE i = c + 1 /\ k \in 1..c
        BY <3>6, <3>8, <3>9, <4>1, <4>2, <4>6
      <4>7. QED
        BY <4>3, <4>4, <4>5, <4>6
    <3>10. \A n : <<"digest", n>> = <<"digest", m>> <=> n = m
      OBVIOUS
    <3>11. {n \in OutputNames : Took(e, <<"digest", n>>)'} = {n \in OutputNames : Took(e, <<"digest", n>>)} \cup {m}
      BY <2>2, <2>6, <3>1, <3>10
    <3>12. listed'[e] = v
      BY <3>3, <3>5
    <3>13. {o.name : o \in ToSet(listed'[e])} = {n \in OutputNames : Took(e, <<"digest", n>>)'}
      BY <1>2, <3>2, <3>7, <3>11, <3>12
    <3>14. \A i, k \in 1..Len(listed'[e]) : listed'[e][i].name = listed'[e][k].name => i = k
      BY <3>6, <3>9, <3>12
    <3>15. QED
      BY <3>13, <3>14
  <2>7. QED
    BY <2>5, <2>6
<1>5. ASSUME NEW d \in DOMAIN asked, Skip(d) \/ (Advance(d) /\ Now(d)[1] # "digest"), listed' = listed
      PROVE  \A n \in OutputNames : Took(e, <<"digest", n>>)' <=> Took(e, <<"digest", n>>)
  <2>1. ASSUME NEW n \in OutputNames
        PROVE  Took(e, <<"digest", n>>)' <=> Took(e, <<"digest", n>>)
    <3>1. CASE Advance(d) /\ Now(d)[1] # "digest"
      <4>1. Now(d) # <<"digest", n>>
        BY <3>1
      <4>2. QED
        BY <3>1, <4>1, TookSteps
    <3>2. CASE Skip(d)
      <4>1. <<"digest", n>> \notin {<<"reserve", "run">>, <<"retire", "run">>}
        OBVIOUS
      <4>2. QED
        BY <3>2, <4>1, TookSteps
    <3>3. QED
      BY <1>5, <3>1, <3>2
  <2>2. QED
    BY <2>1
<1>6. ASSUME passed' = passed
      PROVE  \A n \in OutputNames : Took(e, <<"digest", n>>)' <=> Took(e, <<"digest", n>>)
  BY <1>0, <1>6 DEF Took
<1>7. ASSUME NEW d \in DOMAIN asked,
             \/ Identify(d) \/ LoadSource(d) \/ VerifySource(d) \/ CheckDirectory(d) \/ OpenPublication(d)
             \/ RetireReport(d) \/ SaveOutput(d) \/ Safety(d) \/ WriteReport(d) \/ Reserve(d)
      PROVE  (Skip(d) \/ (Advance(d) /\ Now(d)[1] # "digest")) /\ listed' = listed
  BY <1>7, StepKinds DEF Identify, LoadSource, VerifySource, CheckDirectory, OpenPublication,
     Reserve,
           RetireReport, SaveOutput, Safety, WriteReport, Due
<1>8. \/ passed' = passed /\ listed' = listed
      \/ \E d \in DOMAIN asked :
            \/ Identify(d) \/ LoadSource(d) \/ VerifySource(d) \/ CheckDirectory(d) \/ OpenPublication(d)
            \/ RetireReport(d) \/ SaveOutput(d) \/ Safety(d) \/ WriteReport(d) \/ Reserve(d) \/ DigestOutput(d)
  BY DEF GenericNext, Finish, FailRun, KillRun, ChangeSource
<1>9. QED
  BY <1>3, <1>4, <1>5, <1>6, <1>7, <1>8

\* A run has saved what it has listed, and lists nothing before it publishes.
LEMMA ListedFacts ==
    ASSUME Programs, Types, ListInv, NEW d \in DOMAIN asked
    PROVE  /\ \A o \in ToSet(listed[d]) : o.name \in OutputNames /\ Took(d, <<"save", o.name>>)
           /\ passed[d] <= ReadLength(d) + 1 =>
                 listed[d] = <<>> /\ \A n \in OutputNames : ~Took(d, <<"save", n>>)
<1>1. PICK P, r, p : P = program[d] /\ r = ReadLength(d) /\ p = passed[d]
  OBVIOUS
<1>2. Len(P) \in Nat /\ r \in Nat /\ p \in Nat /\ p <= Len(P) /\ r <= Len(P)
  BY <1>1, RunFacts
<1>3. /\ \A i \in 1..Len(P) : P[i][1] = "digest" => i - 1 \in 1..Len(P) /\ P[i - 1] = <<"save", P[i][2]>>
      /\ \A i \in 1..Len(P) : P[i] \in Readings <=> i <= r
      /\ r < Len(P) => P[r + 1] = <<"open", "run">>
  <2>1. Shape(P, asked[d], r)
    BY <1>1 DEF Programs
  <2>2. QED
    BY ONLY <1>2, <2>1 DEF Shape
<1>4. \A o \in ToSet(listed[d]) : o.name \in OutputNames /\ Took(d, <<"digest", o.name>>)
  BY DEF ListInv
<1>5. ASSUME NEW n \in OutputNames, Took(d, <<"digest", n>>)
      PROVE  Took(d, <<"save", n>>)
  <2>1. PICK i \in 1..p : P[i] = <<"digest", n>>
    BY <1>1, <1>5 DEF Took
  <2>2. i \in 1..Len(P) /\ P[i][1] = "digest" /\ P[i][2] = n
    BY <1>2, <2>1
  <2>3. i - 1 \in 1..p /\ P[i - 1] = <<"save", n>>
    BY <1>2, <1>3, <2>2
  <2>4. QED
    BY <1>1, <2>3 DEF Took
<1>6. ASSUME p <= r + 1
      PROVE  listed[d] = <<>> /\ \A n \in OutputNames : ~Took(d, <<"save", n>>)
  <2>1. ASSUME NEW n \in OutputNames, Took(d, <<"save", n>>) PROVE FALSE
    <3>1. PICK i \in 1..p : P[i] = <<"save", n>>
      BY <1>1, <2>1 DEF Took
    <3>2. P[i] \notin Readings
      BY <3>1 DEF Readings, FileSteps
    <3>3. i = r + 1 /\ r < Len(P)
      BY <1>2, <1>3, <1>6, <3>2
    <3>4. P[i][1] = "save" /\ P[i][1] = "open"
      BY <1>3, <3>1, <3>3
    <3>5. QED
      BY <3>4
  <2>2. listed[d] \in Seq(Entry)
    BY DEF Programs, Types
  <2>3. \A i \in 1..Len(listed[d]) : listed[d][i] \in ToSet(listed[d])
    BY ONLY <2>2 DEF ToSet
  <2>4. Len(listed[d]) = 0
    <3>1. ASSUME Len(listed[d]) # 0 PROVE FALSE
      <4>1. 1 \in 1..Len(listed[d])
        BY ONLY <2>2, <3>1
      <4>2. QED
        BY <1>4, <1>5, <2>1, <2>3, <4>1
    <3>2. QED
      BY <3>1
  <2>5. QED
    BY <2>1, <2>2, <2>4
<1>7. QED
  BY <1>1, <1>4, <1>5, <1>6

\* Runs that publish at the same time have met.
LEMMA MetNext ==
    ASSUME Programs, Types, MetInv, GenericNext
    PROVE  MetInv' /\ \A e \in Drawers : met[e] \subseteq met'[e]
<1>0. asked' = asked
  BY AskedStays
<1>1. DOMAIN asked \subseteq Drawers /\ met \in [Drawers -> SUBSET DOMAIN asked]
  BY DEF Programs, Types
<1>2. \A d, e \in DOMAIN asked : d # e /\ Inside(d) /\ Inside(e) => e \in met[d]
  BY DEF MetInv
<1>3. ASSUME NEW d \in DOMAIN asked, OpenPublication(d)
      PROVE  /\ \A a, b \in DOMAIN asked : a # b /\ Inside(a)' /\ Inside(b)' => b \in met'[a]
             /\ \A e \in Drawers : met[e] \subseteq met'[e]
  <2>1. PICK others : others = {e \in DOMAIN asked \ {d} : IsPublishing(e)}
    OBVIOUS
  <2>2. met' = [e \in Drawers |-> met[e] \cup IF e = d THEN others ELSE IF e \in others THEN {d} ELSE {}]
    BY <1>3, <2>1 DEF OpenPublication
  <2>3. \A e \in DOMAIN asked \ {d} : Inside(e)' => Inside(e) /\ e \in others
    BY <1>3, <2>1, StepKinds, InsideSteps, RunFacts
  <2>4. \A e \in Drawers : met'[e] = met[e] \cup IF e = d THEN others ELSE IF e \in others THEN {d} ELSE {}
    BY <2>2
  <2>5. ASSUME NEW a \in DOMAIN asked, NEW b \in DOMAIN asked, a # b, Inside(a)', Inside(b)'
        PROVE  b \in met'[a]
    <3>1. CASE a = d
      BY <1>1, <2>3, <2>4, <2>5, <3>1
    <3>2. CASE b = d
      BY <1>1, <2>3, <2>4, <2>5, <3>2
    <3>3. CASE a # d /\ b # d
      BY <1>1, <1>2, <2>3, <2>4, <2>5, <3>3
    <3>4. QED
      BY <3>1, <3>2, <3>3
  <2>6. QED
    BY <2>4, <2>5
<1>4. ASSUME met' = met, NEW d \in DOMAIN asked,
             (Advance(d) /\ ~Due(d, "open")) \/ Skip(d) \/ Stop(d)
      PROVE  \A a, b \in DOMAIN asked : a # b /\ Inside(a)' /\ Inside(b)' => b \in met'[a]
  <2>1. \A a \in DOMAIN asked : Inside(a)' => Inside(a)
    BY <1>4, InsideSteps
  <2>2. QED
    BY <1>2, <1>4, <2>1
<1>5. ASSUME met' = met, passed' = passed, ending' = ending
      PROVE  \A a, b \in DOMAIN asked : a # b /\ Inside(a)' /\ Inside(b)' => b \in met'[a]
  <2>1. \A a \in DOMAIN asked : Inside(a)' => Inside(a)
    BY <1>5, AskedStays DEF Inside
  <2>2. QED
    BY <1>2, <1>5, <2>1
<1>6. ASSUME NEW d \in DOMAIN asked,
             \/ Identify(d) \/ LoadSource(d) \/ VerifySource(d) \/ CheckDirectory(d) \/ DigestOutput(d)
             \/ RetireReport(d) \/ SaveOutput(d) \/ Safety(d) \/ WriteReport(d) \/ Reserve(d) \/ Stop(d)
      PROVE  met' = met /\ ((Advance(d) /\ ~Due(d, "open")) \/ Skip(d) \/ Stop(d))
  BY <1>6, StepKinds DEF Identify, LoadSource, VerifySource, CheckDirectory, DigestOutput, Reserve,
           RetireReport, SaveOutput, Safety, WriteReport, Stop, Finish, FailRun, KillRun, Due
<1>7. \/ passed' = passed /\ ending' = ending /\ met' = met
      \/ \E d \in DOMAIN asked :
            \/ Identify(d) \/ LoadSource(d) \/ VerifySource(d) \/ CheckDirectory(d) \/ DigestOutput(d)
            \/ RetireReport(d) \/ SaveOutput(d) \/ Safety(d) \/ WriteReport(d) \/ Reserve(d) \/ Stop(d)
            \/ OpenPublication(d)
  BY DEF GenericNext, ChangeSource, Stop
<1>8. (\A a, b \in DOMAIN asked : a # b /\ Inside(a)' /\ Inside(b)' => b \in met'[a])
      /\ \A e \in Drawers : met[e] \subseteq met'[e]
  BY <1>3, <1>4, <1>5, <1>6, <1>7
<1>9. QED
  BY <1>0, <1>8 DEF MetInv

\* What a run has saved is its own and so is what it has listed, unless an overwriting run saves.
LEMMA HoldsNext ==
    ASSUME Programs, Types, RunInv, ListInv, GenericNext, NEW e \in DOMAIN asked, Holds(e),
           \A d \in DOMAIN asked : SaveOutput(d) /\ asked[d].overwrite => d = e
    PROVE  Holds(e)'
<1> SUFFICES /\ \A n \in OutputNames : Took(e, <<"save", n>>)' => place'[n] = e
             /\ \A o \in ToSet(listed'[e]) : o.of = e
  BY DEF Holds
<1>0. asked' = asked /\ program' = program
  BY AskedStays
<1>1. /\ DOMAIN asked \subseteq Drawers /\ e \in Drawers /\ listed \in [Drawers -> Seq(Entry)]
      /\ place \in [OutputNames -> Drawers \cup {Nothing, Other}]
  BY DEF Programs, Types
<1>2. /\ \A n \in OutputNames : Took(e, <<"save", n>>) => place[n] = e
      /\ \A o \in ToSet(listed[e]) : o.of = e
  BY DEF Holds
<1>3. ASSUME NEW d \in DOMAIN asked, SaveOutput(d), NEW n \in OutputNames, Took(e, <<"save", n>>)'
      PROVE  place'[n] = e
  <2>1. Took(e, <<"save", n>>) \/ (e = d /\ Now(d) = <<"save", n>>)
    BY <1>3, StepKinds, TookSteps
  <2>2. place' = [place EXCEPT ![Now(d)[2]] = d] /\ (asked[d].overwrite \/ place[Now(d)[2]] = Nothing)
    BY <1>3 DEF SaveOutput
  <2>3. CASE e = d
    BY <1>1, <1>2, <2>1, <2>2, <2>3
  <2>4. CASE e # d
    <3>1. place[Now(d)[2]] = Nothing
      BY <1>3, <2>2, <2>4
    <3>2. place[n] = e
      BY <1>2, <2>1, <2>4
    <3>3. e # Nothing
      BY <1>1, GenericAssumption
    <3>4. QED
      BY <1>1, <2>2, <3>1, <3>2, <3>3
  <2>5. QED
    BY <2>3, <2>4
<1>4. ASSUME NEW d \in DOMAIN asked, DigestOutput(d), NEW o \in ToSet(listed'[e])
      PROVE  o.of = e
  <2>1. PICK x : x = [name |-> Now(d)[2], of |-> place[Now(d)[2]]]
    OBVIOUS
  <2>2. listed' = [listed EXCEPT ![d] = Append(@, x)]
    BY <1>4, <2>1 DEF DigestOutput
  <2>3. CASE e # d
    <3>1. listed'[e] = listed[e]
      BY <1>1, <2>2, <2>3
    <3>2. QED
      BY <1>2, <1>4, <3>1
  <2>4. CASE e = d
    <3>1. PICK l : l = listed[e]
      OBVIOUS
    <3>2. l \in Seq(Entry) /\ listed'[e] = Append(l, x)
      BY <1>1, <2>2, <2>4, <3>1
    <3>3. o \in ToSet(l) \/ o = x
      <4>1. PICK i \in DOMAIN Append(l, x) : Append(l, x)[i] = o
        BY <1>4, <3>2 DEF ToSet
      <4>2. i \in 1..Len(l) + 1
        BY ONLY <3>2, <4>1
      <4>3. CASE i = Len(l) + 1
        BY ONLY <3>2, <4>1, <4>3
      <4>4. CASE i # Len(l) + 1
        <5>1. i \in 1..Len(l) /\ l[i] = o
          BY ONLY <3>2, <4>1, <4>2, <4>4
        <5>2. DOMAIN l = 1..Len(l)
          BY ONLY <3>2
        <5>3. QED
          BY <5>1, <5>2 DEF ToSet
      <4>5. QED
        BY <4>3, <4>4
    <3>4. Due(d, "digest")
      BY <1>4, StepKinds
    <3>5. Now(d)[2] \in OutputNames /\ Took(e, <<"save", Now(d)[2]>>)
      BY <2>4, <3>4, RunFacts
    <3>6. x.of = e
      BY <1>2, <2>1, <3>5
    <3>7. QED
      BY <1>2, <3>1, <3>3, <3>6
  <2>5. QED
    BY <2>3, <2>4
<1>5. ASSUME NEW d \in DOMAIN asked, Skip(d) \/ (Advance(d) /\ Now(d)[1] # "save"), NEW n \in OutputNames
      PROVE  Took(e, <<"save", n>>)' <=> Took(e, <<"save", n>>)
  <2>1. CASE Advance(d) /\ Now(d)[1] # "save"
    <3>1. Now(d) # <<"save", n>>
      BY <2>1
    <3>2. QED
      BY <2>1, <3>1, TookSteps
  <2>2. CASE Skip(d)
    <3>1. <<"save", n>> \notin {<<"reserve", "run">>, <<"retire", "run">>}
      OBVIOUS
    <3>2. QED
      BY <2>2, <3>1, TookSteps
  <2>3. QED
    BY <1>5, <2>1, <2>2
<1>6. ASSUME passed' = passed, NEW n \in OutputNames
      PROVE  Took(e, <<"save", n>>)' <=> Took(e, <<"save", n>>)
  BY <1>0, <1>6 DEF Took
<1>7. ASSUME NEW d \in DOMAIN asked,
             \/ Identify(d) \/ LoadSource(d) \/ VerifySource(d) \/ CheckDirectory(d) \/ OpenPublication(d)
             \/ RetireReport(d) \/ DigestOutput(d) \/ Safety(d) \/ WriteReport(d) \/ Reserve(d)
      PROVE  (Skip(d) \/ (Advance(d) /\ Now(d)[1] # "save")) /\ place' = place /\ (listed' = listed \/ DigestOutput(d))
  BY <1>7, StepKinds DEF Identify, LoadSource, VerifySource, CheckDirectory, OpenPublication,
     Reserve,
           RetireReport, DigestOutput, Safety, WriteReport, Due
<1>8. \/ passed' = passed /\ listed' = listed /\ place' = place
      \/ \E d \in DOMAIN asked :
            \/ Identify(d) \/ LoadSource(d) \/ VerifySource(d) \/ CheckDirectory(d) \/ OpenPublication(d)
            \/ RetireReport(d) \/ DigestOutput(d) \/ Safety(d) \/ WriteReport(d) \/ Reserve(d)
            \/ (SaveOutput(d) /\ listed' = listed)
  BY DEF GenericNext, Finish, FailRun, KillRun, ChangeSource, SaveOutput
<1>9. \A n \in OutputNames : Took(e, <<"save", n>>)' => place'[n] = e
  BY <1>2, <1>3, <1>5, <1>6, <1>7, <1>8
<1>10. \A o \in ToSet(listed'[e]) : o.of = e
  BY <1>2, <1>4, <1>7, <1>8
<1>11. QED
  BY <1>9, <1>10

\* A run that publishes, and that no overwriting run has met, holds what it has saved.
LEMMA OwnNext ==
    ASSUME Programs, Types, RunInv, ListInv, MetInv, OwnInv, GenericNext
    PROVE  OwnInv'
<1>0. asked' = asked
  BY AskedStays
<1> SUFFICES ASSUME NEW e \in DOMAIN asked, Inside(e)', ~Overlapped(e)'
             PROVE  Holds(e)'
  BY <1>0 DEF OwnInv
<1>1. e \in Drawers
  BY DEF Programs
<1>2. ~Overlapped(e)
  <2>1. met[e] \subseteq met'[e]
    BY <1>1, MetNext
  <2>2. QED
    BY <1>0, <2>1 DEF Overlapped
<1>3. ASSUME Inside(e)
      PROVE  Holds(e)'
  <2>1. Holds(e)
    BY <1>2, <1>3 DEF OwnInv
  <2>2. ASSUME NEW d \in DOMAIN asked, SaveOutput(d), asked[d].overwrite, d # e
        PROVE  FALSE
    <3>1. Inside(d)
      BY <2>2, StepKinds, RunFacts
    <3>2. d \in met[e]
      BY <1>3, <2>2, <3>1 DEF MetInv
    <3>3. QED
      BY <1>2, <2>2, <3>2 DEF Overlapped
  <2>3. QED
    BY <2>1, <2>2, HoldsNext
<1>4. ASSUME ~Inside(e)
      PROVE  Holds(e)'
  <2>1. OpenPublication(e)
    <3>1. ASSUME NEW d \in DOMAIN asked, ~OpenPublication(d),
             \/ Identify(d) \/ LoadSource(d) \/ VerifySource(d) \/ CheckDirectory(d) \/ DigestOutput(d)
             \/ RetireReport(d) \/ SaveOutput(d) \/ Safety(d) \/ WriteReport(d) \/ Reserve(d) \/ Stop(d)
          PROVE  FALSE
      <4>1. (Advance(d) /\ ~Due(d, "open")) \/ Skip(d) \/ Stop(d)
        BY <3>1, StepKinds DEF Due
      <4>2. QED
        BY <1>4, <4>1, InsideSteps
    <3>2. ASSUME NEW d \in DOMAIN asked, OpenPublication(d), d # e
          PROVE  FALSE
      BY <1>4, <3>2, StepKinds, InsideSteps
    <3>3. ASSUME NEW f \in ReadFiles, ChangeSource(f)
          PROVE  FALSE
      <4>1. Inside(e)' => Inside(e)
        BY <3>3, AskedStays DEF ChangeSource, Inside
      <4>2. QED
        BY <1>4, <4>1
    <3>4. QED
      BY <3>1, <3>2, <3>3 DEF GenericNext, Stop
  <2>2. Advance(e) /\ Due(e, "open") /\ place' = place /\ listed' = listed
    BY <2>1, StepKinds DEF OpenPublication
  <2>3. passed[e] <= ReadLength(e) + 1
    <3>1. passed[e] = ReadLength(e) /\ ReadLength(e) \in Nat
      BY <2>2, RunFacts
    <3>2. QED
      BY <3>1
  <2>4. listed[e] = <<>> /\ \A n \in OutputNames : ~Took(e, <<"save", n>>)
    BY <2>3, ListedFacts
  <2>5. ASSUME NEW n \in OutputNames PROVE ~Took(e, <<"save", n>>)'
    <3>1. Now(e) # <<"save", n>>
      BY <2>2 DEF Due
    <3>2. QED
      BY <2>2, <2>4, <3>1, TookSteps
  <2>6. ToSet(listed'[e]) = {}
    <3>1. listed'[e] = <<>>
      BY <2>2, <2>4
    <3>2. QED
      BY ONLY <3>1 DEF ToSet
  <2>7. QED
    BY <2>5, <2>6 DEF Holds
<1>5. QED
  BY <1>3, <1>4

\* The report is of a run that has published, and of what is there.
LEMMA ManifestNext ==
    ASSUME Programs, Types, RunInv, ListInv, MetInv, OwnInv, ManifestInv, GenericNext
    PROVE  ManifestInv'
<1>0. asked' = asked /\ program' = program /\ \A d : ReadLength(d)' = ReadLength(d)
  BY AskedStays
<1> SUFFICES ASSUME NEW e \in Drawers, manifest'.by = e
             PROVE  /\ e \in DOMAIN asked /\ ~asked[e].preparing /\ passed'[e] = Len(program[e])
                    /\ manifest' = Filed(e)'
                    /\ ~Overlapped(e)' => Holds(e)'
                    /\ \A d \in DOMAIN asked :
                          asked[d].overwrite /\ Inside(d)' /\ ReadLength(d) + 3 <= passed'[d] => d \in met'[e]
  BY <1>0 DEF ManifestInv
<1>1. DOMAIN asked \subseteq Drawers /\ passed \in [Drawers -> Nat] /\ listed \in [Drawers -> Seq(Entry)]
  BY DEF Programs, Types
<1>2. \A d \in DOMAIN asked : met[d] \subseteq met'[d]
  BY <1>1, MetNext
<1>3. Overlapped(e) => Overlapped(e)' \/ e \notin DOMAIN asked
  BY <1>0, <1>2 DEF Overlapped
<1>4. CASE \E d \in DOMAIN asked : WriteReport(d)
  <2>1. PICK d \in DOMAIN asked : WriteReport(d)
    BY <1>4
  <2>2. Advance(d) /\ Due(d, "report") /\ manifest' = [by |-> d, lists |-> ToSet(listed[d])] /\ listed' = listed
    BY <2>1, StepKinds DEF WriteReport
  <2>3. d = e
    BY <2>2
  <2>4. ~asked[e].preparing /\ Inside(e) /\ passed[e] + 1 = Len(program[e])
    BY <2>2, <2>3, RunFacts
  <2>5. passed'[e] = Len(program[e])
    BY <2>2, <2>3, <2>4, AdvanceFacts
  <2>6. manifest' = Filed(e)'
    BY <2>2, <2>3 DEF Filed
  <2>7. ASSUME ~Overlapped(e)'
        PROVE  Holds(e)'
    <3>1. Holds(e)
      BY <1>3, <2>3, <2>4, <2>7 DEF OwnInv
    <3>2. \A c \in DOMAIN asked : ~SaveOutput(c)
      <4>1. ASSUME NEW c \in DOMAIN asked, SaveOutput(c) PROVE FALSE
        <5>1. Advance(c) /\ Due(c, "save")
          BY <4>1, StepKinds
        <5>2. c # e
          BY <2>2, <2>3, <5>1 DEF Due
        <5>3. passed'[e] = passed[e]
          BY <2>3, <5>1, <5>2, AdvanceFacts
        <5>4. passed[e] \in Nat
          BY <1>1
        <5>5. QED
          BY <2>4, <2>5, <5>3, <5>4
      <4>2. QED
        BY <4>1
    <3>3. QED
      BY <2>3, <3>1, <3>2, HoldsNext
  <2>8. ASSUME NEW c \in DOMAIN asked, Inside(c)'
        PROVE  c \in met'[e]
    <3>1. c # e
      <4>1. ASSUME c = e PROVE FALSE
        <5>1. passed'[e] < Len(program[e])
          BY <1>0, <2>8, <4>1 DEF Inside
        <5>2. Len(program[e]) \in Nat
          BY <2>3, RunFacts
        <5>3. QED
          BY <2>5, <5>1, <5>2
      <4>2. QED
        BY <4>1
    <3>2. Inside(c)
      BY <2>2, <2>3, <2>8, <3>1, InsideSteps
    <3>3. c \in met[e]
      BY <2>3, <2>4, <3>1, <3>2 DEF MetInv
    <3>4. QED
      BY <1>2, <2>3, <3>3
  <2>9. QED
    BY <2>3, <2>4, <2>5, <2>6, <2>7, <2>8
<1>5. CASE ~ \E d \in DOMAIN asked : WriteReport(d)
  <2>1. manifest' = manifest /\ ~ \E d \in DOMAIN asked : RetireReport(d)
    <3>1. manifest' = manifest \/ manifest' = NoManifest
      BY <1>5 DEF GenericNext, Identify, LoadSource, VerifySource, CheckDirectory,
         OpenPublication, Reserve,
           RetireReport, SaveOutput, DigestOutput, Safety, Finish, FailRun, KillRun, ChangeSource
    <3>2. manifest' # NoManifest
      BY GenericAssumption DEF NoManifest
    <3>3. QED
      BY <3>1, <3>2 DEF RetireReport
  <2>2. /\ e \in DOMAIN asked /\ ~asked[e].preparing /\ passed[e] = Len(program[e])
        /\ manifest = Filed(e)
        /\ ~Overlapped(e) => Holds(e)
        /\ \A d \in DOMAIN asked :
              asked[d].overwrite /\ Inside(d) /\ ReadLength(d) + 3 <= passed[d] => d \in met[e]
    BY <2>1 DEF ManifestInv
  <2>3. \A d \in DOMAIN asked : ~Skip(d)
    BY <2>1, GenericAssumption DEF Skip, NoManifest
  <2>4. Len(program[e]) \in Nat
    BY <2>2, RunFacts
  <2>5. passed'[e] = passed[e]
    <3>1. ASSUME NEW d \in DOMAIN asked, Advance(d) PROVE passed'[e] = passed[e]
      <4>1. d # e
        BY <2>2, <2>4, <3>1 DEF Advance
      <4>2. QED
        BY <2>2, <3>1, <4>1, AdvanceFacts
    <3>2. passed' = passed \/ \E d \in DOMAIN asked : Advance(d)
      BY <2>3, StepKinds DEF GenericNext, Finish, FailRun, KillRun, ChangeSource
    <3>3. QED
      BY <3>1, <3>2
  <2>6. listed'[e] = listed[e]
    <3>1. ASSUME NEW d \in DOMAIN asked, DigestOutput(d) PROVE listed'[e] = listed[e]
      <4>1. Advance(d)
        BY <3>1, StepKinds
      <4>2. d # e
        BY <2>2, <2>4, <4>1 DEF Advance
      <4>3. \E x : listed' = [listed EXCEPT ![d] = Append(@, x)]
        BY <3>1 DEF DigestOutput
      <4>4. QED
        BY <1>1, <4>2, <4>3
    <3>2. listed' = listed \/ \E d \in DOMAIN asked : DigestOutput(d)
      BY DEF GenericNext, Identify, LoadSource, VerifySource, CheckDirectory, OpenPublication,
         Reserve,
           RetireReport, SaveOutput, Safety, WriteReport, Finish, FailRun, KillRun, ChangeSource
    <3>3. QED
      BY <3>1, <3>2
  <2>7. manifest' = Filed(e)'
    BY <2>1, <2>2, <2>6 DEF Filed
  <2>8. ASSUME ~Overlapped(e)'
        PROVE  Holds(e)'
    <3>1. ~Overlapped(e)
      BY <1>3, <2>2, <2>8
    <3>2. ASSUME NEW d \in DOMAIN asked, SaveOutput(d), asked[d].overwrite PROVE FALSE
      <4>1. Inside(d) /\ ReadLength(d) + 3 <= passed[d]
        BY <3>2, StepKinds, RunFacts
      <4>2. d \in met[e]
        BY <2>2, <3>2, <4>1
      <4>3. QED
        BY <3>1, <3>2, <4>2 DEF Overlapped
    <3>3. QED
      BY <2>2, <3>1, <3>2, HoldsNext
  <2>9. ASSUME NEW d \in DOMAIN asked, asked[d].overwrite, Inside(d)', ReadLength(d) + 3 <= passed'[d]
        PROVE  d \in met'[e]
    <3>0. passed[d] \in Nat /\ ReadLength(d) \in Nat
      BY RunFacts
    <3>1. Inside(d) /\ ReadLength(d) + 3 <= passed[d]
      <4>1. CASE passed'[d] = passed[d]
        <5>1. ASSUME NEW c \in DOMAIN asked, Advance(c) PROVE Inside(d)
          <6>1. c # d
            BY <3>0, <4>1, <5>1, AdvanceFacts
          <6>2. QED
            BY <2>9, <5>1, <6>1, InsideSteps
        <5>2. (\E c \in DOMAIN asked : Advance(c) \/ Stop(c)) \/ (passed' = passed /\ ending' = ending)
          BY <2>3, StepKinds DEF GenericNext, Stop, ChangeSource
        <5>3. ASSUME passed' = passed, ending' = ending PROVE Inside(d)
          BY <1>0, <2>9, <5>3 DEF Inside
        <5>4. Inside(d)
          BY <2>9, <5>1, <5>2, <5>3, InsideSteps
        <5>5. QED
          BY <2>9, <4>1, <5>4
      <4>2. CASE passed'[d] # passed[d]
        <5>1. PICK c \in DOMAIN asked : Advance(c) /\ ~Due(c, "retire")
          <6>1. ASSUME NEW c \in DOMAIN asked,
                  \/ Identify(c) \/ LoadSource(c) \/ VerifySource(c) \/ CheckDirectory(c) \/ OpenPublication(c)
                  \/ SaveOutput(c) \/ DigestOutput(c) \/ Safety(c) \/ WriteReport(c) \/ Reserve(c)
                PROVE  Advance(c) /\ ~Due(c, "retire")
            BY <2>3, <6>1, StepKinds DEF Due
          <6>2. QED
            BY <2>1, <4>2, <6>1 DEF GenericNext, Finish, FailRun, KillRun, ChangeSource
        <5>2. c = d /\ passed'[d] = passed[d] + 1
          BY <4>2, <5>1, AdvanceFacts
        <5>3. ~Due(d, "open")
          <6>1. ASSUME Due(d, "open") PROVE FALSE
            <7>1. passed[d] = ReadLength(d)
              BY <6>1, RunFacts
            <7>2. QED
              BY <2>9, <3>0, <5>2, <7>1
          <6>2. QED
            BY <6>1
        <5>4. Inside(d)
          BY <2>9, <5>1, <5>2, <5>3, InsideSteps
        <5>5. passed[d] # ReadLength(d) + 2
          <6>1. ASSUME passed[d] = ReadLength(d) + 2 PROVE FALSE
            <7>1. ~asked[d].preparing /\ ending[d] = "run" /\ passed[d] < Len(program[d])
              BY <5>4 DEF Inside
            <7>2. program[d][ReadLength(d) + 3] = <<"retire", "run">>
              BY <2>9, <7>1 DEF Programs, Shape
            <7>3. passed[d] + 1 = ReadLength(d) + 3
              BY <3>0, <6>1
            <7>4. QED
              BY <5>1, <5>2, <7>1, <7>2, <7>3 DEF Due, Now
          <6>2. QED
            BY <6>1
        <5>6. QED
          BY <2>9, <3>0, <5>2, <5>4, <5>5
      <4>3. QED
        BY <4>1, <4>2
    <3>2. QED
      BY <1>2, <2>2, <2>9, <3>1
  <2>10. QED
    BY <2>2, <2>5, <2>7, <2>8, <2>9
<1>6. QED
  BY <1>4, <1>5

\* The report of a run that has published is there, or put aside, unless an overwriting run met it.
LEMMA LostNext ==
    ASSUME Programs, Types, AsideInv, MetInv, ManifestInv, LostInv, GenericNext
    PROVE  LostInv'
<1>0. asked' = asked /\ program' = program
  BY AskedStays
<1> SUFFICES ASSUME NEW e \in DOMAIN asked, passed'[e] = Len(program[e]), ~asked[e].preparing, ~Overlapped(e)'
             PROVE  manifest' = Filed(e)' \/ \E c \in Drawers : aside'[c] = Filed(e)'
  BY <1>0 DEF LostInv
<1>1. /\ DOMAIN asked \subseteq Drawers /\ e \in Drawers /\ listed \in [Drawers -> Seq(Entry)]
      /\ aside \in [Drawers -> Report]
  BY DEF Programs, Types
<1>2. ~Overlapped(e)
  <2>1. met[e] \subseteq met'[e]
    BY <1>1, MetNext
  <2>2. QED
    BY <1>0, <2>1 DEF Overlapped
<1>3. Filed(e) # NoManifest /\ Filed(e) # EmptyManifest
  BY <1>1, GenericAssumption DEF Filed, NoManifest, EmptyManifest
<1>4. Len(program[e]) \in Nat /\ passed[e] \in Nat
  BY RunFacts
<1>5. CASE WriteReport(e)
  <2>1. manifest' = [by |-> e, lists |-> ToSet(listed[e])] /\ listed' = listed
    BY <1>5 DEF WriteReport
  <2>2. QED
    BY <2>1 DEF Filed
<1>6. CASE ~WriteReport(e)
  <2>1. passed[e] = Len(program[e])
    <3>1. ASSUME passed'[e] # passed[e] PROVE FALSE
      <4>1. (Advance(e) /\ ~Due(e, "report")) \/ Skip(e)
        <5>1. ASSUME NEW d \in DOMAIN asked, Advance(d) \/ Skip(d) PROVE d = e
          BY <3>1, <5>1, AdvanceFacts
        <5>2. ASSUME NEW d \in DOMAIN asked,
                  \/ Identify(d) \/ LoadSource(d) \/ VerifySource(d) \/ CheckDirectory(d) \/ OpenPublication(d)
                  \/ SaveOutput(d) \/ DigestOutput(d) \/ Safety(d) \/ Reserve(d) \/ RetireReport(d)
                PROVE  (Advance(d) /\ ~Due(d, "report")) \/ Skip(d)
          BY <5>2, StepKinds DEF Due
        <5>3. ASSUME NEW d \in DOMAIN asked, WriteReport(d) PROVE d = e
          BY <5>1, <5>3, StepKinds
        <5>4. QED
          BY <1>6, <3>1, <5>1, <5>2, <5>3 DEF GenericNext, Finish, FailRun, KillRun, ChangeSource
      <4>2. CASE Skip(e)
        <5>1. Due(e, "reserve")
          BY <4>2 DEF Skip, Reserve
        <5>2. passed[e] = ReadLength(e) + 1 /\ ReadLength(e) + 4 < Len(program[e])
          BY <5>1, RunFacts
        <5>3. passed'[e] = passed[e] + 2 /\ ReadLength(e) \in Nat
          BY <4>2, AdvanceFacts, RunFacts
        <5>4. QED
          BY <1>4, <5>2, <5>3
      <4>3. CASE Advance(e) /\ ~Due(e, "report")
        <5>1. passed'[e] = passed[e] + 1 /\ ending[e] = "run" /\ passed[e] < Len(program[e])
          BY <4>3, AdvanceFacts
        <5>2. program[e][Len(program[e])] = <<"report", "run">>
          BY DEF Programs, Shape
        <5>3. QED
          BY <4>3, <5>1, <5>2 DEF Due, Now
      <4>4. QED
        BY <4>1, <4>2, <4>3
    <3>2. QED
      BY <3>1
  <2>2. manifest = Filed(e) \/ \E c \in Drawers : aside[c] = Filed(e)
    BY <1>2, <2>1 DEF LostInv
  <2>3. Filed(e)' = Filed(e)
    <3>1. ASSUME NEW d \in DOMAIN asked, DigestOutput(d) PROVE listed'[e] = listed[e]
      <4>1. Advance(d)
        BY <3>1, StepKinds
      <4>2. d # e
        BY <1>4, <2>1, <4>1 DEF Advance
      <4>3. \E x : listed' = [listed EXCEPT ![d] = Append(@, x)]
        BY <3>1 DEF DigestOutput
      <4>4. QED
        BY <1>1, <4>2, <4>3
    <3>2. listed' = listed \/ \E d \in DOMAIN asked : DigestOutput(d)
      BY DEF GenericNext, Identify, LoadSource, VerifySource, CheckDirectory, OpenPublication,
         Reserve,
           RetireReport, SaveOutput, Safety, WriteReport, Finish, FailRun, KillRun, ChangeSource
    <3>3. listed'[e] = listed[e]
      BY <3>1, <3>2
    <3>4. QED
      BY <3>3 DEF Filed
  <2>4. ASSUME NEW d \in DOMAIN asked, RetireReport(d)
        PROVE  manifest' = Filed(e) \/ \E c \in Drawers : aside'[c] = Filed(e)
    <3>1. aside' = [aside EXCEPT ![d] = manifest]
      BY <2>4 DEF RetireReport
    <3>2. Due(d, "retire")
      BY <2>4, StepKinds
    <3>3. asked[d].overwrite /\ passed[d] = ReadLength(d) + 2 /\ ending[d] = "run"
      BY <3>2, RunFacts DEF Due
    <3>4. aside[d] = EmptyManifest
      BY <3>3 DEF AsideInv
    <3>5. CASE manifest = Filed(e)
      BY <1>1, <3>1, <3>5
    <3>6. CASE \E c \in Drawers : aside[c] = Filed(e)
      <4>1. PICK c \in Drawers : aside[c] = Filed(e)
        BY <3>6
      <4>2. c # d
        BY <1>3, <3>4, <4>1
      <4>3. aside'[c] = Filed(e)
        BY <1>1, <3>1, <4>1, <4>2
      <4>4. QED
        BY <4>3
    <3>7. QED
      BY <2>2, <3>5, <3>6
  <2>5. ASSUME NEW d \in DOMAIN asked, WriteReport(d)
        PROVE  manifest' = Filed(e) \/ \E c \in Drawers : aside'[c] = Filed(e)
    <3>1. aside' = aside /\ (asked[d].overwrite \/ manifest = NoManifest) /\ Due(d, "report")
      BY <2>5 DEF WriteReport
    <3>2. CASE manifest = Filed(e)
      <4>1. asked[d].overwrite
        BY <1>3, <3>1, <3>2
      <4>2. Inside(d) /\ ReadLength(d) + 3 <= passed[d]
        BY <3>1, <4>1, RunFacts
      <4>3. manifest.by = e
        BY <3>2 DEF Filed
      <4>4. d \in met[e]
        BY <1>1, <4>1, <4>2, <4>3 DEF ManifestInv
      <4>5. QED
        BY <1>2, <4>1, <4>4 DEF Overlapped
    <3>3. QED
      BY <2>2, <3>1, <3>2
  <2>6. ASSUME NEW d \in DOMAIN asked, manifest' = manifest,
               \E r \in {NoManifest, EmptyManifest} : aside' = [aside EXCEPT ![d] = r],
               aside[d] \in {NoManifest, EmptyManifest}
        PROVE  manifest' = Filed(e) \/ \E c \in Drawers : aside'[c] = Filed(e)
    <3>1. ASSUME NEW c \in Drawers, aside[c] = Filed(e)
          PROVE  aside'[c] = Filed(e)
      <4>1. c # d
        BY <1>3, <2>6, <3>1
      <4>2. QED
        BY <1>1, <2>6, <3>1, <4>1
    <3>2. QED
      BY <2>2, <2>6, <3>1
  <2>7. ASSUME NEW d \in DOMAIN asked, Reserve(d), ~Skip(d)
        PROVE  manifest' = manifest /\ aside' = [aside EXCEPT ![d] = EmptyManifest] /\ aside[d] = NoManifest
    <3>1. Due(d, "reserve") /\ manifest' = manifest /\ aside' = [aside EXCEPT ![d] = EmptyManifest]
      BY <2>7 DEF Reserve, Skip
    <3>2. passed[d] = ReadLength(d) + 1 /\ ReadLength(d) \in Nat
      BY <3>1, RunFacts
    <3>3. passed[d] <= ReadLength(d) + 1
      BY <3>2
    <3>4. QED
      BY <3>1, <3>3 DEF AsideInv
  <2>8. ASSUME NEW d \in DOMAIN asked, FailRun(d), Due(d, "retire")
        PROVE  manifest' = manifest /\ aside' = [aside EXCEPT ![d] = NoManifest] /\ aside[d] = EmptyManifest
    <3>1. manifest' = manifest /\ aside' = [aside EXCEPT ![d] = NoManifest] /\ ending[d] = "run"
      BY <2>8 DEF FailRun
    <3>2. asked[d].overwrite /\ passed[d] = ReadLength(d) + 2
      BY <2>8, RunFacts
    <3>3. QED
      BY <3>1, <3>2 DEF AsideInv
  <2>9. \/ manifest' = manifest /\ aside' = aside
        \/ \E d \in DOMAIN asked : \/ RetireReport(d) \/ WriteReport(d) \/ (Reserve(d) /\ ~Skip(d))
                                   \/ (FailRun(d) /\ Due(d, "retire"))
    BY DEF GenericNext, Identify, LoadSource, VerifySource, CheckDirectory, OpenPublication,
       Reserve, Skip,
           SaveOutput, DigestOutput, Safety, Finish, FailRun, KillRun, ChangeSource
  <2>10. manifest' = Filed(e) \/ \E c \in Drawers : aside'[c] = Filed(e)
    BY <2>2, <2>4, <2>5, <2>6, <2>7, <2>8, <2>9
  <2>11. QED
    BY <2>3, <2>10
<1>7. QED
  BY <1>5, <1>6

\* The step that reads a file has its name.
LEMMA ReadFacts ==
    ASSUME Programs, Types, NEW d \in DOMAIN asked, NEW op \in {"identify", "load", "verify"}, Due(d, op)
    PROVE  /\ Now(d) = <<op, Now(d)[2]>> /\ Now(d)[2] \in ReadFiles
           /\ passed[d] + 1 \in 1..Len(program[d]) /\ (~Leaves(program[d], Now(d)[2]) \/ op = "verify")
<1>1. passed[d] \in Nat /\ Len(program[d]) \in Nat
  BY RunFacts
<1>2. passed[d] < Len(program[d]) /\ Now(d)[1] = op
  BY DEF Due
<1>3. passed[d] + 1 \in 1..Len(program[d])
  BY <1>1, <1>2
<1>4. Now(d) \in AllSteps
  <2>1. program[d] \in Seq(AllSteps)
    BY DEF Programs, Shape
  <2>2. QED
    BY ONLY <1>3, <2>1 DEF Now
<1>5. Now(d) = <<op, Now(d)[2]>> /\ Now(d)[2] \in ReadFiles
  BY <1>2, <1>4 DEF AllSteps, Readings, FileSteps, Savings, Marks
<1>6. ~Leaves(program[d], Now(d)[2]) \/ op = "verify"
  BY <1>3, <1>5 DEF Leaves, Now
<1>7. QED
  BY <1>3, <1>5, <1>6

\* A file is what it was, or was changed since.
LEMMA BeforeFacts ==
    ASSUME NEW x \in State, NEW y \in State, NEW z \in State
    PROVE  /\ Before(x, x)
           /\ Before(x, y) /\ Before(y, z) => Before(x, z)
           /\ Before(x, y) /\ y.changes < z.changes => Before(x, z)
           /\ x.changes \in Nat
<1>1. x.changes \in Nat /\ y.changes \in Nat /\ z.changes \in Nat
  BY GenericAssumption DEF State
<1>2. QED
  BY <1>1 DEF Before

\* What a run knows of the files that are read stays true.
LEMMA SourceNext ==
    ASSUME Programs, Types, SourceInv, GenericNext
    PROVE  SourceInv'
<1>0. asked' = asked /\ program' = program
  BY AskedStays
<1> SUFFICES ASSUME NEW e \in DOMAIN asked, NEW f \in ReadFiles
             PROVE  Kept(e, f)'
  BY <1>0 DEF SourceInv
<1>1. /\ DOMAIN asked \subseteq Drawers /\ e \in Drawers
      /\ source \in [ReadFiles -> State] /\ identity \in [Drawers -> [ReadFiles -> State]]
      /\ loaded \in [Drawers -> [ReadFiles -> State]]
  BY DEF Programs, Types
<1>2. PICK P, p, x, y, z : P = program[e] /\ p = passed[e] /\ x = identity[e][f] /\ y = loaded[e][f] /\ z = source[f]
  OBVIOUS
<1>3. x \in State /\ y \in State /\ z \in State
  BY <1>1, <1>2
<1>4. p \in Nat /\ Len(P) \in Nat
  BY <1>2, RunFacts
<1>5. /\ Before(x, z) /\ Before(y, z)
      /\ Took(e, <<"load", f>>) => Before(x, y)
      /\ Leaves(P, f) => y = x
      /\ \A c \in 1..p : P[c] = <<"verify", f>> /\ (\E b \in 1..c : P[b] = <<"load", f>>) => Verified(e, f)
  BY <1>2 DEF SourceInv, Kept
<1>6. Leaves(P, f) \/ Reads(P, f)
  BY <1>2 DEF Programs, Shape
<1>7. ASSUME identity'[e][f] = x, loaded'[e][f] = y, source'[f] = z,
             \A i \in 1..passed'[e] : i \in 1..p \/ (P[i] # <<"load", f>> /\ P[i] # <<"verify", f>>)
      PROVE  Kept(e, f)'
  <2>1. Took(e, <<"load", f>>)' => Took(e, <<"load", f>>)
    BY <1>0, <1>2, <1>7 DEF Took
  <2>2. Verified(e, f)' <=> Verified(e, f)
    BY <1>0, <1>2, <1>7 DEF Verified
  <2>3. \A c \in 1..passed'[e] : P[c] = <<"verify", f>> => c \in 1..p
    BY <1>7
  <2>4. QED
    BY <1>0, <1>2, <1>5, <1>7, <2>1, <2>2, <2>3 DEF Kept
<1>8. ASSUME NEW d \in DOMAIN asked, d # e, Advance(d) \/ Skip(d)
      PROVE  passed'[e] = p
  BY <1>2, <1>8, AdvanceFacts
<1>9. ASSUME Identify(e), Now(e) = <<"identify", f>>
      PROVE  Kept(e, f)'
  <2>1. Due(e, "identify") /\ Now(e)[2] = f /\ passed'[e] = p + 1
    BY <1>2, <1>9, StepKinds, AdvanceFacts
  <2>2. identity' = [identity EXCEPT ![e][f] = source[f]] /\ source' = source /\ loaded' = loaded
    BY <1>9, <2>1 DEF Identify
  <2>3. identity'[e][f] = z /\ source'[f] = z /\ loaded'[e][f] = y
    BY <1>1, <1>2, <2>2
  <2>4. p + 1 \in 1..Len(P) /\ P[p + 1] = <<"identify", f>> /\ ~Leaves(P, f)
    BY <1>2, <1>9, <2>1, ReadFacts DEF Now
  <2>5. PICK a, b, c \in 1..Len(P) : ReadsAt(P, f, a, b, c)
    BY <1>6, <2>4 DEF Reads
  <2>6. a = p + 1 /\ a < b /\ \A i \in 1..Len(P) : P[i] = <<"load", f>> => i = b
    BY <2>4, <2>5 DEF ReadsAt
  <2>7. \A i \in 1..p + 1 : P[i] # <<"load", f>>
    BY <1>4, <2>4, <2>6
  <2>8. ~Took(e, <<"load", f>>)'
    BY <1>0, <1>2, <2>1, <2>7 DEF Took
  <2>9. \A c1 \in 1..p + 1 : \A b1 \in 1..c1 : P[b1] # <<"load", f>>
    <3>1. ASSUME NEW c1 \in 1..p + 1, NEW b1 \in 1..c1
          PROVE  b1 \in 1..p + 1
      BY <1>4
    <3>2. QED
      BY <2>7, <3>1
  <2>10. Before(z, z)
    BY <1>3, BeforeFacts
  <2>11. QED
    BY <1>0, <1>2, <1>5, <2>1, <2>3, <2>4, <2>8, <2>9, <2>10 DEF Kept
<1>10. ASSUME LoadSource(e), Now(e) = <<"load", f>>
       PROVE  Kept(e, f)'
  <2>1. Due(e, "load") /\ Now(e)[2] = f /\ passed'[e] = p + 1
    BY <1>2, <1>10, StepKinds, AdvanceFacts
  <2>2. loaded' = [loaded EXCEPT ![e][f] = source[f]] /\ source' = source /\ identity' = identity
    BY <1>10, <2>1 DEF LoadSource
  <2>3. loaded'[e][f] = z /\ source'[f] = z /\ identity'[e][f] = x
    BY <1>1, <1>2, <2>2
  <2>4. p + 1 \in 1..Len(P) /\ P[p + 1] = <<"load", f>> /\ ~Leaves(P, f)
    BY <1>2, <1>10, <2>1, ReadFacts DEF Now
  <2>5. PICK a, b, c \in 1..Len(P) : ReadsAt(P, f, a, b, c)
    BY <1>6, <2>4 DEF Reads
  <2>6. b = p + 1 /\ \A i \in 1..Len(P) : P[i] = <<"load", f>> => i = b
    BY <2>4, <2>5 DEF ReadsAt
  <2>7. ASSUME NEW c1 \in 1..p + 1, P[c1] = <<"verify", f>>, NEW b1 \in 1..c1, P[b1] = <<"load", f>>
        PROVE  FALSE
    <3>1. b1 \in 1..Len(P)
      BY <1>4, <2>4
    <3>2. b1 = p + 1
      BY <2>6, <2>7, <3>1
    <3>3. c1 = p + 1
      BY <1>4, <3>2
    <3>4. QED
      BY <2>4, <2>7, <3>3
  <2>8. Before(z, z)
    BY <1>3, BeforeFacts
  <2>9. QED
    BY <1>0, <1>2, <1>5, <2>1, <2>3, <2>4, <2>7, <2>8 DEF Kept
<1>11. ASSUME VerifySource(e), Now(e) = <<"verify", f>>
       PROVE  Kept(e, f)'
  <2>1. Due(e, "verify") /\ Now(e)[2] = f /\ passed'[e] = p + 1 /\ P[p + 1] = <<"verify", f>>
    BY <1>2, <1>11, StepKinds, AdvanceFacts DEF Now
  <2>2. loaded' = loaded /\ source' = source /\ identity' = identity /\ Same(e, f)
    BY <1>11, <2>1 DEF VerifySource
  <2>3. \A i : i \in 1..p + 1 <=> i \in 1..p \/ i = p + 1
    BY <1>4
  <2>4. Took(e, <<"load", f>>)' => Took(e, <<"load", f>>)
    <3>1. Took(e, <<"load", f>>)' => \E i \in 1..p + 1 : P[i] = <<"load", f>>
      BY <1>0, <1>2, <2>1 DEF Took
    <3>2. QED
      BY <1>2, <2>1, <2>3, <3>1 DEF Took
  <2>5. ASSUME NEW b \in 1..p + 1, P[b] = <<"load", f>>
        PROVE  Verified(e, f)
    <3>1. Took(e, <<"load", f>>)
      BY <1>2, <2>1, <2>3, <2>5 DEF Took
    <3>2. Before(x, y) /\ Before(y, z)
      BY <1>5, <3>1
    <3>3. x.changes \in Nat /\ y.changes \in Nat /\ z.changes \in Nat
      BY <1>3, BeforeFacts
    <3>4. CASE asked[e].metadata /\ f \in ReadWeights
      <4>1. z = x
        BY <1>2, <2>2, <3>4 DEF Same
      <4>2. y = z
        BY <3>2, <3>3, <4>1 DEF Before
      <4>3. QED
        BY <1>2, <4>1, <4>2 DEF Verified
    <3>5. CASE ~(asked[e].metadata /\ f \in ReadWeights)
      <4>1. z.content = x.content
        BY <1>2, <2>2, <3>5 DEF Same
      <4>2. y = x \/ y = z \/ (y.changes > x.changes /\ z.changes > y.changes)
        BY <3>2, <3>3 DEF Before
      <4>3. QED
        BY <1>2, <3>5, <4>1, <4>2 DEF Verified
    <3>6. QED
      BY <3>4, <3>5
  <2>6. Verified(e, f)' <=> Verified(e, f)
    BY <1>0, <2>2 DEF Verified
  <2>7. ASSUME NEW c \in 1..p + 1, P[c] = <<"verify", f>>, NEW b \in 1..c, P[b] = <<"load", f>>
        PROVE  Verified(e, f)
    <3>1. b \in 1..p + 1
      BY <1>4
    <3>2. QED
      BY <2>5, <2>7, <3>1
  <2>8. identity'[e][f] = x /\ loaded'[e][f] = y /\ source'[f] = z
    BY <1>2, <2>2
  <2>9. QED
    BY <1>0, <1>2, <1>5, <2>1, <2>4, <2>6, <2>7, <2>8 DEF Kept
<1>12. ASSUME ChangeSource(f)
       PROVE  Kept(e, f)'
  <2>1. PICK w : w = source'[f]
    OBVIOUS
  <2>2. PICK c \in SourceStates : source' = [source EXCEPT ![f] = [content |-> c, changes |-> @.changes + 1]]
    BY <1>12 DEF ChangeSource
  <2>3. source[f].changes < MaxChanges /\ passed' = passed /\ identity' = identity /\ loaded' = loaded
    BY <1>12 DEF ChangeSource
  <2>4. x.changes \in Nat /\ y.changes \in Nat /\ z.changes \in Nat
    BY <1>3, BeforeFacts
  <2>5. w = [content |-> c, changes |-> z.changes + 1]
    BY <1>1, <1>2, <2>1, <2>2
  <2>6. z.changes < w.changes /\ w \in State
    <3>1. z.changes + 1 \in 0..MaxChanges
      BY <1>2, <2>3, <2>4, GenericAssumption
    <3>2. QED
      BY <2>4, <2>5, <3>1 DEF State
  <2>7. Before(x, w) /\ Before(y, w)
    BY <1>3, <1>5, <2>6, BeforeFacts
  <2>8. w.changes \in Nat
    BY <2>6, BeforeFacts
  <2>9. Verified(e, f) => Verified(e, f)'
    <3>1. z.changes > y.changes => w.changes > y.changes
      BY <2>4, <2>6, <2>8
    <3>2. QED
      BY <1>0, <1>2, <2>1, <2>3, <3>1 DEF Verified
  <2>10. Took(e, <<"load", f>>)' <=> Took(e, <<"load", f>>)
    BY <1>0, <2>3 DEF Took
  <2>11. identity'[e][f] = x /\ loaded'[e][f] = y /\ source'[f] = w /\ passed'[e] = p
    BY <1>2, <2>1, <2>3
  <2>12. QED
    BY <1>0, <1>2, <1>5, <2>7, <2>9, <2>10, <2>11 DEF Kept
<1>13. ASSUME passed' = passed, identity' = identity, loaded' = loaded, source'[f] = z
       PROVE  Kept(e, f)'
  BY <1>2, <1>7, <1>13
<1>14. ASSUME NEW g \in ReadFiles, ChangeSource(g)
       PROVE  Kept(e, f)'
  <2>1. CASE g = f
    BY <1>12, <1>14, <2>1
  <2>2. CASE g # f
    <3>1. source'[f] = z
      BY <1>1, <1>2, <1>14, <2>2 DEF ChangeSource
    <3>2. QED
      BY <1>13, <1>14, <3>1 DEF ChangeSource
  <2>3. QED
    BY <2>1, <2>2
<1>15. ASSUME NEW d \in DOMAIN asked, Advance(d), d = e => Now(d) # <<"load", f>> /\ Now(d) # <<"verify", f>>,
              identity'[e][f] = x, loaded'[e][f] = y, source' = source
       PROVE  Kept(e, f)'
  <2>1. passed'[e] = IF e = d THEN p + 1 ELSE p
    BY <1>2, <1>15, AdvanceFacts
  <2>2. \A i : i \in 1..p + 1 <=> i \in 1..p \/ i = p + 1
    BY <1>4
  <2>3. d = e => P[p + 1] # <<"load", f>> /\ P[p + 1] # <<"verify", f>>
    BY <1>2, <1>15 DEF Now
  <2>4. \A i \in 1..passed'[e] : i \in 1..p \/ (P[i] # <<"load", f>> /\ P[i] # <<"verify", f>>)
    BY <2>1, <2>2, <2>3
  <2>5. QED
    BY <1>2, <1>7, <1>15, <2>4
<1>16. ASSUME NEW d \in DOMAIN asked, Skip(d)
       PROVE  Kept(e, f)'
  <2>1. passed'[e] = IF e = d THEN p + 2 ELSE p
    BY <1>2, <1>16, AdvanceFacts
  <2>2. \A i : i \in 1..p + 2 <=> i \in 1..p \/ i = p + 1 \/ i = p + 2
    BY <1>4
  <2>3. Due(d, "reserve") /\ identity' = identity /\ loaded' = loaded /\ source' = source
    BY <1>16 DEF Skip, Reserve
  <2>4. d = e => P[p + 1] = <<"reserve", "run">> /\ P[p + 2] = <<"retire", "run">>
    BY <1>2, <2>3, RunFacts DEF Now
  <2>5. \A i \in 1..passed'[e] : i \in 1..p \/ (P[i] # <<"load", f>> /\ P[i] # <<"verify", f>>)
    BY <2>1, <2>2, <2>4
  <2>6. QED
    BY <1>2, <1>7, <2>3, <2>5
<1>17. ASSUME NEW d \in DOMAIN asked, Identify(d) \/ LoadSource(d) \/ VerifySource(d)
       PROVE  Kept(e, f)'
  <2>1. PICK g : g = Now(d)[2]
    OBVIOUS
  <2>2. PICK op \in {"identify", "load", "verify"} : Due(d, op) /\ (op = "identify" <=> Identify(d))
             /\ (op = "load" <=> LoadSource(d)) /\ (op = "verify" <=> VerifySource(d)) /\ Advance(d)
    BY <1>17, StepKinds DEF Due
  <2>3. Now(d) = <<op, g>> /\ g \in ReadFiles
    BY <2>1, <2>2, ReadFacts
  <2>4. CASE d = e /\ g = f
    BY <1>9, <1>10, <1>11, <2>2, <2>3, <2>4
  <2>5. CASE ~(d = e /\ g = f)
    <3>1. /\ identity' = identity \/ identity' = [identity EXCEPT ![d][g] = source[g]]
          /\ loaded' = loaded \/ loaded' = [loaded EXCEPT ![d][g] = source[g]]
          /\ source' = source
      BY <1>17, <2>1 DEF Identify, LoadSource, VerifySource
    <3>2. identity'[e][f] = x /\ loaded'[e][f] = y
      BY <1>1, <1>2, <2>3, <2>5, <3>1
    <3>3. d = e => Now(d) # <<"load", f>> /\ Now(d) # <<"verify", f>>
      BY <2>3, <2>5
    <3>4. QED
      BY <1>15, <2>2, <3>1, <3>2, <3>3
  <2>6. QED
    BY <2>4, <2>5
<1>18. ASSUME NEW d \in DOMAIN asked,
             \/ CheckDirectory(d) \/ OpenPublication(d) \/ RetireReport(d) \/ SaveOutput(d)
             \/ DigestOutput(d) \/ Safety(d) \/ WriteReport(d) \/ (Reserve(d) /\ ~Skip(d))
       PROVE  Kept(e, f)'
  <2>1. Advance(d) /\ Now(d)[1] \notin {"load", "verify"}
    BY <1>18, StepKinds DEF Due
  <2>2. identity' = identity /\ loaded' = loaded /\ source' = source
    BY <1>18 DEF CheckDirectory, OpenPublication, RetireReport, SaveOutput, DigestOutput, Safety,
       WriteReport, Reserve
  <2>3. Now(d) # <<"load", f>> /\ Now(d) # <<"verify", f>>
    BY <2>1
  <2>4. QED
    BY <1>2, <1>15, <2>1, <2>2, <2>3
<1>19. ASSUME NEW d \in DOMAIN asked, Stop(d)
       PROVE  Kept(e, f)'
  BY <1>2, <1>13, <1>19 DEF Stop, Finish, FailRun, KillRun
<1>20. QED
  BY <1>14, <1>16, <1>17, <1>18, <1>19 DEF GenericNext, Stop

\* Every run has its program at first, and keeps it.
LEMMA ProgramsInit == ASSUME GenericInit PROVE Programs
<1>1. PICK jobs \in GenericJobs : asked \in jobs
  BY DEF GenericInit
<1>2. DOMAIN asked \subseteq Drawers /\ \A d \in DOMAIN asked : IsJob(asked[d])
  BY <1>1, GenericAssumption
<1>3. ASSUME NEW d \in DOMAIN asked
      PROVE  /\ ReadLength(d) \in 0..Len(program[d]) /\ Shape(program[d], asked[d], ReadLength(d))
             /\ ~asked[d].preparing /\ ~Refuses(program[d]) => Whole(d)
  <2>1. program[d] = Steps(d)
    BY DEF GenericInit
  <2>2. \E r \in 0..Len(program[d]) : Shape(program[d], asked[d], r)
    BY <1>2, <2>1, ProgramSteps
  <2>3. ReadLength(d) \in 0..Len(program[d]) /\ Shape(program[d], asked[d], ReadLength(d))
    BY <2>2 DEF ReadLength
  <2>4. ASSUME ~asked[d].preparing, ~Refuses(program[d])
        PROVE  Whole(d)
    <3>1. Digests(program[d]) = Digests(Saving(d)) /\ ~Refuses(Saving(d))
      BY <1>2, <2>1, <2>4, ProgramDigests
    <3>2. /\ Digests(Saving(d)) = Expected(d) /\ ~Undeclared(d)
          /\ \A n \in Fields : IsDeclared(d, n) => Returns(d, n)
          /\ \A n \in Fields : SavesMedia(d, n) => asked[d].returned[n] # 0
          /\ \E n \in Fields : SavesTensor(d, n) \/ SavesMedia(d, n)
      BY <1>2, <3>1, SavingSteps
    <3>3. QED
      BY <3>1, <3>2 DEF Whole
  <2>5. QED
    BY <2>3, <2>4
<1>4. QED
  BY <1>2, <1>3 DEF Programs

\* Programs do not change while they run.
LEMMA ProgramsNext == ASSUME Programs, [GenericNext]_genericVars PROVE Programs'
<1>1. asked' = asked /\ program' = program /\ \A d : ReadLength(d)' = ReadLength(d)
  BY AskedStays
<1>2. ASSUME NEW d \in DOMAIN asked
      PROVE  Whole(d)' <=> Whole(d)
  BY <1>1 DEF Whole, Expected, SavesTensor, SavesMedia, IsDeclared, Returns, Undeclared
<1>3. QED
  BY <1>1, <1>2 DEF Programs

\* The invariant holds at first.
LEMMA GenerationInit == GenericInit => GenerationInv
<1> SUFFICES ASSUME GenericInit PROVE GenerationInv
  OBVIOUS
<1>1. Programs
  BY ProgramsInit
<1>2. /\ ending = [d \in Drawers |-> "run"] /\ passed = [d \in Drawers |-> 0]
      /\ source = [f \in ReadFiles |-> Unread] /\ identity = [d \in Drawers |-> source]
      /\ loaded = [d \in Drawers |-> source] /\ place \in Earlier /\ manifest = NoManifest
      /\ aside = [d \in Drawers |-> NoManifest] /\ listed = [d \in Drawers |-> <<>>]
      /\ met = [d \in Drawers |-> {}]
  BY DEF GenericInit
<1>3. DOMAIN asked \subseteq Drawers
  BY <1>1 DEF Programs
<1>4. Unread \in State
  <2>1. (CHOOSE c \in SourceStates : TRUE) \in SourceStates
    BY GenericAssumption
  <2>2. 0 \in 0..MaxChanges
    BY GenericAssumption
  <2>3. QED
    BY <2>1, <2>2 DEF Unread, State
<1>5. \A d \in DOMAIN asked : Len(program[d]) \in Nat /\ ReadLength(d) \in Nat /\ (~asked[d].preparing => Len(program[d]) # 0)
  <2>1. ASSUME NEW d \in DOMAIN asked
        PROVE  Len(program[d]) \in Nat /\ ReadLength(d) \in Nat /\ (~asked[d].preparing => Len(program[d]) # 0)
    <3>1. Shape(program[d], asked[d], ReadLength(d))
      BY <1>1 DEF Programs
    <3>2. program[d] \in Seq(AllSteps) /\ ReadLength(d) \in 0..Len(program[d])
          /\ (~asked[d].preparing => ReadLength(d) + 2 < Len(program[d]))
      BY <3>1 DEF Shape
    <3>3. Len(program[d]) \in Nat
      BY ONLY <3>2
    <3>4. QED
      BY <3>2, <3>3
  <2>2. QED
    BY <2>1
<1>6. \A d \in DOMAIN asked : passed[d] = 0 /\ listed[d] = <<>> /\ ending[d] = "run" /\ aside[d] = NoManifest
  BY <1>2, <1>3
<1>7. Types
  <2>1. place \in [OutputNames -> Drawers \cup {Nothing, Other}]
    BY <1>2, GenericAssumption
  <2>2. NoManifest \in Report
    BY DEF Report, NoManifest
  <2>3. <<>> \in Seq(Entry)
    OBVIOUS
  <2>4. /\ ending \in [Drawers -> {"run", "complete", "failed"}] /\ passed \in [Drawers -> Nat]
        /\ source \in [ReadFiles -> State]
    BY <1>2, <1>4
  <2>5. identity \in [Drawers -> [ReadFiles -> State]] /\ loaded \in [Drawers -> [ReadFiles -> State]]
    BY <1>2, <2>4
  <2>6. listed \in [Drawers -> Seq(Entry)]
    BY ONLY <1>2, <2>3
  <2>7. \A d \in DOMAIN asked : passed[d] <= Len(program[d])
    BY <1>5, <1>6
  <2>8. aside \in [Drawers -> Report] /\ met \in [Drawers -> SUBSET DOMAIN asked]
    BY <1>2, <2>2
  <2>9. QED
    BY <1>2, <2>1, <2>2, <2>4, <2>5, <2>6, <2>7, <2>8 DEF Types
<1>8. \A d \in DOMAIN asked : \A s : ~Took(d, s)
  BY <1>6 DEF Took
<1>9. \A d \in DOMAIN asked : ~Inside(d)
  BY <1>5, <1>6 DEF Inside
<1>10. RunInv /\ AsideInv /\ MetInv /\ OwnInv
  <2>1. RunInv
    BY <1>6, <1>8 DEF RunInv
  <2>2. AsideInv
    BY <1>5, <1>6 DEF AsideInv
  <2>3. QED
    BY <1>9, <2>1, <2>2 DEF MetInv, OwnInv
<1>11. ListInv
  <2>1. ToSet(<<>>) = {}
    BY DEF ToSet
  <2>2. \A d \in DOMAIN asked : Len(listed[d]) = 0
    BY <1>6
  <2>3. QED
    BY <1>6, <1>8, <2>1, <2>2 DEF ListInv
<1>12. ManifestInv
  BY <1>2, GenericAssumption DEF ManifestInv, NoManifest
<1>13. LostInv
  BY <1>5, <1>6 DEF LostInv
<1>14. SourceInv
  <2>1. ASSUME NEW d \in DOMAIN asked, NEW f \in ReadFiles
        PROVE  Kept(d, f)
    <3>1. identity[d][f] = Unread /\ loaded[d][f] = Unread /\ source[f] = Unread
      BY <1>2, <1>3
    <3>2. Before(Unread, Unread)
      BY <1>4, BeforeFacts
    <3>3. QED
      BY <1>6, <1>8, <3>1, <3>2 DEF Kept
  <2>2. QED
    BY <2>1 DEF SourceInv
<1>15. QED
  BY <1>1, <1>7, <1>10, <1>11, <1>12, <1>13, <1>14 DEF GenerationInv

\* No step breaks it.
LEMMA GenerationNext == GenerationInv /\ [GenericNext]_genericVars => GenerationInv'
<1> SUFFICES ASSUME GenerationInv, [GenericNext]_genericVars PROVE GenerationInv'
  OBVIOUS
<1>1. Programs /\ Types /\ RunInv /\ AsideInv /\ ListInv /\ MetInv /\ OwnInv /\ ManifestInv /\ LostInv /\ SourceInv
  BY DEF GenerationInv
<1>2. Programs'
  BY <1>1, ProgramsNext
<1>3. CASE GenericNext
  <2>1. Types' /\ RunInv' /\ AsideInv' /\ ListInv'
    BY <1>1, <1>3, TypesNext, RunNext, AsideNext, ListNext
  <2>2. MetInv' /\ OwnInv' /\ ManifestInv' /\ LostInv' /\ SourceInv'
    BY <1>1, <1>3, MetNext, OwnNext, ManifestNext, LostNext, SourceNext
  <2>3. QED
    BY <1>2, <2>1, <2>2 DEF GenerationInv
<1>4. CASE UNCHANGED genericVars
  <2>1. \A d : ReadLength(d)' = ReadLength(d)
    BY AskedStays
  <2>2. Types' /\ RunInv' /\ AsideInv' /\ ListInv'
    <3>1. \A d, s : Took(d, s)' <=> Took(d, s)
      BY <1>4 DEF Took
    <3>2. Types'
      BY <1>1, <1>4 DEF Types
    <3>3. RunInv'
      BY <1>1, <1>4, <3>1 DEF RunInv
    <3>4. AsideInv'
      BY <1>1, <1>4, <2>1 DEF AsideInv
    <3>5. ListInv'
      BY <1>1, <1>4, <3>1 DEF ListInv
    <3>6. QED
      BY <3>2, <3>3, <3>4, <3>5
  <2>3. MetInv' /\ OwnInv'
    BY <1>1, <1>4, <2>1 DEF MetInv, OwnInv, Holds, Inside, Overlapped, Took
  <2>4. ManifestInv' /\ LostInv'
    BY <1>1, <1>4, <2>1 DEF ManifestInv, LostInv, Holds, Inside, Overlapped, Took, Filed
  <2>5. SourceInv'
    BY <1>1, <1>4, <2>1 DEF SourceInv, Kept, Verified, Took
  <2>6. QED
    BY <1>2, <2>2, <2>3, <2>4, <2>5 DEF GenerationInv
<1>5. QED
  BY <1>3, <1>4

\* What a report lists is what its run was to save.
LEMMA ListsExpected ==
    ASSUME GenerationInv, NEW d \in Drawers, manifest.by = d
    PROVE  /\ d \in DOMAIN asked /\ IsJob(asked[d]) /\ Whole(d)
           /\ {o.name : o \in manifest.lists} = Expected(d)
           /\ Len(listed[d]) = Cardinality(Expected(d))
<1>1. Programs /\ Types /\ RunInv /\ ListInv /\ ManifestInv
  BY DEF GenerationInv
<1>2. d \in DOMAIN asked /\ ~asked[d].preparing /\ passed[d] = Len(program[d]) /\ manifest = Filed(d)
  BY <1>1 DEF ManifestInv
<1>3. Len(program[d]) \in Nat
  BY <1>1, <1>2, RunFacts
<1>4. program[d] \in Seq(AllSteps) /\ IsJob(asked[d])
  BY <1>1, <1>2 DEF Programs, Shape
<1>5. DOMAIN program[d] = 1..Len(program[d]) /\ \A i \in 1..Len(program[d]) : program[d][i] \in AllSteps
  BY ONLY <1>4
<1>6. ~Refuses(program[d])
  <2>1. ASSUME NEW i \in 1..Len(program[d]), program[d][i][1] = "refuse"
        PROVE  FALSE
    <3>1. \E n \in Fields : program[d][i] = <<"refuse", n>>
      BY <1>5, <2>1 DEF AllSteps, Readings, FileSteps, Savings, Marks
    <3>2. \E n \in Fields : Took(d, <<"refuse", n>>)
      BY <1>2, <3>1 DEF Took
    <3>3. QED
      BY <1>1, <1>2, <3>2 DEF RunInv
  <2>2. QED
    BY <1>5, <2>1 DEF Refuses
<1>7. Whole(d)
  BY <1>1, <1>2, <1>6 DEF Programs
<1>8. {o.name : o \in ToSet(listed[d])} = Expected(d)
  <2>1. {o.name : o \in ToSet(listed[d])} = {n \in OutputNames : Took(d, <<"digest", n>>)}
    BY <1>1, <1>2 DEF ListInv
  <2>2. \A n : Took(d, <<"digest", n>>) <=> \E i \in DOMAIN program[d] : program[d][i] = <<"digest", n>>
    BY <1>2, <1>5 DEF Took
  <2>3. {n \in OutputNames : Took(d, <<"digest", n>>)} = Digests(program[d])
    BY <2>2 DEF Digests
  <2>4. QED
    BY <1>7, <2>1, <2>3 DEF Whole
<1>9. manifest.lists = ToSet(listed[d])
  BY <1>2 DEF Filed
<1>10. Len(listed[d]) = Cardinality(Expected(d))
  <2>1. PICK l : l = listed[d]
    OBVIOUS
  <2>2. l \in Seq(Entry) /\ \A i, k \in 1..Len(l) : l[i].name = l[k].name => i = k
    BY <1>1, <1>2, <2>1 DEF Types, Programs, ListInv
  <2>3. Len(l) \in Nat /\ DOMAIN l = 1..Len(l)
    BY ONLY <2>2
  <2>4. PICK c \in Nat : c = Len(l)
    BY <2>3
  <2>5. PICK E : E = Expected(d)
    OBVIOUS
  <2>6. \A x : x \in E <=> \E i \in 1..c : x = l[i].name
    BY <1>8, <2>1, <2>3, <2>4, <2>5 DEF ToSet
  <2>7. \A i, k \in 1..c : l[i].name = l[k].name => i = k
    BY <2>2, <2>4
  <2>8. PICK g : g = [i \in 1..c |-> l[i].name]
    OBVIOUS
  <2>9. g \in Bijection(1..c, E)
    <3>1. g \in [1..c -> E] /\ \A i \in 1..c : g[i] = l[i].name
      BY ONLY <2>6, <2>8
    <3>2. \A i, k \in 1..c : g[i] = g[k] => i = k
      BY ONLY <2>7, <3>1
    <3>3. \A x \in E : \E i \in 1..c : g[i] = x
      BY ONLY <2>6, <3>1
    <3>4. QED
      BY ONLY <3>1, <3>2, <3>3 DEF Bijection, Injection, Surjection, IsInjective
  <2>10. c = Cardinality(E)
    <3>1. ExistsBijection(1..c, E)
      BY <2>9 DEF ExistsBijection
    <3>2. QED
      BY <3>1, FS_CountingElements
  <2>11. QED
    BY <2>1, <2>4, <2>5, <2>10
<1>11. QED
  BY <1>2, <1>4, <1>7, <1>8, <1>9, <1>10

\* The forms in which a field is among the outputs that a run is to save.
LEMMA FormsExpected ==
    ASSUME NEW d, IsJob(asked[d]), NEW n \in Fields
    PROVE  /\ SavesTensor(d, n) => {k \in 0..2 : <<n, k>> \in Expected(d)} = {0}
           /\ SavesMedia(d, n) => {k \in 0..2 : <<n, k>> \in Expected(d)} = 1..asked[d].returned[n]
           /\ ~SavesTensor(d, n) /\ ~SavesMedia(d, n) => {k \in 0..2 : <<n, k>> \in Expected(d)} = {}
<1>1. SavesMedia(d, n) => ~SavesTensor(d, n) /\ n \in DOMAIN asked[d].returned
  BY DEF SavesMedia, Returns
<1>2. n \in DOMAIN asked[d].returned => asked[d].returned[n] \in 0..2
  BY DEF IsJob
<1>3. \A k : <<n, k>> \in Expected(d) <=>
          (SavesTensor(d, n) /\ k = 0) \/ (SavesMedia(d, n) /\ k \in 1..asked[d].returned[n])
  <2>1. \A x : x \in Expected(d) <=>
            \/ \E m \in Fields : SavesTensor(d, m) /\ x = <<m, 0>>
            \/ \E m \in Fields : SavesMedia(d, m) /\ \E k \in 1..asked[d].returned[m] : x = <<m, k>>
    BY DEF Expected
  <2>2. QED
    BY <2>1
<1>4. SavesMedia(d, n) => \A k : k \in 1..asked[d].returned[n] => k \in 0..2
  BY <1>1, <1>2
<1>5. QED
  BY <1>1, <1>3, <1>4

\* What a report lists of each field.
LEMMA FieldsTrue == ASSUME GenerationInv PROVE FieldsAsReturned
<1> SUFFICES ASSUME manifest.by \in Drawers PROVE FieldsAsReturned
  BY DEF FieldsAsReturned
<1>1. PICK d \in Drawers : d = manifest.by
  OBVIOUS
<1>2. PICK names : names = {o.name : o \in manifest.lists}
  OBVIOUS
<1>3. /\ d \in DOMAIN asked /\ IsJob(asked[d]) /\ Whole(d) /\ names = Expected(d)
      /\ Len(listed[d]) = Cardinality(names)
  BY <1>1, <1>2, ListsExpected
<1> DEFINE Form(n) == {k \in 0..2 : <<n, k>> \in names}
           IsTensor(n) == n \in ToSet(asked[d].declared) \cup ToSet(TokenFields)
           IsLeftOut(n) == n = "latents" \/ (n = "audio" /\ Form("audios") \notin {{}, {0}})
<1>4. \A n \in Fields :
         /\ SavesTensor(d, n) => Form(n) = {0}
         /\ SavesMedia(d, n) => Form(n) = 1..asked[d].returned[n]
         /\ ~SavesTensor(d, n) /\ ~SavesMedia(d, n) => Form(n) = {}
  BY <1>3, FormsExpected
<1>5. /\ DOMAIN asked[d].returned \subseteq Fields
      /\ \A n \in DOMAIN asked[d].returned : asked[d].returned[n] \in 0..2
      /\ ToSet(asked[d].declared) \subseteq Fields
  <2>1. asked[d].declared \in Seq(Fields)
    BY <1>3 DEF IsJob
  <2>2. ToSet(asked[d].declared) \subseteq Fields
    BY ONLY <2>1 DEF ToSet
  <2>3. QED
    BY <1>3, <2>2 DEF IsJob
<1>6. /\ \A n \in Fields : n \in ToSet(asked[d].declared) => n \in DOMAIN asked[d].returned
      /\ \A n \in Fields : SavesMedia(d, n) => asked[d].returned[n] # 0
      /\ \E n \in Fields : SavesTensor(d, n) \/ SavesMedia(d, n)
      /\ ~Undeclared(d)
  BY <1>3 DEF Whole, IsDeclared, Returns
<1>7. \A n \in DOMAIN asked[d].returned : SavesTensor(d, n) <=> IsTensor(n)
  BY DEF SavesTensor, IsDeclared, Returns
<1>8. \A n : SavesTensor(d, n) => n \in ToSet(asked[d].declared) \/ n \in DOMAIN asked[d].returned
  BY DEF SavesTensor, IsDeclared, Returns
<1>9. \A n : SavesMedia(d, n) <=>
         /\ n \in ToSet(MediaFields) /\ n \in DOMAIN asked[d].returned /\ ~SavesTensor(d, n)
         /\ n = "audio" => ~("audios" \in DOMAIN asked[d].returned /\ ~SavesTensor(d, "audios"))
  BY DEF SavesMedia, Returns
<1>10. \A n \in Fields : n \in ToSet(MediaFields) \/ n \in ToSet(TokenFields) \/ n = "latents"
  BY DEF Fields
<1>11. "audios" \in Fields /\ "audio" \in Fields /\ "images" \in Fields /\ "latents" \in Fields
       /\ "audios" \in ToSet(MediaFields) /\ "audio" # "audios" /\ "latents" \notin ToSet(MediaFields)
       /\ "audio" \in ToSet(MediaFields) /\ "latents" # "audio"
  BY DEF Fields, ToSet, MediaFields
<1>12. \A n \in ToSet(asked[d].declared) : Form(n) = {0}
  BY <1>4, <1>5 DEF SavesTensor, IsDeclared
<1>13. \A n \in Fields \ DOMAIN asked[d].returned : Form(n) = {}
  BY <1>4, <1>6, <1>8, <1>9
<1>14. \A n \in Fields : SavesMedia(d, n) => 1 \in Form(n)
  BY <1>4, <1>5, <1>6, <1>9
<1>15. ASSUME NEW n \in DOMAIN asked[d].returned
       PROVE  /\ IsTensor(n) => Form(n) = {0}
              /\ ~IsTensor(n) /\ IsLeftOut(n) => Form(n) = {}
              /\ ~IsTensor(n) /\ ~IsLeftOut(n) => Form(n) = 1..asked[d].returned[n] /\ Form(n) # {}
  <2>0. n \in Fields
    BY <1>5
  <2>1. IsTensor(n) => Form(n) = {0}
    BY <1>4, <1>7, <2>0
  <2>2. ~IsTensor(n) /\ n = "latents" => Form(n) = {}
    BY <1>4, <1>7, <1>9, <1>11, <2>0
  <2>3. ~IsTensor(n) /\ n # "latents" => ~SavesTensor(d, n) /\ n \in ToSet(MediaFields)
    BY <1>7, <1>10, <2>0
  <2>4. Form("audios") \notin {{}, {0}} <=> "audios" \in DOMAIN asked[d].returned /\ ~SavesTensor(d, "audios")
    <3>1. CASE "audios" \in DOMAIN asked[d].returned /\ ~SavesTensor(d, "audios")
      <4>1. SavesMedia(d, "audios")
        BY <1>9, <1>11, <3>1
      <4>2. 1 \in Form("audios")
        BY <1>11, <1>14, <4>1
      <4>3. Form("audios") \notin {{}, {0}}
        BY <4>2
      <4>4. QED
        BY <3>1, <4>3
    <3>2. CASE ~("audios" \in DOMAIN asked[d].returned /\ ~SavesTensor(d, "audios"))
      <4>1. ~SavesMedia(d, "audios")
        BY <1>9, <3>2
      <4>2. Form("audios") \in {{}, {0}}
        BY <1>4, <1>11, <4>1
      <4>3. QED
        BY <3>2, <4>2
    <3>3. QED
      BY <3>1, <3>2
  <2>5. ASSUME ~IsTensor(n), n = "audio", Form("audios") \notin {{}, {0}}
        PROVE  Form(n) = {}
    <3>1. ~SavesTensor(d, n) /\ ~SavesMedia(d, n)
      BY <1>9, <1>11, <2>3, <2>4, <2>5
    <3>2. QED
      BY <1>4, <2>0, <3>1
  <2>6. ASSUME ~IsTensor(n), ~IsLeftOut(n)
        PROVE  Form(n) = 1..asked[d].returned[n] /\ Form(n) # {}
    <3>1. n # "latents" /\ (n = "audio" => Form("audios") \in {{}, {0}})
      BY <2>6
    <3>2. SavesMedia(d, n)
      BY <1>9, <2>3, <2>4, <2>6, <3>1
    <3>3. QED
      BY <1>4, <1>14, <2>0, <3>2
  <2>7. QED
    BY <2>1, <2>2, <2>5, <2>6
<1>16. names # {}
  <2>1. PICK n \in Fields : SavesTensor(d, n) \/ SavesMedia(d, n)
    BY <1>6
  <2>2. 0 \in Form(n) \/ 1 \in Form(n)
    BY <1>4, <1>14, <2>1
  <2>3. QED
    BY <2>2
<1>17. asked[d].latent => Form("images") \subseteq {0}
  <2>1. asked[d].latent => ~Returns(d, "images") \/ IsDeclared(d, "images")
    BY <1>6 DEF Undeclared
  <2>2. asked[d].latent => ~SavesMedia(d, "images")
    BY <2>1 DEF SavesMedia, SavesTensor
  <2>3. QED
    BY <1>4, <1>11, <2>2
<1>18. QED
  <2>1. \A n \in DOMAIN asked[d].returned :
             /\ IsTensor(n) => Form(n) = {0}
             /\ ~IsTensor(n) /\ IsLeftOut(n) => Form(n) = {}
             /\ ~IsTensor(n) /\ ~IsLeftOut(n) => Form(n) = 1..asked[d].returned[n] /\ Form(n) # {}
    BY <1>15
  <2>2. Len(listed[d]) = Cardinality(names)
    BY <1>3
  <2>3. QED
    BY ONLY <1>1, <1>2, <1>12, <1>13, <1>16, <1>17, <2>1, <2>2 DEF FieldsAsReturned

\* The files that a run read are those that its report names.
LEMMA SourcesTrue == ASSUME GenerationInv PROVE SourcesAsReported
<1> SUFFICES ASSUME NEW d \in DOMAIN asked, NEW f \in ReadFiles, IsPublishing(d) \/ ending[d] = "complete"
             PROVE  Verified(d, f)
  BY DEF SourcesAsReported, Verified
<1>1. Programs /\ Types /\ RunInv /\ SourceInv
  BY DEF GenerationInv
<1>2. PICK P, r, p : P = program[d] /\ r = ReadLength(d) /\ p = passed[d]
  OBVIOUS
<1>3. Len(P) \in Nat /\ r \in Nat /\ p \in Nat /\ r <= Len(P) /\ p <= Len(P)
  BY <1>1, <1>2, RunFacts
<1>4. r <= p
  <2>1. Inside(d) \/ p = Len(P)
    BY <1>1, <1>2, RunFacts DEF RunInv
  <2>2. QED
    BY <1>2, <1>3, <2>1 DEF Inside
<1>5. /\ Leaves(P, f) => loaded[d][f] = identity[d][f]
      /\ \A c \in 1..p : P[c] = <<"verify", f>> /\ (\E b \in 1..c : P[b] = <<"load", f>>) => Verified(d, f)
  BY <1>1, <1>2 DEF SourceInv, Kept
<1>6. Shape(P, asked[d], r)
  BY <1>1, <1>2 DEF Programs
<1>7. (Leaves(P, f) \/ Reads(P, f)) /\ \A i \in 1..Len(P) : P[i] \in Readings <=> i <= r
  BY <1>6 DEF Shape
<1>8. CASE Leaves(P, f)
  BY <1>5, <1>8 DEF Verified
<1>9. CASE Reads(P, f)
  <2>1. PICK a, b, c \in 1..Len(P) : ReadsAt(P, f, a, b, c)
    BY <1>9 DEF Reads
  <2>2. b < c /\ P[c] = <<"verify", f>> /\ P[b] = <<"load", f>>
    BY <2>1 DEF ReadsAt
  <2>3. P[c] \in Readings
    BY <2>2 DEF Readings, FileSteps
  <2>4. c \in 1..p /\ b \in 1..c
    BY <1>3, <1>4, <1>7, <2>2, <2>3
  <2>5. QED
    BY <1>5, <2>2, <2>4
<1>10. QED
  BY <1>7, <1>8, <1>9

\* The invariant is what is to be shown, and more.
LEMMA GenerationTruths == GenerationInv => GenerationIsTrue
<1> SUFFICES ASSUME GenerationInv PROVE GenerationIsTrue
  OBVIOUS
<1>1. Programs /\ Types /\ RunInv /\ ListInv /\ ManifestInv /\ LostInv
  BY DEF GenerationInv
<1>2. GenericTypeOK
  <2>1. \A d \in DOMAIN asked : passed[d] \in 0..Len(program[d])
    <3>1. \A d \in DOMAIN asked : Len(program[d]) \in Nat /\ passed[d] \in Nat /\ passed[d] <= Len(program[d])
      BY <1>1, RunFacts
    <3>2. QED
      BY <3>1
  <2>2. ASSUME NEW x \in Report
        PROVE  x.by \in Drawers \cup {Nothing, Other} /\ \A o \in x.lists : o.name \in OutputNames /\ o.of \in Drawers
    BY DEF Report, Entry
  <2>3. \A x \in {manifest} \cup {aside[d] : d \in Drawers} : x \in Report
    BY <1>1 DEF Types
  <2>4. ending \in [Drawers -> {"run", "complete", "failed"}] /\ source \in [ReadFiles -> State]
        /\ \A n \in OutputNames : place[n] \in Drawers \cup {Nothing, Other}
    BY <1>1 DEF Types
  <2>5. QED
    BY <2>1, <2>2, <2>3, <2>4 DEF GenericTypeOK, State
<1>3. ReportOfWhatIsThere
  <2>1. ASSUME NEW d \in Drawers, manifest.by = d, ~Overlapped(d), NEW o \in manifest.lists
        PROVE  place[o.name] = d /\ o.of = d
    <3>1. d \in DOMAIN asked /\ Holds(d) /\ manifest = Filed(d)
      BY <1>1, <2>1 DEF ManifestInv
    <3>2. o \in ToSet(listed[d])
      BY <3>1 DEF Filed
    <3>3. o.name \in OutputNames /\ Took(d, <<"save", o.name>>)
      BY <1>1, <3>1, <3>2, ListedFacts
    <3>4. QED
      BY <3>1, <3>2, <3>3 DEF Holds
  <2>2. QED
    BY <2>1 DEF ReportOfWhatIsThere
<1>4. NoReportLost
  <2>1. ASSUME NEW d \in DOMAIN asked, ending[d] = "complete", ~asked[d].preparing, ~Overlapped(d)
        PROVE  manifest.by = d \/ \E e \in Drawers : aside[e] = [by |-> d, lists |-> ToSet(listed[d])]
    <3>1. passed[d] = Len(program[d])
      BY <1>1, <2>1 DEF RunInv
    <3>2. manifest = Filed(d) \/ \E e \in Drawers : aside[e] = Filed(d)
      BY <1>1, <2>1, <3>1 DEF LostInv
    <3>3. QED
      BY <3>2 DEF Filed
  <2>2. QED
    BY <2>1 DEF NoReportLost
<1>5. QED
  BY <1>2, <1>3, <1>4, FieldsTrue, SourcesTrue DEF GenerationIsTrue

\* What a run leaves is what its report says, whatever runs there are, whatever they are asked and
\* return, and whatever else is run, changed or killed meanwhile.
THEOREM GenerationTrue == GenericSpec => []GenerationIsTrue
  BY GenerationInit, GenerationNext, GenerationTruths, PTL DEF GenericSpec
=============================================================================
