---------------------------- MODULE SessionProofs ---------------------------
(***************************************************************************)
(* Proofs about what the Python processes know of the files they use.      *)
(*                                                                         *)
(* FileIdentities: for any number of readers, files, contents and edits,   *)
(* what the caches and the database hold for a signature is the digest of  *)
(* what the file held under it (RecordsTrue); what is answered is of the   *)
(* file as it is, and weights that verify are those that were resolved     *)
(* (AnswersPresent).                                                       *)
(*                                                                         *)
(* InferenceSession: for any files, keys and requests, and for any number  *)
(* of states of a file, what is retained and what is published is of the   *)
(* files that a request names.                                             *)
(***************************************************************************)
EXTENDS FileIdentities, InferenceSession, FiniteSetTheorems, SequenceTheorems, TLAPS

(* The caches of identities. *)

Digests == SUBSET FileContents
Records == [of : HashedFiles, at : Nat, sum : Digests]

IdTypes ==
    /\ role \in Casts /\ role \in [Readers -> ReaderKinds \cup {"off"}] /\ metadata \in BOOLEAN
    /\ history \in [HashedFiles -> Seq(FileContents)] /\ \A f \in HashedFiles : Now(f) >= 1
    /\ table \in [Readers -> Seq(Records)]
    /\ rows \in [HashedFiles -> [at : Nat, sum : Digests]]

CallTypes ==
    call \in [Readers -> [of : HashedFiles, step : Calls, before : Nat, read : Digests,
                          result : SUBSET (FileContents \cup Nat)]]

WeightTypes ==
    weight \in [Readers -> [phase : Phases, sum : SUBSET (FileContents \cup Nat), loaded : Digests]]

\* A sequence of entries has one of a file.
Distinct(s) == \A i, j \in 1..Len(s) : s[i].of = s[j].of => i = j

\* An entry is the digest of what its file held under its signature; one of the native library,
\* which does not look again, only while the file is as it was.
EntryTrue(r, e) ==
    /\ e.at \in 1..Now(e.of)
    /\ role[r] # "native" => e.sum = {history[e.of][e.at]}
    /\ e.at = Now(e.of) => e.sum = Present(e.of)

EntriesTrue(r, s) == \A i \in 1..Len(s) : EntryTrue(r, s[i])

TableOK(r) == Len(table[r]) <= TableLimit /\ Distinct(table[r]) /\ EntriesTrue(r, table[r])

RowTrue(f) == rows[f] # NoRow => rows[f].at \in 1..Now(f) /\ rows[f].sum = {history[f][rows[f].at]}

\* A call holds what its file has now, unless it has changed since the call began.
CallOK(r) == LET f == call[r].of IN
    call[r].step # "idle" =>
        /\ call[r].before \in 1..Now(f)
        /\ call[r].step = "row" => role[r] = "digest"
        /\ call[r].step \in {"row", "half"} => call[r].read = {}
        /\ call[r].step = "found" => role[r] = "digest" /\ call[r].read = {history[f][call[r].before]}
        /\ call[r].step \in {"rest", "check"} /\ Now(f) = call[r].before => call[r].read = Present(f)
        /\ role[r] = "digest" => weight[r].phase \in {"free", "resolved", "loaded"}

\* The inductive invariant.
IdentityInv ==
    /\ IdTypes /\ CallTypes /\ WeightTypes
    /\ \A r \in Readers : TableOK(r) /\ CallOK(r)
    /\ \A f \in HashedFiles : RowTrue(f)

-----------------------------------------------------------------------------
(* The entries in memory. *)

\* What is left of a sequence without its k-th element.
LEMMA RemovedEntries ==
    ASSUME NEW S, NEW s \in Seq(S), NEW k \in 1..Len(s)
    PROVE  /\ RemoveAt(s, k) \in Seq(S) /\ Len(RemoveAt(s, k)) = Len(s) - 1
           /\ \A i \in 1..Len(s) - 1 : RemoveAt(s, k)[i] = IF i < k THEN s[i] ELSE s[i + 1]
<1> DEFINE left == SubSeq(s, 1, k - 1)
           right == SubSeq(s, k + 1, Len(s))
<1>1. k \in Nat /\ Len(s) \in Nat /\ 1 <= k /\ k <= Len(s)
  OBVIOUS
<1>2. left \in Seq(S) /\ Len(left) = k - 1 /\ \A i \in 1..k - 1 : left[i] = s[i]
  BY <1>1
<1>3. right \in Seq(S) /\ Len(right) = Len(s) - k /\ \A i \in 1..Len(s) - k : right[i] = s[k + i]
  BY <1>1
<1>4. RemoveAt(s, k) = left \o right
  BY DEF RemoveAt
<1> HIDE DEF left, right
<1>5. /\ left \o right \in Seq(S) /\ Len(left \o right) = Len(left) + Len(right)
      /\ \A i \in 1..Len(left) + Len(right) :
            (left \o right)[i] = IF i <= Len(left) THEN left[i] ELSE right[i - Len(left)]
  <2>1. left \in Seq(S) /\ right \in Seq(S)
    BY <1>2, <1>3
  <2>2. QED
    BY <2>1, ConcatProperties
<1>6. ASSUME NEW i \in 1..Len(s) - 1
      PROVE  (left \o right)[i] = IF i < k THEN s[i] ELSE s[i + 1]
  <2>1. i \in 1..Len(left) + Len(right)
    BY <1>1, <1>2, <1>3
  <2>2. CASE i < k
    BY <1>1, <1>2, <1>5, <2>1, <2>2
  <2>3. CASE k <= i
    <3>1. (left \o right)[i] = right[i - (k - 1)]
      BY <1>1, <1>2, <1>5, <2>1, <2>3
    <3>2. i - (k - 1) \in 1..Len(s) - k /\ k + (i - (k - 1)) = i + 1 /\ ~(i < k)
      BY <1>1, <2>3
    <3>3. right[i - (k - 1)] = s[k + (i - (k - 1))]
      BY <1>3, <3>2
    <3>4. QED
      BY <3>1, <3>2, <3>3
  <2>4. i < k \/ k <= i
    BY <1>1
  <2>5. QED
    BY <2>2, <2>3, <2>4
<1>7. Len(left \o right) = Len(s) - 1
  BY <1>1, <1>2, <1>3, <1>5
<1>8. QED
  BY <1>4, <1>5, <1>6, <1>7

\* What is left of a cache when the entry of a file is popped: entries it had, none of that file.
LEMMA WithoutFile ==
    ASSUME IdTypes, NEW r \in Readers, NEW f \in HashedFiles, Distinct(table[r])
    PROVE  /\ Without(r, f) \in Seq(Records) /\ Distinct(Without(r, f))
           /\ Len(Without(r, f)) <= Len(table[r])
           /\ \A i \in 1..Len(Without(r, f)) :
                 /\ Without(r, f)[i].of # f
                 /\ \E j \in 1..Len(table[r]) : Without(r, f)[i] = table[r][j]
<1>1. table[r] \in Seq(Records) /\ DOMAIN table[r] = 1..Len(table[r])
  BY DEF IdTypes
<1>2. CASE Places(r, f) = {}
  <2>1. Without(r, f) = table[r]
    BY <1>2 DEF Without
  <2>2. \A i \in 1..Len(table[r]) : table[r][i].of # f
    BY <1>1, <1>2 DEF Places
  <2>3. QED
    BY <1>1, <2>1, <2>2
<1>3. ASSUME NEW k \in Places(r, f), Without(r, f) = RemoveAt(table[r], k)
      PROVE  /\ Without(r, f) \in Seq(Records) /\ Distinct(Without(r, f))
             /\ Len(Without(r, f)) <= Len(table[r])
             /\ \A i \in 1..Len(Without(r, f)) :
                   /\ Without(r, f)[i].of # f
                   /\ \E j \in 1..Len(table[r]) : Without(r, f)[i] = table[r][j]
  <2> DEFINE w == RemoveAt(table[r], k)
  <2>1. k \in 1..Len(table[r]) /\ table[r][k].of = f /\ Len(table[r]) \in Nat
    BY <1>1 DEF Places
  <2>2. /\ w \in Seq(Records) /\ Len(w) = Len(table[r]) - 1
        /\ \A i \in 1..Len(table[r]) - 1 : w[i] = IF i < k THEN table[r][i] ELSE table[r][i + 1]
    BY <1>1, <2>1, RemovedEntries
  <2> HIDE DEF w
  <2>3. ASSUME NEW i \in 1..Len(w)
        PROVE  /\ w[i] = IF i < k THEN table[r][i] ELSE table[r][i + 1]
               /\ i \in 1..Len(table[r]) /\ i + 1 \in 1..Len(table[r])
    <3>1. i \in 1..Len(table[r]) - 1
      BY ONLY <2>2
    <3>2. i \in 1..Len(table[r]) /\ i + 1 \in 1..Len(table[r])
      BY ONLY <2>1, <3>1
    <3>3. QED
      BY ONLY <2>2, <3>1, <3>2
  <2>4. Distinct(w)
    <3> SUFFICES ASSUME NEW i \in 1..Len(w), NEW j \in 1..Len(w), w[i].of = w[j].of
                 PROVE  i = j
      BY DEF Distinct
    <3> DEFINE from(n) == IF n < k THEN n ELSE n + 1
    <3>1. from(i) \in 1..Len(table[r]) /\ from(j) \in 1..Len(table[r])
      BY <2>3
    <3>2. table[r][from(i)].of = table[r][from(j)].of
      BY <2>3
    <3>3. from(i) = from(j)
      BY <3>1, <3>2 DEF Distinct
    <3>4. QED
      BY <2>1, <3>3
  <2>5. \A i \in 1..Len(w) : w[i].of # f
    BY <2>1, <2>3 DEF Distinct
  <2>6. \A i \in 1..Len(w) : \E j \in 1..Len(table[r]) : w[i] = table[r][j]
    BY <2>1, <2>3
  <2>7. Without(r, f) = w
    BY <1>3 DEF w
  <2>8. QED
    BY <2>1, <2>2, <2>4, <2>5, <2>6, <2>7
<1>4. QED
  BY <1>2, <1>3 DEF Without

\* A true entry put behind the others leaves one entry a file, all of them true.
LEMMA AppendedEntry ==
    ASSUME IdTypes, NEW r \in Readers, NEW f \in HashedFiles, TableOK(r),
           NEW e \in Records, e.of = f, EntryTrue(r, e)
    PROVE  LET s == Append(Without(r, f), e) IN
           /\ s \in Seq(Records) /\ Distinct(s) /\ EntriesTrue(r, s) /\ Len(s) >= 1
           /\ Len(s) <= Len(table[r]) + 1
           /\ (\E i \in 1..Len(table[r]) : table[r][i].of = f) => Len(s) <= Len(table[r])
<1> DEFINE w == Without(r, f)
           s == Append(w, e)
<1>1. /\ w \in Seq(Records) /\ Distinct(w) /\ Len(w) <= Len(table[r])
      /\ \A i \in 1..Len(w) : w[i].of # f /\ \E j \in 1..Len(table[r]) : w[i] = table[r][j]
  BY WithoutFile DEF TableOK
<1>2. EntriesTrue(r, w)
  BY <1>1 DEF TableOK, EntriesTrue
<1>3. (\E i \in 1..Len(table[r]) : table[r][i].of = f) => Len(w) <= Len(table[r]) - 1
  <2> SUFFICES ASSUME \E i \in 1..Len(table[r]) : table[r][i].of = f
               PROVE  Len(w) <= Len(table[r]) - 1
    OBVIOUS
  <2>1. table[r] \in Seq(Records) /\ DOMAIN table[r] = 1..Len(table[r])
    BY DEF IdTypes
  <2>2. Places(r, f) # {}
    BY <2>1 DEF Places
  <2>3. PICK k \in Places(r, f) : w = RemoveAt(table[r], k)
    BY <2>2 DEF Without
  <2>4. k \in 1..Len(table[r])
    BY <2>1 DEF Places
  <2>5. QED
    BY <2>1, <2>3, <2>4, RemovedEntries
<1> HIDE DEF w
<1>4. /\ s \in Seq(Records) /\ Len(s) = Len(w) + 1 /\ s[Len(s)] = e
      /\ \A i \in 1..Len(w) : s[i] = w[i]
  BY <1>1
<1>5. \A i \in 1..Len(s) : i \in 1..Len(w) \/ i = Len(s)
  BY <1>1, <1>4
<1>6. Distinct(s)
  BY <1>1, <1>4, <1>5 DEF Distinct
<1>7. EntriesTrue(r, s)
  BY <1>2, <1>4, <1>5 DEF EntriesTrue
<1>8. table[r] \in Seq(Records) /\ Len(table[r]) \in Nat /\ Len(w) \in Nat
  BY <1>1 DEF IdTypes
<1>9. Len(s) <= Len(table[r]) + 1 /\ Len(s) >= 1
  BY <1>1, <1>4, <1>8
<1>10. (\E i \in 1..Len(table[r]) : table[r][i].of = f) => Len(s) <= Len(table[r])
  BY <1>3, <1>4, <1>8
<1>11. QED
  BY <1>4, <1>6, <1>7, <1>9, <1>10 DEF w

\* Eviction keeps entries it had, and the bound.
LEMMA EvictedEntries ==
    ASSUME NEW r \in Readers, NEW s \in Seq(Records), Len(s) >= 1, Len(s) <= TableLimit + 1,
           Distinct(s), EntriesTrue(r, s)
    PROVE  /\ Evicted(r, s) \in Seq(Records) /\ Len(Evicted(r, s)) <= TableLimit
           /\ Distinct(Evicted(r, s)) /\ EntriesTrue(r, Evicted(r, s))
<1>1. TableLimit \in Nat /\ TableLimit >= 1 /\ Len(s) \in Nat
  BY IdentityAssumption
<1>2. CASE Len(s) <= TableLimit
  BY <1>2 DEF Evicted
<1>3. CASE Len(s) > TableLimit /\ role[r] = "native"
  <2>1. Evicted(r, s) = <<s[Len(s)]>>
    BY <1>1, <1>3 DEF Evicted
  <2>2. s[Len(s)] \in Records /\ EntryTrue(r, s[Len(s)])
    BY <1>1 DEF EntriesTrue
  <2>3. \A i \in 1..Len(<<s[Len(s)]>>) : i = 1 /\ <<s[Len(s)]>>[i] = s[Len(s)]
    OBVIOUS
  <2>4. QED
    BY <1>1, <2>1, <2>2, <2>3 DEF Distinct, EntriesTrue
<1>4. CASE Len(s) > TableLimit /\ role[r] # "native"
  <2>1. Evicted(r, s) = Tail(s)
    BY <1>1, <1>4 DEF Evicted
  <2>2. /\ Tail(s) \in Seq(Records) /\ Len(Tail(s)) = Len(s) - 1
        /\ \A i \in 1..Len(Tail(s)) : Tail(s)[i] = s[i + 1] /\ i + 1 \in 1..Len(s)
    BY <1>1
  <2>3. Distinct(Tail(s))
    BY <1>1, <2>2 DEF Distinct
  <2>4. EntriesTrue(r, Tail(s))
    BY <2>2 DEF EntriesTrue
  <2>5. QED
    BY <1>1, <2>1, <2>2, <2>3, <2>4
<1>5. QED
  BY <1>1, <1>2, <1>3, <1>4

-----------------------------------------------------------------------------
(* Types. *)

\* A result that is used keeps the type of the weight, for which the reader is in the right phase.
LEMMA UseType ==
    ASSUME IdTypes, WeightTypes, NEW r \in Readers, NEW d \in SUBSET (FileContents \cup Nat), Use(r, d),
           role[r] = "digest" => weight[r].phase \in {"free", "resolved", "loaded"}
    PROVE  /\ WeightTypes'
           /\ \A q \in Readers \ {r} : weight'[q] = weight[q]
<1>1. CASE role[r] # "digest"
  BY <1>1 DEF Use, WeightTypes
<1>2. CASE role[r] = "digest"
  <2> DEFINE Weights == [phase : Phases, sum : SUBSET (FileContents \cup Nat), loaded : Digests]
  <2>1. weight[r] \in Weights
    BY DEF WeightTypes
  <2>2. PICK v \in Weights : weight' = [weight EXCEPT ![r] = v]
    <3>1. CASE weight[r].phase = "free"
      <4>1. weight' = [weight EXCEPT ![r] = [weight[r] EXCEPT !.phase = "resolved", !.sum = d]]
        BY <1>2, <3>1 DEF Use
      <4>2. [weight[r] EXCEPT !.phase = "resolved", !.sum = d] \in Weights
        BY <2>1 DEF Phases
      <4>3. QED
        BY <4>1, <4>2
    <3>2. CASE weight[r].phase = "resolved"
      <4> DEFINE next == IF d = weight[r].sum THEN "loading" ELSE "changed"
      <4>1. weight' = [weight EXCEPT ![r] = [weight[r] EXCEPT !.phase = next]]
        BY <1>2, <3>2 DEF Use
      <4>2. [weight[r] EXCEPT !.phase = next] \in Weights
        BY <2>1 DEF Phases
      <4>3. QED
        BY <4>1, <4>2
    <3>3. CASE weight[r].phase = "loaded"
      <4> DEFINE next == IF d = weight[r].sum THEN "same" ELSE "changed"
      <4>1. weight' = [weight EXCEPT ![r] = [weight[r] EXCEPT !.phase = next]]
        BY <1>2, <3>3 DEF Use
      <4>2. [weight[r] EXCEPT !.phase = next] \in Weights
        BY <2>1 DEF Phases
      <4>3. QED
        BY <4>1, <4>2
    <3>4. QED
      BY <1>2, <3>1, <3>2, <3>3
  <2>3. QED
    BY <2>2 DEF WeightTypes
<1>3. QED
  BY <1>1, <1>2

\* The calls of a reader that returns.
LEMMA ReturnType ==
    ASSUME CallTypes, NEW r \in Readers, NEW f \in HashedFiles, NEW d \in SUBSET (FileContents \cup Nat),
           Return(r, f, d)
    PROVE  /\ CallTypes' /\ call'[r].step = "idle" /\ call'[r].result = d
           /\ \A q \in Readers \ {r} : call'[q] = call[q]
<1> DEFINE c == [of |-> f, step |-> "idle", before |-> 0, read |-> {}, result |-> d]
           CallRecords == [of : HashedFiles, step : Calls, before : Nat, read : Digests,
                           result : SUBSET (FileContents \cup Nat)]
<1>1. c \in CallRecords
  BY DEF Calls, Digests
<1>2. call' = [call EXCEPT ![r] = c] /\ call \in [Readers -> CallRecords]
  BY DEF Return, CallTypes
<1>3. c.step = "idle" /\ c.result = d
  OBVIOUS
<1> HIDE DEF c, CallRecords
<1>4. call'[r] = c /\ call' \in [Readers -> CallRecords] /\ \A q \in Readers \ {r} : call'[q] = call[q]
  BY <1>1, <1>2
<1>5. QED
  BY <1>3, <1>4 DEF CallTypes, CallRecords

\* What a file holds is a set of one content.
LEMMA PresentType ==
    ASSUME IdTypes, NEW f \in HashedFiles
    PROVE  /\ Now(f) \in Nat /\ Now(f) >= 1 /\ history[f] \in Seq(FileContents)
           /\ \A k \in 1..Now(f) : history[f][k] \in FileContents
           /\ Present(f) = {history[f][Now(f)]} /\ Present(f) \in Digests
BY DEF IdTypes, Now, Present, Digests

-----------------------------------------------------------------------------
(* What other readers and files are left with. *)

\* What is true of an entry, a row and a call of a reader does not depend on the others.
LEMMA Untouched ==
    ASSUME IdTypes, CallTypes, role' = role, history' = history
    PROVE  /\ \A q \in Readers : \A e \in Records : EntryTrue(q, e) => EntryTrue(q, e)'
           /\ \A q \in Readers : TableOK(q) /\ table'[q] = table[q] => TableOK(q)'
           /\ \A q \in Readers : CallOK(q) /\ call'[q] = call[q] /\ weight'[q] = weight[q] => CallOK(q)'
           /\ \A f \in HashedFiles : RowTrue(f) /\ rows'[f] = rows[f] => RowTrue(f)'
<1>1. ASSUME NEW q \in Readers, NEW e
      PROVE  EntryTrue(q, e) => EntryTrue(q, e)'
  BY <1>1 DEF EntryTrue, Now, Present
<1>2. ASSUME NEW q \in Readers, TableOK(q), table'[q] = table[q]
      PROVE  TableOK(q)'
  BY <1>1, <1>2 DEF TableOK, EntriesTrue
<1>3. ASSUME NEW q \in Readers, CallOK(q), call'[q] = call[q], weight'[q] = weight[q]
      PROVE  CallOK(q)'
  BY <1>3 DEF CallOK, Now, Present
<1>4. ASSUME NEW f \in HashedFiles, RowTrue(f), rows'[f] = rows[f]
      PROVE  RowTrue(f)'
  BY <1>4 DEF RowTrue, Now
<1>5. QED
  BY <1>1, <1>2, <1>3, <1>4

\* A new table of true entries.
LEMMA TableAfter ==
    ASSUME role' = role, history' = history, NEW r \in Readers, NEW s \in Seq(Records),
           Distinct(s), EntriesTrue(r, s), Len(s) <= TableLimit, table'[r] = s
    PROVE  TableOK(r)'
<1>1. EntriesTrue(r, s)'
  BY DEF EntriesTrue, EntryTrue, Now, Present
<1>2. QED
  BY <1>1 DEF TableOK, EntriesTrue

\* A step of one reader keeps the invariant if it does so for that reader and for the rows.
LEMMA ReaderKeeps ==
    ASSUME IdentityInv, NEW r \in Readers, IdTypes', CallTypes', WeightTypes', UNCHANGED <<role, history>>,
           \A q \in Readers \ {r} : /\ table'[q] = table[q] /\ call'[q] = call[q]
                                    /\ weight'[q] = weight[q],
           TableOK(r)', CallOK(r)', \A f \in HashedFiles : RowTrue(f)'
    PROVE  IdentityInv'
<1>1. \A q \in Readers \ {r} : TableOK(q)' /\ CallOK(q)'
  BY Untouched DEF IdentityInv
<1>2. QED
  BY <1>1 DEF IdentityInv

-----------------------------------------------------------------------------
(* The steps. *)

\* An entry that is found is one of the table, and true.
LEMMA HitIsEntry ==
    ASSUME IdTypes, NEW r \in Readers, NEW f, NEW e \in Hits(r, f), TableOK(r)
    PROVE  /\ e \in Records /\ e.of = f /\ e.at = Now(f) /\ EntryTrue(r, e)
           /\ \E k \in 1..Len(table[r]) : e = table[r][k]
<1>1. table[r] \in Seq(Records) /\ DOMAIN table[r] = 1..Len(table[r])
  BY DEF IdTypes
<1>2. e \in Range(table[r]) /\ e.of = f /\ e.at = Now(f)
  BY DEF Hits, Entries
<1>3. PICK k \in 1..Len(table[r]) : e = table[r][k]
  BY <1>1, <1>2 DEF Range
<1>4. EntryTrue(r, table[r][k]) /\ table[r][k] \in Records
  BY <1>1 DEF TableOK, EntriesTrue
<1>5. QED
  BY <1>2, <1>3, <1>4

\* Asking for a file answers from memory, or begins to read it.
LEMMA AskKeeps ==
    ASSUME IdentityInv, NEW r \in Readers, NEW f \in HashedFiles, role[r] # "off", Ask(r, f)
    PROVE  IdentityInv'
<1>1. /\ UNCHANGED <<role, metadata, history, rows>> /\ call[r].step = "idle"
      /\ weight[r].phase \in {"free", "resolved", "loaded"}
      /\ IdTypes /\ CallTypes /\ WeightTypes /\ TableOK(r) /\ CallOK(r)
  BY DEF Ask, IdentityInv
<1>2. \A g \in HashedFiles : RowTrue(g)'
  BY <1>1, Untouched DEF IdentityInv
<1>3. CASE role[r] = "digest" /\ metadata
  <2>1. Return(r, f, {Now(f)}) /\ table' = table
    BY <1>3 DEF Ask
  <2>2. {Now(f)} \in SUBSET (FileContents \cup Nat)
    BY <1>1, PresentType
  <2>3. CallTypes' /\ call'[r].step = "idle" /\ \A q \in Readers \ {r} : call'[q] = call[q]
    BY <1>1, <2>1, <2>2, ReturnType
  <2>4. WeightTypes' /\ \A q \in Readers \ {r} : weight'[q] = weight[q]
    BY <1>1, <2>1, <2>2, UseType DEF Return
  <2>5. IdTypes' /\ TableOK(r)' /\ CallOK(r)'
    BY <1>1, <2>1, <2>3, Untouched DEF IdTypes, CallOK, Now
  <2>6. QED
    BY <1>1, <1>2, <2>1, <2>3, <2>4, <2>5, ReaderKeeps
<1>4. ASSUME ~(role[r] = "digest" /\ metadata), NEW e \in Hits(r, f),
             table' = [table EXCEPT ![r] = MovedToEnd(r, e)], Return(r, f, e.sum)
      PROVE  IdentityInv'
  <2>1. PICK k \in 1..Len(table[r]) : e = table[r][k]
    BY <1>1, HitIsEntry
  <2>2. e \in Records /\ e.of = f /\ EntryTrue(r, e)
    BY <1>1, HitIsEntry
  <2>3. e.sum \in SUBSET (FileContents \cup Nat)
    BY <2>2 DEF Records, Digests
  <2>4. CallTypes' /\ call'[r].step = "idle" /\ \A q \in Readers \ {r} : call'[q] = call[q]
    BY <1>1, <1>4, <2>3, ReturnType
  <2>5. WeightTypes' /\ \A q \in Readers \ {r} : weight'[q] = weight[q]
    BY <1>1, <1>4, <2>3, UseType DEF Return
  <2>6. MovedToEnd(r, e) \in Seq(Records) /\ Distinct(MovedToEnd(r, e)) /\ EntriesTrue(r, MovedToEnd(r, e))
        /\ Len(MovedToEnd(r, e)) <= TableLimit
    <3>1. CASE role[r] = "native"
      BY <1>1, <3>1 DEF MovedToEnd, TableOK, IdTypes
    <3>2. CASE role[r] # "native"
      <4>1. MovedToEnd(r, e) = Append(Without(r, f), e)
        BY <2>2, <3>2 DEF MovedToEnd
      <4>2. \E i \in 1..Len(table[r]) : table[r][i].of = f
        BY <2>1, <2>2
      <4>3. Len(Append(Without(r, f), e)) <= Len(table[r]) /\ Len(Append(Without(r, f), e)) \in Nat
        BY <1>1, <2>2, <4>2, AppendedEntry
      <4>4. Len(table[r]) <= TableLimit /\ Len(table[r]) \in Nat /\ TableLimit \in Nat
        BY <1>1, IdentityAssumption DEF TableOK, IdTypes
      <4>5. QED
        BY <1>1, <2>2, <4>1, <4>3, <4>4, AppendedEntry
    <3>3. QED
      BY <3>1, <3>2
  <2>7. table'[r] = MovedToEnd(r, e) /\ \A q \in Readers \ {r} : table'[q] = table[q]
    BY <1>1, <1>4 DEF IdTypes
  <2>8. IdTypes'
    BY <1>1, <1>4, <2>6 DEF IdTypes, Now
  <2>9. TableOK(r)'
    BY <1>1, <2>6, <2>7, TableAfter
  <2>10. CallOK(r)'
    BY <2>4 DEF CallOK
  <2>11. QED
    BY <1>1, <1>2, <2>4, <2>5, <2>7, <2>8, <2>9, <2>10, ReaderKeeps
<1>5. CASE ~(role[r] = "digest" /\ metadata) /\ Hits(r, f) = {}
  <2>1. /\ table' = [table EXCEPT ![r] = IF role[r] = "native" THEN @ ELSE Without(r, f)]
        /\ call' = [call EXCEPT ![r] = [@ EXCEPT !.of = f, !.before = Now(f), !.read = {},
                       !.step = IF role[r] = "digest" THEN "row" ELSE "half"]]
        /\ weight' = weight
    BY <1>5 DEF Ask
  <2> DEFINE next == IF role[r] = "digest" THEN "row" ELSE "half"
             c == [call[r] EXCEPT !.of = f, !.before = Now(f), !.read = {}, !.step = next]
             t == IF role[r] = "native" THEN table[r] ELSE Without(r, f)
  <2>2. Now(f) \in Nat /\ Now(f) >= 1
    BY <1>1, PresentType
  <2>3. /\ c \in [of : HashedFiles, step : Calls, before : Nat, read : Digests,
                  result : SUBSET (FileContents \cup Nat)]
        /\ c.of = f /\ c.before = Now(f) /\ c.read = {} /\ c.step = next
    BY <1>1, <2>2 DEF CallTypes, Calls, Digests
  <2>4. call'[r] = c /\ (\A q \in Readers \ {r} : call'[q] = call[q]) /\ CallTypes'
    <3> HIDE DEF next
    <3>1. call' = [call EXCEPT ![r] = c]
      BY <2>1 DEF next
    <3> HIDE DEF c
    <3>2. QED
      BY <1>1, <2>3, <3>1 DEF CallTypes
  <2>5. t \in Seq(Records) /\ Distinct(t) /\ EntriesTrue(r, t) /\ Len(t) <= TableLimit
    <3>1. CASE role[r] = "native"
      BY <1>1, <3>1 DEF TableOK, IdTypes
    <3>2. CASE role[r] # "native"
      <4>1. Distinct(table[r]) /\ Len(table[r]) \in Nat /\ TableLimit \in Nat /\ Len(table[r]) <= TableLimit
        BY <1>1, IdentityAssumption DEF TableOK, IdTypes
      <4>2. t \in Seq(Records) /\ Distinct(t) /\ Len(t) <= Len(table[r])
        BY <1>1, <3>2, <4>1, WithoutFile
      <4>3. EntriesTrue(r, t)
        BY <1>1, <3>2, <4>1, WithoutFile DEF TableOK, EntriesTrue
      <4>4. QED
        BY <4>1, <4>2, <4>3
    <3>3. QED
      BY <3>1, <3>2
  <2>6. table'[r] = t /\ (\A q \in Readers \ {r} : table'[q] = table[q]) /\ table' = [table EXCEPT ![r] = t]
    BY <1>1, <2>1 DEF IdTypes
  <2> HIDE DEF t
  <2>7. IdTypes'
    BY <1>1, <2>5, <2>6 DEF IdTypes, Now
  <2>8. TableOK(r)'
    BY <1>1, <2>5, <2>6, TableAfter
  <2>9. CallOK(r)'
    <3>1. Now(f)' = Now(f)
      BY <1>1 DEF Now
    <3>2. Now(f) \in 1..Now(f)
      BY <2>2
    <3>3. /\ call'[r].of = f /\ call'[r].before = Now(f) /\ call'[r].read = {}
          /\ call'[r].step = IF role[r] = "digest" THEN "row" ELSE "half"
      BY <2>3, <2>4
    <3>4. QED
      BY <1>1, <2>1, <3>1, <3>2, <3>3 DEF CallOK
  <2>10. WeightTypes' /\ \A q \in Readers \ {r} : weight'[q] = weight[q]
    BY <1>1, <2>1 DEF WeightTypes
  <2>11. \A q \in Readers \ {r} : table'[q] = table[q] /\ call'[q] = call[q] /\ weight'[q] = weight[q]
    BY <2>4, <2>6, <2>10
  <2>12. QED
    BY ONLY <1>1, <1>2, <2>4, <2>7, <2>8, <2>9, <2>10, <2>11, ReaderKeeps, IdentityInv
<1>6. QED
  BY <1>3, <1>4, <1>5 DEF Ask

\* A row of the database is of the file as it is, if it is found.
LEMMA LookUpKeeps ==
    ASSUME IdentityInv, NEW r \in Readers, LookUpRow(r)
    PROVE  IdentityInv'
<1> DEFINE f == call[r].of
           CallRecords == [of : HashedFiles, step : Calls, before : Nat, read : Digests,
                           result : SUBSET (FileContents \cup Nat)]
<1>1. /\ UNCHANGED <<role, metadata, history, table, rows, weight>> /\ call[r].step = "row"
      /\ IdTypes /\ CallTypes /\ WeightTypes /\ TableOK(r) /\ CallOK(r) /\ RowTrue(f)
      /\ call[r] \in CallRecords /\ rows[f] \in [at : Nat, sum : Digests]
  BY DEF LookUpRow, IdentityInv, CallTypes, IdTypes
<1>2. call[r].before \in 1..Now(f) /\ role[r] = "digest" /\ weight[r].phase \in {"free", "resolved", "loaded"}
  BY <1>1 DEF CallOK
<1>3. PICK c \in CallRecords :
         /\ call' = [call EXCEPT ![r] = c] /\ c.of = f /\ c.before = call[r].before
         /\ \/ c.step = "found" /\ c.read = rows[f].sum /\ rows[f].at = call[r].before
            \/ c.step = "half" /\ c.read = call[r].read
  <2>1. CASE /\ rows[f].at = call[r].before
             /\ call' = [call EXCEPT ![r] = [call[r] EXCEPT !.read = rows[f].sum, !.step = "found"]]
    <3> DEFINE c == [call[r] EXCEPT !.read = rows[f].sum, !.step = "found"]
    <3>1. c \in CallRecords /\ c.of = f /\ c.before = call[r].before /\ c.step = "found" /\ c.read = rows[f].sum
      BY <1>1 DEF Calls
    <3>2. QED
      BY <2>1, <3>1
  <2>2. CASE call' = [call EXCEPT ![r] = [call[r] EXCEPT !.step = "half"]]
    <3> DEFINE c == [call[r] EXCEPT !.step = "half"]
    <3>1. c \in CallRecords /\ c.of = f /\ c.before = call[r].before /\ c.step = "half" /\ c.read = call[r].read
      BY <1>1 DEF Calls
    <3>2. QED
      BY <2>2, <3>1
  <2>3. QED
    BY <2>1, <2>2 DEF LookUpRow
<1>4. call'[r] = c /\ (\A q \in Readers \ {r} : call'[q] = call[q]) /\ CallTypes'
  BY <1>1, <1>3 DEF CallTypes
<1>5. IdTypes' /\ WeightTypes' /\ TableOK(r)' /\ \A g \in HashedFiles : RowTrue(g)'
  BY <1>1, Untouched DEF IdTypes, WeightTypes, Now, IdentityInv
<1>6. CallOK(r)'
  <2>1. c.step = "found" => c.read = {history[f][call[r].before]}
    BY <1>2, <1>3, <1>1 DEF RowTrue, NoRow
  <2>2. c.step = "half" => c.read = {}
    BY <1>1, <1>3 DEF CallOK
  <2>3. \A g \in HashedFiles : Now(g)' = Now(g)
    BY <1>1 DEF Now
  <2>4. QED
    BY <1>1, <1>2, <1>3, <1>4, <2>1, <2>2, <2>3 DEF CallOK
<1>7. \A q \in Readers \ {r} : table'[q] = table[q] /\ call'[q] = call[q] /\ weight'[q] = weight[q]
  BY <1>1, <1>4
<1>8. QED
  BY ONLY <1>1, <1>4, <1>5, <1>6, <1>7, ReaderKeeps, IdentityInv

\* What is read of a file is its one content, if it stays as it is.
LEMMA ReadKeeps ==
    ASSUME IdentityInv, NEW r \in Readers, ReadPart(r)
    PROVE  IdentityInv'
<1> DEFINE f == call[r].of
           CallRecords == [of : HashedFiles, step : Calls, before : Nat, read : Digests,
                           result : SUBSET (FileContents \cup Nat)]
           next == IF call[r].step = "half" THEN "rest" ELSE "check"
           c == [call[r] EXCEPT !.read = call[r].read \cup Present(f), !.step = next]
<1>1. /\ UNCHANGED <<role, metadata, history, table, rows, weight>> /\ call[r].step \in {"half", "rest"}
      /\ IdTypes /\ CallTypes /\ WeightTypes /\ TableOK(r) /\ CallOK(r)
      /\ call[r] \in CallRecords
  BY DEF ReadPart, IdentityInv, CallTypes
<1>2. call[r].before \in 1..Now(f) /\ (role[r] = "digest" => weight[r].phase \in {"free", "resolved", "loaded"})
  BY <1>1 DEF CallOK
<1>3. Now(f) = call[r].before => call[r].read \cup Present(f) = Present(f)
  BY <1>1 DEF CallOK
<1>4. /\ c \in CallRecords /\ c.of = f /\ c.before = call[r].before /\ c.step \in {"rest", "check"}
      /\ c.read = call[r].read \cup Present(f)
  <2>1. call[r].read \cup Present(f) \in Digests
    BY <1>1, PresentType DEF Digests
  <2>2. QED
    BY <1>1, <2>1 DEF Calls
<1>5. call'[r] = c /\ (\A q \in Readers \ {r} : call'[q] = call[q]) /\ CallTypes'
  <2>1. call' = [call EXCEPT ![r] = c]
    <3>1. call' = [call EXCEPT ![r] = [call[r] EXCEPT !.read = call[r].read \cup Present(f),
                                          !.step = IF call[r].step = "half" THEN "rest" ELSE "check"]]
      BY <1>1 DEF ReadPart
    <3>2. QED
      BY <3>1
  <2> HIDE DEF c
  <2>2. QED
    BY <1>1, <1>4, <2>1 DEF CallTypes
<1>6. IdTypes' /\ WeightTypes' /\ TableOK(r)' /\ \A g \in HashedFiles : RowTrue(g)'
  BY <1>1, Untouched DEF IdTypes, WeightTypes, Now, IdentityInv
<1>7. CallOK(r)'
  <2>1. \A g \in HashedFiles : Now(g)' = Now(g) /\ Present(g)' = Present(g)
    BY <1>1 DEF Now, Present
  <2> HIDE DEF c
  <2>2. QED
    BY <1>1, <1>2, <1>3, <1>4, <1>5, <2>1 DEF CallOK, Now, Present
<1>8. \A q \in Readers \ {r} : table'[q] = table[q] /\ call'[q] = call[q] /\ weight'[q] = weight[q]
  BY <1>1, <1>5
<1>9. QED
  BY ONLY <1>1, <1>5, <1>6, <1>7, <1>8, ReaderKeeps, IdentityInv

\* A digest is stored under the signature taken before the file was read: by a reader that looks
\* again, only if the file has it still.
LEMMA ConcludeKeeps ==
    ASSUME IdentityInv, NEW r \in Readers, Conclude(r)
    PROVE  IdentityInv'
<1>1. /\ UNCHANGED <<role, metadata, history>> /\ call[r].step \in {"found", "check"}
      /\ IdTypes /\ CallTypes /\ WeightTypes /\ TableOK(r) /\ CallOK(r)
      /\ call[r] \in [of : HashedFiles, step : Calls, before : Nat, read : Digests,
                      result : SUBSET (FileContents \cup Nat)]
      /\ weight[r] \in [phase : Phases, sum : SUBSET (FileContents \cup Nat), loaded : Digests]
  BY DEF Conclude, IdentityInv, CallTypes, WeightTypes
<1>2. PICK f \in HashedFiles, d \in Digests, at \in Nat :
         f = call[r].of /\ d = call[r].read /\ at = call[r].before
  BY <1>1
<1>3. at \in 1..Now(f) /\ (role[r] = "digest" => weight[r].phase \in {"free", "resolved", "loaded"})
  BY <1>1, <1>2 DEF CallOK
<1>4. \A g \in HashedFiles : Now(g)' = Now(g) /\ Present(g)' = Present(g)
  BY <1>1 DEF Now, Present
<1>5. CASE /\ call' = [call EXCEPT ![r] = [call[r] EXCEPT !.step = "idle", !.result = {}]]
           /\ weight' = [weight EXCEPT ![r].phase =
                            IF role[r] = "digest" THEN "changed" ELSE weight[r].phase]
           /\ UNCHANGED <<table, rows>>
  <2> DEFINE c == [call[r] EXCEPT !.step = "idle", !.result = {}]
             w == [weight[r] EXCEPT !.phase = IF role[r] = "digest" THEN "changed" ELSE weight[r].phase]
  <2>1. c.step = "idle" /\ c \in [of : HashedFiles, step : Calls, before : Nat, read : Digests,
                                  result : SUBSET (FileContents \cup Nat)]
    BY <1>1 DEF Calls
  <2>2. w \in [phase : Phases, sum : SUBSET (FileContents \cup Nat), loaded : Digests]
    BY <1>1 DEF Phases
  <2>3. call' = [call EXCEPT ![r] = c] /\ weight' = [weight EXCEPT ![r] = w]
    BY <1>1, <1>5 DEF CallTypes, WeightTypes
  <2> HIDE DEF c, w
  <2>4. call'[r] = c /\ (\A q \in Readers \ {r} : call'[q] = call[q]) /\ CallTypes'
    BY <1>1, <2>1, <2>3 DEF CallTypes
  <2>5. (\A q \in Readers \ {r} : weight'[q] = weight[q]) /\ WeightTypes'
    BY <1>1, <2>2, <2>3 DEF WeightTypes
  <2>6. IdTypes' /\ TableOK(r)' /\ \A g \in HashedFiles : RowTrue(g)'
    BY <1>1, <1>5, Untouched DEF IdTypes, Now, IdentityInv
  <2>7. CallOK(r)'
    BY <2>1, <2>4 DEF CallOK
  <2>8. \A q \in Readers \ {r} : table'[q] = table[q] /\ call'[q] = call[q] /\ weight'[q] = weight[q]
    BY <1>5, <2>4, <2>5
  <2>9. QED
    BY ONLY <1>1, <2>4, <2>5, <2>6, <2>7, <2>8, ReaderKeeps, IdentityInv
<1>6. CASE /\ Still(r) /\ Keep(r, f, d) /\ Return(r, f, d)
           /\ table' = [table EXCEPT ![r] = Evicted(r, Append(Without(r, f), Entry(f, at, d)))]
  <2> DEFINE e == Entry(f, at, d)
             s == Append(Without(r, f), e)
  <2>1. e \in Records /\ e.of = f /\ e.at = at /\ e.sum = d
    BY <1>1 DEF Entry, Records
  <2>2. EntryTrue(r, e)
    <3>1. Now(f) = at => d = Present(f)
      BY <1>1, <1>2, <1>3, PresentType DEF CallOK
    <3>2. role[r] # "native" => Now(f) = at
      BY <1>2, <1>6 DEF Still
    <3>3. Present(f) = {history[f][Now(f)]}
      BY <1>1, PresentType
    <3>4. QED
      BY <1>3, <2>1, <3>1, <3>2, <3>3 DEF EntryTrue
  <2>3. /\ s \in Seq(Records) /\ Distinct(s) /\ EntriesTrue(r, s) /\ Len(s) >= 1
        /\ Len(s) <= Len(table[r]) + 1
    BY <1>1, <2>1, <2>2, AppendedEntry
  <2>4. Len(s) <= TableLimit + 1
    <3>1. Len(table[r]) <= TableLimit /\ Len(table[r]) \in Nat /\ TableLimit \in Nat /\ Len(s) \in Nat
      BY <1>1, <2>3, IdentityAssumption DEF TableOK, IdTypes
    <3>2. QED
      BY <2>3, <3>1
  <2> DEFINE t == Evicted(r, s)
  <2>5. t \in Seq(Records) /\ Len(t) <= TableLimit /\ Distinct(t) /\ EntriesTrue(r, t)
    BY <2>3, <2>4, EvictedEntries
  <2>6. table' = [table EXCEPT ![r] = t]
    BY <1>6
  <2> HIDE DEF t, s, e
  <2>7. table'[r] = t /\ (\A q \in Readers \ {r} : table'[q] = table[q]) /\ table' \in [Readers -> Seq(Records)]
    BY <1>1, <2>5, <2>6 DEF IdTypes
  <2>8. TableOK(r)'
    BY <1>1, <2>5, <2>7, TableAfter
  <2>9. d \in SUBSET (FileContents \cup Nat)
    BY <1>2 DEF Digests
  <2>10. CallTypes' /\ call'[r].step = "idle" /\ \A q \in Readers \ {r} : call'[q] = call[q]
    BY <1>1, <1>6, <2>9, ReturnType
  <2>11. WeightTypes' /\ \A q \in Readers \ {r} : weight'[q] = weight[q]
    BY <1>1, <1>3, <1>6, <2>9, UseType DEF Return
  <2>12. rows' \in [HashedFiles -> [at : Nat, sum : Digests]] /\ \A g \in HashedFiles : RowTrue(g)'
    <3>1. CASE rows' = rows
      BY <1>1, <3>1, Untouched DEF IdentityInv, IdTypes
    <3>2. CASE rows' = [rows EXCEPT ![f] = [at |-> at, sum |-> d]] /\ role[r] = "digest"
      <4>1. [at |-> at, sum |-> d] \in [at : Nat, sum : Digests]
        BY <1>2
      <4>2. rows' \in [HashedFiles -> [at : Nat, sum : Digests]]
        BY <1>1, <3>2, <4>1 DEF IdTypes
      <4>3. rows'[f] = [at |-> at, sum |-> d] /\ \A g \in HashedFiles \ {f} : rows'[g] = rows[g]
        BY <1>1, <3>2 DEF IdTypes
      <4>4. d = {history[f][at]}
        BY <2>1, <2>2, <3>2 DEF EntryTrue
      <4>5. RowTrue(f)'
        BY <1>1, <1>3, <1>4, <4>3, <4>4 DEF RowTrue
      <4>6. \A g \in HashedFiles \ {f} : RowTrue(g)'
        BY <1>1, <4>3, Untouched DEF IdentityInv
      <4>7. QED
        BY <4>2, <4>5, <4>6
    <3>3. QED
      BY <1>2, <1>6, <3>1, <3>2 DEF Keep
  <2>13. IdTypes'
    BY <1>1, <2>7, <2>12 DEF IdTypes, Now
  <2>14. CallOK(r)'
    BY <2>10 DEF CallOK
  <2>15. \A q \in Readers \ {r} : table'[q] = table[q] /\ call'[q] = call[q] /\ weight'[q] = weight[q]
    BY <2>7, <2>10, <2>11
  <2>16. QED
    BY ONLY <1>1, <2>8, <2>10, <2>11, <2>12, <2>13, <2>14, <2>15, ReaderKeeps, IdentityInv
<1>7. QED
  BY <1>2, <1>5, <1>6 DEF Conclude, Stamp

\* Loading a weight, and forgetting one, touch no cache.
LEMMA WeightKeeps ==
    ASSUME IdentityInv, NEW r \in Readers, LoadWeight(r) \/ Forget(r)
    PROVE  IdentityInv'
<1>1. /\ UNCHANGED <<role, metadata, history, table, rows>>
      /\ IdTypes /\ CallTypes /\ WeightTypes /\ TableOK(r) /\ CallOK(r)
      /\ call[r] \in [of : HashedFiles, step : Calls, before : Nat, read : Digests,
                      result : SUBSET (FileContents \cup Nat)]
      /\ weight[r] \in [phase : Phases, sum : SUBSET (FileContents \cup Nat), loaded : Digests]
  BY DEF LoadWeight, Forget, IdentityInv, CallTypes, WeightTypes
<1>2. IdTypes' /\ TableOK(r)' /\ \A g \in HashedFiles : RowTrue(g)'
  BY <1>1, Untouched DEF IdTypes, Now, IdentityInv
<1>3. \A g \in HashedFiles : Now(g)' = Now(g) /\ Present(g)' = Present(g)
  BY <1>1 DEF Now, Present
<1>4. CASE LoadWeight(r)
  <2>1. PICK next \in {"loading", "loaded"} :
           weight' = [weight EXCEPT ![r].phase = next, ![r].loaded = @ \cup Present(call[r].of)]
    BY <1>4 DEF LoadWeight
  <2> DEFINE w == [weight[r] EXCEPT !.phase = next, !.loaded = weight[r].loaded \cup Present(call[r].of)]
  <2>2. w \in [phase : Phases, sum : SUBSET (FileContents \cup Nat), loaded : Digests]
    <3>1. weight[r].loaded \cup Present(call[r].of) \in Digests
      BY <1>1, PresentType DEF Digests
    <3>2. QED
      BY <1>1, <3>1 DEF Phases
  <2>3. weight' = [weight EXCEPT ![r] = w]
    BY <1>1, <2>1 DEF WeightTypes
  <2> HIDE DEF w
  <2>4. (\A q \in Readers \ {r} : weight'[q] = weight[q]) /\ WeightTypes'
    BY <1>1, <2>2, <2>3 DEF WeightTypes
  <2>5. call' = call /\ weight[r].phase = "loading"
    BY <1>4 DEF LoadWeight
  <2>6. CallTypes' /\ CallOK(r)'
    <3>1. role[r] = "digest" => call[r].step = "idle"
      BY <1>1, <2>5 DEF CallOK
    <3>2. QED
      BY <1>1, <1>3, <2>5, <3>1 DEF CallTypes, CallOK
  <2>7. \A q \in Readers \ {r} : table'[q] = table[q] /\ call'[q] = call[q] /\ weight'[q] = weight[q]
    BY <1>1, <2>4, <2>5
  <2>8. QED
    BY ONLY <1>1, <1>2, <2>4, <2>6, <2>7, ReaderKeeps, IdentityInv
<1>5. CASE Forget(r)
  <2> DEFINE w == [phase |-> "free", sum |-> {}, loaded |-> {}]
             c == [call[r] EXCEPT !.result = {}]
  <2>1. w \in [phase : Phases, sum : SUBSET (FileContents \cup Nat), loaded : Digests]
    BY DEF Phases, Digests
  <2>2. /\ c \in [of : HashedFiles, step : Calls, before : Nat, read : Digests,
                  result : SUBSET (FileContents \cup Nat)]
        /\ c.of = call[r].of /\ c.step = call[r].step /\ c.before = call[r].before /\ c.read = call[r].read
    BY <1>1
  <2>3. /\ weight' = [weight EXCEPT ![r] = w] /\ call' = [call EXCEPT ![r] = c]
        /\ weight[r].phase \in {"same", "changed"}
    BY <1>1, <1>5 DEF Forget, CallTypes
  <2>4. w.phase = "free"
    OBVIOUS
  <2> HIDE DEF w, c
  <2>5. weight'[r] = w /\ (\A q \in Readers \ {r} : weight'[q] = weight[q]) /\ WeightTypes'
    BY <1>1, <2>1, <2>3 DEF WeightTypes
  <2>6. call'[r] = c /\ (\A q \in Readers \ {r} : call'[q] = call[q]) /\ CallTypes'
    BY <1>1, <2>2, <2>3 DEF CallTypes
  <2>7. CallOK(r)'
    BY <1>1, <1>3, <2>2, <2>4, <2>5, <2>6 DEF CallOK
  <2>8. \A q \in Readers \ {r} : table'[q] = table[q] /\ call'[q] = call[q] /\ weight'[q] = weight[q]
    BY <1>1, <2>5, <2>6
  <2>9. QED
    BY ONLY <1>1, <1>2, <2>5, <2>6, <2>7, <2>8, ReaderKeeps, IdentityInv
<1>6. QED
  BY <1>4, <1>5

\* An edit takes the signature away from everything that is remembered or read of the file, and
\* what the file held before stays in its history.
LEMMA AlterKeeps ==
    ASSUME IdentityInv, NEW f \in HashedFiles, NEW c \in FileContents, Alter(f, c)
    PROVE  IdentityInv'
<1>1. /\ UNCHANGED <<role, metadata, table, rows, call, weight>>
      /\ history' = [history EXCEPT ![f] = Append(history[f], c)]
      /\ IdTypes /\ CallTypes /\ WeightTypes
  BY DEF Alter, IdentityInv
<1>2. /\ history[f] \in Seq(FileContents) /\ history'[f] = Append(history[f], c)
      /\ \A g \in HashedFiles \ {f} : history'[g] = history[g]
      /\ history' \in [HashedFiles -> Seq(FileContents)]
  BY <1>1 DEF IdTypes
<1>3. ASSUME NEW g \in HashedFiles, NEW k \in 1..Len(history[g])
      PROVE  /\ k \in 1..Len(history'[g]) /\ history'[g][k] = history[g][k]
             /\ k = Len(history'[g]) => history'[g] = history[g]
  <2>1. CASE g = f
    <3>1. /\ Len(history'[f]) = Len(history[f]) + 1 /\ Len(history[f]) \in Nat
          /\ \A i \in 1..Len(history[f]) : history'[f][i] = history[f][i]
      BY <1>2
    <3>2. QED
      BY <2>1, <3>1
  <2>2. CASE g # f
    BY <1>2, <2>2
  <2>3. QED
    BY <2>1, <2>2
<1>4. \A g \in HashedFiles : Len(history'[g]) \in Nat /\ Len(history'[g]) >= 1
  <2>1. ASSUME NEW g \in HashedFiles
        PROVE  Len(history[g]) \in Nat /\ Len(history[g]) >= 1 /\ Len(history'[g]) \in Nat
    BY <1>1, <1>2 DEF IdTypes, Now
  <2>2. \A g \in HashedFiles : 1 \in 1..Len(history[g])
    BY <2>1
  <2>3. QED
    BY <1>3, <2>1, <2>2
<1>5. IdTypes'
  BY <1>1, <1>2, <1>4 DEF IdTypes, Now
<1>6. ASSUME NEW r \in Readers
      PROVE  TableOK(r)'
  <2>1. TableOK(r) /\ table[r] \in Seq(Records)
    BY <1>1 DEF IdentityInv, IdTypes
  <2>2. ASSUME NEW i \in 1..Len(table[r])
        PROVE  EntryTrue(r, table[r][i])'
    <3>1. PICK e \in Records : e = table[r][i]
      BY <2>1
    <3>2. EntryTrue(r, e)
      BY <2>1, <3>1 DEF TableOK, EntriesTrue
    <3>3. e.of \in HashedFiles
      BY DEF Records
    <3>4. e.at \in 1..Len(history[e.of])
      BY <3>2 DEF EntryTrue, Now
    <3>5. /\ e.at \in 1..Len(history'[e.of]) /\ history'[e.of][e.at] = history[e.of][e.at]
          /\ e.at = Len(history'[e.of]) => history'[e.of] = history[e.of]
      BY ONLY <1>3, <3>3, <3>4
    <3>6. EntryTrue(r, e)'
      BY ONLY <1>1, <3>2, <3>5 DEF EntryTrue, Now, Present
    <3>7. table'[r][i] = e
      BY <1>1, <3>1
    <3>8. QED
      BY <3>6, <3>7 DEF EntryTrue, Now, Present
  <2>3. EntriesTrue(r, table[r])'
    BY <1>1, <2>2 DEF EntriesTrue
  <2>4. QED
    BY <1>1, <2>1, <2>3 DEF TableOK
<1>7. ASSUME NEW r \in Readers
      PROVE  CallOK(r)'
  <2>1. CallOK(r)
    BY DEF IdentityInv
  <2>2. PICK g \in HashedFiles, at \in Nat : g = call[r].of /\ at = call[r].before
    BY <1>1 DEF CallTypes
  <2>3. at \in 1..Len(history[g]) => /\ at \in 1..Len(history'[g]) /\ history'[g][at] = history[g][at]
                                     /\ at = Len(history'[g]) => history'[g] = history[g]
    BY <1>3
  <2>4. call'[r] = call[r] /\ role'[r] = role[r] /\ weight'[r] = weight[r]
    BY <1>1
  <2>5. QED
    BY ONLY <2>1, <2>2, <2>3, <2>4 DEF CallOK, Now, Present
<1>8. ASSUME NEW g \in HashedFiles
      PROVE  RowTrue(g)'
  <2>1. RowTrue(g)
    BY DEF IdentityInv
  <2>2. QED
    BY ONLY <1>1, <1>3, <2>1 DEF RowTrue, Now
<1>9. QED
  BY <1>1, <1>5, <1>6, <1>7, <1>8 DEF IdentityInv, CallTypes, WeightTypes

-----------------------------------------------------------------------------
(* The invariant, and what it says. *)

\* Nothing has been read yet.
LEMMA InitInv ==
    IdentityInit => IdentityInv
<1> SUFFICES ASSUME IdentityInit
             PROVE  IdentityInv
  OBVIOUS
<1>1. PICK c \in FileContents : history = [f \in HashedFiles |-> <<c>>]
  BY DEF IdentityInit
<1>2. \A f \in HashedFiles : history[f] \in Seq(FileContents) /\ Now(f) = 1
  BY <1>1 DEF Now
<1>3. role \in [Readers -> ReaderKinds \cup {"off"}]
  BY IdentityAssumption DEF IdentityInit
<1>4. rows \in [HashedFiles -> [at : Nat, sum : Digests]]
  BY DEF IdentityInit, NoRow, Digests
<1>5. IdTypes
  BY <1>1, <1>2, <1>3, <1>4 DEF IdentityInit, IdTypes
<1>6. CallTypes
  <2>1. (CHOOSE f \in HashedFiles : TRUE) \in HashedFiles
    BY IdentityAssumption
  <2>2. QED
    BY <2>1 DEF IdentityInit, CallTypes, Calls, Digests
<1>7. WeightTypes
  BY DEF IdentityInit, WeightTypes, Phases, Digests
<1>8. ASSUME NEW r \in Readers
      PROVE  TableOK(r) /\ CallOK(r)
  <2>1. table[r] = <<>> /\ call[r].step = "idle"
    BY DEF IdentityInit
  <2>2. QED
    BY <2>1, IdentityAssumption DEF TableOK, Distinct, EntriesTrue, CallOK
<1>9. \A f \in HashedFiles : RowTrue(f)
  BY DEF IdentityInit, RowTrue
<1>10. QED
  BY <1>5, <1>6, <1>7, <1>8, <1>9 DEF IdentityInv

\* Every step keeps the invariant.
LEMMA NextInv ==
    IdentityInv /\ [IdentityNext]_identityVars => IdentityInv'
<1> SUFFICES ASSUME IdentityInv, [IdentityNext]_identityVars
             PROVE  IdentityInv'
  OBVIOUS
<1>1. ASSUME NEW r \in Readers
      PROVE  role[r] # "off" => Reads[role[r]] \subseteq HashedFiles
  BY IdentityAssumption DEF IdentityInv, IdTypes
<1>2. ASSUME NEW r \in Readers, LookUpRow(r) \/ ReadPart(r) \/ Conclude(r) \/ LoadWeight(r) \/ Forget(r)
      PROVE  IdentityInv'
  BY <1>2, LookUpKeeps, ReadKeeps, ConcludeKeeps, WeightKeeps
<1>3. ASSUME NEW r \in Readers, role[r] # "off", NEW f \in Reads[role[r]], Ask(r, f)
      PROVE  IdentityInv'
  BY <1>1, <1>3, AskKeeps
<1>4. ASSUME NEW r \in Readers, role[r] # "off", NEW c \in FileContents, NEW f \in Reads[role[r]], Alter(f, c)
      PROVE  IdentityInv'
  BY <1>1, <1>4, AlterKeeps
<1>5. CASE UNCHANGED identityVars
  <2>1. UNCHANGED <<role, metadata, history, table, rows, call, weight>>
    BY <1>5 DEF identityVars
  <2>2. IdTypes' /\ CallTypes' /\ WeightTypes'
    BY <2>1 DEF IdentityInv, IdTypes, CallTypes, WeightTypes, Now
  <2>3. (\A r \in Readers : TableOK(r)' /\ CallOK(r)') /\ \A f \in HashedFiles : RowTrue(f)'
    BY <2>1, Untouched DEF IdentityInv
  <2>4. QED
    BY <2>2, <2>3 DEF IdentityInv
<1>6. QED
  BY <1>2, <1>3, <1>4, <1>5 DEF IdentityNext

\* A cache with one entry a file has as many entries as it has files.
LEMMA EntriesCounted ==
    ASSUME IdTypes, NEW r \in Readers, Distinct(table[r])
    PROVE  Cardinality({e.of : e \in Entries(r)}) = Len(table[r])
<1> DEFINE n == Len(table[r])
           files == {e.of : e \in Entries(r)}
           file == [i \in 1..n |-> table[r][i].of]
<1>1. table[r] \in Seq(Records) /\ DOMAIN table[r] = 1..n /\ n \in Nat
  BY DEF IdTypes
<1>2. Entries(r) = {table[r][i] : i \in 1..n}
  BY <1>1 DEF Entries, Range
<1>3. \A x \in files : \E i \in 1..n : file[i] = x
  BY <1>2
<1>4. file \in [1..n -> files]
  BY <1>2
<1>5. \A i, j \in 1..n : file[i] = file[j] => i = j
  BY DEF Distinct
<1>6. file \in Bijection(1..n, files)
  <2> HIDE DEF file, files, n
  <2>1. file \in Injection(1..n, files)
    <3>1. DOMAIN file = 1..n
      BY <1>4
    <3>2. QED
      BY ONLY <1>4, <1>5, <3>1 DEF Injection, IsInjective
  <2>2. file \in Surjection(1..n, files)
    BY ONLY <1>3, <1>4 DEF Surjection
  <2>3. QED
    BY <2>1, <2>2 DEF Bijection
<1>7. IsFiniteSet(1..n) /\ Cardinality(1..n) = n
  BY <1>1, FS_Interval
<1>8. ExistsBijection(1..n, files)
  BY <1>6 DEF ExistsBijection
<1>9. QED
  BY <1>7, <1>8, FS_Bijection

\* The invariant says what the caches and the database are for.
LEMMA RecordsHold ==
    IdentityInv => RecordsAreTrue
<1> SUFFICES ASSUME IdentityInv
             PROVE  RecordsAreTrue
  OBVIOUS
<1>1. ASSUME NEW r \in Readers, NEW e \in Entries(r)
      PROVE  EntryTrue(r, e)
  <2>1. table[r] \in Seq(Records) /\ DOMAIN table[r] = 1..Len(table[r])
    BY DEF IdentityInv, IdTypes
  <2>2. PICK i \in 1..Len(table[r]) : e = table[r][i]
    BY <1>1, <2>1 DEF Entries, Range
  <2>3. QED
    BY <2>2 DEF IdentityInv, TableOK, EntriesTrue
<1>2. IdentityTypeOK
  <2>1. \A f \in HashedFiles : history[f] \in Seq(FileContents) /\ rows[f].at \in 0..Now(f)
    <3>1. ASSUME NEW f \in HashedFiles
          PROVE  rows[f].at \in 0..Now(f)
      <4>1. Now(f) \in Nat /\ RowTrue(f)
        BY PresentType DEF IdentityInv
      <4>2. QED
        BY <4>1 DEF RowTrue, NoRow
    <3>2. QED
      BY <3>1 DEF IdentityInv, IdTypes
  <2>2. ASSUME NEW r \in Readers
        PROVE  /\ Len(table[r]) <= TableLimit
               /\ Cardinality({e.of : e \in Entries(r)}) = Len(table[r])
               /\ call[r].step \in Calls /\ weight[r].phase \in Phases
    <3>1. IdTypes /\ CallTypes /\ WeightTypes /\ TableOK(r)
      BY DEF IdentityInv
    <3>2. call[r].step \in Calls /\ weight[r].phase \in Phases
      BY <3>1 DEF CallTypes, WeightTypes
    <3>3. QED
      BY <3>1, <3>2, EntriesCounted DEF TableOK
  <2>3. QED
    BY <2>1, <2>2 DEF IdentityTypeOK, IdentityInv, IdTypes
<1>3. RowsAreTrue
  <2>1. \A r \in Readers : role[r] # "native" => \A e \in Entries(r) : e.sum = {history[e.of][e.at]}
    BY <1>1 DEF EntryTrue
  <2>2. \A f \in HashedFiles : rows[f] # NoRow => rows[f].sum = {history[f][rows[f].at]}
    BY DEF IdentityInv, RowTrue
  <2>3. QED
    BY <2>1, <2>2 DEF RowsAreTrue, Entry
<1>4. CurrentEntriesAreTrue
  BY <1>1 DEF CurrentEntriesAreTrue, EntryTrue
<1>5. QED
  BY <1>2, <1>3, <1>4 DEF RecordsAreTrue

\* Whatever is edited while it is read, the caches and the database hold for a signature the
\* digest of what the file held under it, and the native library's false entries are never under
\* the signature the file has (weight_files.py:104-130, inference_session.py:118-133,
\* NativeCachePolicy.hpp:87-125).
THEOREM RecordsTrue == IdentitySpec => []RecordsAreTrue
BY InitInv, NextInv, RecordsHold, PTL DEF IdentitySpec

-----------------------------------------------------------------------------
(* The answers: what a call returns, what a weight is, and what is asked for last. *)

\* What a worker takes for the identity of a file as it is.
Identity(r, f) == IF role[r] = "digest" /\ metadata THEN {Now(f)} ELSE Present(f)

\* What it took for the identity when the file was in its i-th state, and what it could have
\* loaded from the i-th to the j-th.
IdentityAt(r, i) == IF metadata THEN {i} ELSE {history[call[r].of][i]}
Held(r, i, j)    == {history[call[r].of][t] : t \in i..j}

\* A weight that is being resolved, loaded and verified: it was loaded after the state it was
\* resolved in, and, once it is verified, before another state with the same identity.
WeightOK(r) == LET w == weight[r]  f == call[r].of IN
    /\ role[r] = "digest" /\ metadata => call[r].step = "idle"
    /\ w.phase # "free" => role[r] = "digest"
    /\ w.phase \in {"free", "resolved"} => w.loaded = {}
    /\ w.phase \in {"loaded", "same"} => w.loaded # {}
    /\ w.phase \in {"resolved", "loading", "loaded"} =>
          \E i \in 1..Now(f) : w.sum = IdentityAt(r, i) /\ w.loaded \subseteq Held(r, i, Now(f))
    /\ w.phase = "same" => \E i, j \in 1..Now(f) :
          i <= j /\ w.sum = IdentityAt(r, i) /\ w.sum = IdentityAt(r, j) /\ w.loaded \subseteq Held(r, i, j)

\* The file asked for last is the last entry.
LatestOK(r) == role[r] # "native" =>
    \/ latest[r] = {}
    \/ Len(table[r]) > 0 /\ latest[r] = {table[r][Len(table[r])].of}

AnswersInv ==
    /\ IdentityInv /\ latest \in [Readers -> SUBSET HashedFiles]
    /\ \A r \in Readers : WeightOK(r) /\ LatestOK(r)

\* A step of a reader, as its calls and its weight see it.
Uses(r, d) ==
    IF role[r] # "digest" THEN weight'[r] = weight[r]
    ELSE \/ weight[r].phase = "free" /\ weight'[r] = [weight[r] EXCEPT !.phase = "resolved", !.sum = d]
         \/ /\ weight[r].phase = "resolved"
            /\ weight'[r] = [weight[r] EXCEPT !.phase = IF d = weight[r].sum THEN "loading" ELSE "changed"]
         \/ /\ weight[r].phase = "loaded"
            /\ weight'[r] = [weight[r] EXCEPT !.phase = IF d = weight[r].sum THEN "same" ELSE "changed"]

Answers(r) == \E f \in HashedFiles, d \in SUBSET (FileContents \cup Nat) :
    /\ call'[r].step = "idle" /\ call'[r].of = f /\ call'[r].result = d
    /\ role[r] # "native" => d = Identity(r, f)
    /\ weight[r].phase # "free" => f = call[r].of
    /\ Uses(r, d)

ReadsOn(r) ==
    /\ call'[r].step # "idle" /\ ~(role[r] = "digest" /\ metadata) /\ weight'[r] = weight[r]
    /\ weight[r].phase # "free" => call'[r].of = call[r].of

GivesUp(r) ==
    /\ call'[r].step = "idle" /\ call'[r].of = call[r].of /\ call'[r].result = {}
    /\ weight'[r] = [weight[r] EXCEPT !.phase = IF role[r] = "digest" THEN "changed" ELSE @]

Loads(r) == \E next \in {"loading", "loaded"} :
    /\ call'[r] = call[r] /\ weight[r].phase = "loading"
    /\ weight'[r] = [weight[r] EXCEPT !.phase = next, !.loaded = @ \cup Present(call[r].of)]

Forgets(r) ==
    /\ call'[r] = [call[r] EXCEPT !.result = {}]
    /\ weight'[r] = [phase |-> "free", sum |-> {}, loaded |-> {}]

MovesOf(r) == Answers(r) \/ ReadsOn(r) \/ GivesUp(r) \/ Loads(r) \/ Forgets(r)
Rests(r)   == call'[r] = call[r] /\ weight'[r] = weight[r] /\ latest'[r] = latest[r] /\ table'[r] = table[r]

-----------------------------------------------------------------------------
(* A step, as the calls and weights see it. *)

\* A result that is returned is used by the weight of its reader.
LEMMA UsesOfReturn ==
    ASSUME CallTypes, WeightTypes, NEW r \in Readers, NEW f, NEW d, Return(r, f, d),
           weight[r].phase \in {"free", "resolved", "loaded"}
    PROVE  /\ call'[r].step = "idle" /\ call'[r].of = f /\ call'[r].result = d
           /\ Uses(r, d)
           /\ \A q \in Readers \ {r} : call'[q] = call[q] /\ weight'[q] = weight[q]
<1>1. /\ call' = [call EXCEPT ![r] = [of |-> f, step |-> "idle", before |-> 0, read |-> {}, result |-> d]]
      /\ call'[r] = [of |-> f, step |-> "idle", before |-> 0, read |-> {}, result |-> d]
      /\ \A q \in Readers \ {r} : call'[q] = call[q]
  BY DEF Return, CallTypes
<1>2. Uses(r, d) /\ \A q \in Readers \ {r} : weight'[q] = weight[q]
  <2>1. CASE role[r] # "digest"
    BY <2>1 DEF Return, Use, Uses
  <2>2. CASE role[r] = "digest"
    <3>1. PICK w : w = weight[r]
      OBVIOUS
    <3>2. weight' = [weight EXCEPT ![r] =
             CASE w.phase = "free"     -> [w EXCEPT !.phase = "resolved", !.sum = d]
               [] w.phase = "resolved" -> [w EXCEPT !.phase = IF d = w.sum THEN "loading" ELSE "changed"]
               [] w.phase = "loaded"   -> [w EXCEPT !.phase = IF d = w.sum THEN "same" ELSE "changed"]]
      BY <2>2, <3>1 DEF Return, Use
    <3>3. /\ weight'[r] = CASE w.phase = "free"     -> [w EXCEPT !.phase = "resolved", !.sum = d]
               [] w.phase = "resolved" -> [w EXCEPT !.phase = IF d = w.sum THEN "loading" ELSE "changed"]
               [] w.phase = "loaded"   -> [w EXCEPT !.phase = IF d = w.sum THEN "same" ELSE "changed"]
          /\ \A q \in Readers \ {r} : weight'[q] = weight[q]
      BY <3>2 DEF WeightTypes
    <3>4. CASE w.phase = "free"
      BY <2>2, <3>1, <3>3, <3>4 DEF Uses
    <3>5. CASE w.phase = "resolved"
      BY <2>2, <3>1, <3>3, <3>5 DEF Uses
    <3>6. CASE w.phase = "loaded"
      BY <2>2, <3>1, <3>3, <3>6 DEF Uses
    <3>7. QED
      BY <3>1, <3>4, <3>5, <3>6
  <2>3. QED
    BY <2>1, <2>2
<1>3. QED
  BY <1>1, <1>2

\* What memory answers is of the file as it is.
LEMMA AskMoves ==
    ASSUME AnswersInv, NEW r \in Readers, NEW f \in HashedFiles, Ask(r, f)
    PROVE  MovesOf(r) /\ \A q \in Readers \ {r} : call'[q] = call[q] /\ weight'[q] = weight[q]
<1>1. /\ UNCHANGED <<role, metadata, history, rows>>
      /\ weight[r].phase \in {"free", "resolved", "loaded"}
      /\ weight[r].phase # "free" => f = call[r].of
      /\ IdTypes /\ CallTypes /\ WeightTypes /\ TableOK(r)
  BY DEF Ask, AnswersInv, IdentityInv
<1>2. CASE role[r] = "digest" /\ metadata
  <2>1. Return(r, f, {Now(f)}) /\ {Now(f)} \in SUBSET (FileContents \cup Nat)
    BY <1>1, <1>2, PresentType DEF Ask
  <2>2. QED
    BY <1>1, <1>2, <2>1, UsesOfReturn DEF MovesOf, Answers, Identity
<1>3. ASSUME ~(role[r] = "digest" /\ metadata), NEW e \in Hits(r, f), Return(r, f, e.sum)
      PROVE  MovesOf(r) /\ \A q \in Readers \ {r} : call'[q] = call[q] /\ weight'[q] = weight[q]
  <2>1. e \in Records /\ e.of = f /\ e.at = Now(f) /\ EntryTrue(r, e)
    BY <1>1, HitIsEntry
  <2>2. e.sum = Present(f) /\ e.sum \in SUBSET (FileContents \cup Nat)
    BY <2>1 DEF EntryTrue, Records, Digests
  <2>3. QED
    BY <1>1, <1>3, <2>2, UsesOfReturn DEF MovesOf, Answers, Identity
<1>4. CASE /\ ~(role[r] = "digest" /\ metadata) /\ weight' = weight
           /\ call' = [call EXCEPT ![r] = [@ EXCEPT !.of = f, !.before = Now(f), !.read = {},
                          !.step = IF role[r] = "digest" THEN "row" ELSE "half"]]
  <2>1. /\ call'[r].of = f /\ call'[r].step \in {"row", "half"}
        /\ \A q \in Readers \ {r} : call'[q] = call[q]
    BY <1>1, <1>4 DEF CallTypes
  <2>2. QED
    BY <1>1, <1>4, <2>1 DEF MovesOf, ReadsOn
<1>5. QED
  BY <1>2, <1>3, <1>4 DEF Ask

\* What was read is returned only if it is of the file as it is.
LEMMA ReaderMoves ==
    ASSUME AnswersInv, NEW r \in Readers,
           LookUpRow(r) \/ ReadPart(r) \/ Conclude(r) \/ LoadWeight(r) \/ Forget(r)
    PROVE  /\ MovesOf(r) /\ \A q \in Readers \ {r} : call'[q] = call[q] /\ weight'[q] = weight[q]
           /\ UNCHANGED <<role, metadata, history>>
<1>1. /\ IdTypes /\ CallTypes /\ WeightTypes /\ CallOK(r) /\ WeightOK(r)
      /\ UNCHANGED <<role, metadata, history>>
      /\ call[r] \in [of : HashedFiles, step : Calls, before : Nat, read : Digests,
                      result : SUBSET (FileContents \cup Nat)]
      /\ weight[r] \in [phase : Phases, sum : SUBSET (FileContents \cup Nat), loaded : Digests]
  BY DEF AnswersInv, IdentityInv, CallTypes, WeightTypes, LookUpRow, ReadPart, Conclude, LoadWeight, Forget
<1>2. CASE LookUpRow(r)
  <2>1. /\ weight' = weight /\ call[r].step = "row"
        /\ \A q \in Readers \ {r} : call'[q] = call[q]
        /\ call'[r].of = call[r].of /\ call'[r].step \in {"found", "half"}
    <3>1. /\ weight' = weight /\ call[r].step = "row"
          /\ \/ \E x : call' = [call EXCEPT ![r] = [@ EXCEPT !.read = x, !.step = "found"]]
             \/ call' = [call EXCEPT ![r] = [@ EXCEPT !.step = "half"]]
      BY <1>2 DEF LookUpRow
    <3>2. /\ \A q \in Readers \ {r} : call'[q] = call[q]
          /\ call'[r].of = call[r].of /\ call'[r].step \in {"found", "half"}
      BY <1>1, <3>1 DEF CallTypes
    <3>3. QED
      BY <3>1, <3>2
  <2>2. QED
    BY <1>1, <2>1 DEF MovesOf, ReadsOn, WeightOK
<1>3. CASE ReadPart(r)
  <2>1. /\ weight' = weight /\ call[r].step \in {"half", "rest"}
        /\ call' = [call EXCEPT ![r].read = @ \cup Present(call[r].of),
                                ![r].step = IF @ = "half" THEN "rest" ELSE "check"]
    BY <1>3 DEF ReadPart
  <2>2. /\ \A q \in Readers \ {r} : call'[q] = call[q]
        /\ call'[r].of = call[r].of /\ call'[r].step \in {"rest", "check"}
    BY <1>1, <2>1 DEF CallTypes
  <2>3. QED
    BY <1>1, <2>1, <2>2 DEF MovesOf, ReadsOn, WeightOK
<1>4. CASE Conclude(r)
  <2>1. call[r].step \in {"found", "check"}
    BY <1>4 DEF Conclude
  <2>2. CASE /\ call' = [call EXCEPT ![r] = [@ EXCEPT !.step = "idle", !.result = {}]]
             /\ weight' = [weight EXCEPT ![r].phase = IF role[r] = "digest" THEN "changed" ELSE @]
    <3>1. /\ \A q \in Readers \ {r} : call'[q] = call[q] /\ weight'[q] = weight[q]
          /\ call'[r].of = call[r].of /\ call'[r].step = "idle" /\ call'[r].result = {}
          /\ weight'[r] = [weight[r] EXCEPT !.phase = IF role[r] = "digest" THEN "changed" ELSE @]
      BY <1>1, <2>2 DEF CallTypes, WeightTypes
    <3>2. QED
      BY <1>1, <3>1 DEF MovesOf, GivesUp
  <2>3. CASE Still(r) /\ Return(r, call[r].of, call[r].read)
    <3>1. role[r] # "native" => Now(call[r].of) = call[r].before
      BY <2>3 DEF Still
    <3>2. Present(call[r].of) = {history[call[r].of][Now(call[r].of)]}
      BY <1>1, PresentType
    <3>3. role[r] # "native" => call[r].read = Identity(r, call[r].of)
      BY <1>1, <2>1, <3>1, <3>2 DEF CallOK, WeightOK, Identity
    <3>4. weight[r].phase \in {"free", "resolved", "loaded"}
      BY <1>1, <2>1 DEF CallOK, WeightOK
    <3>5. call[r].read \in SUBSET (FileContents \cup Nat)
      BY <1>1 DEF Digests
    <3>6. /\ call'[r].step = "idle" /\ call'[r].of = call[r].of /\ call'[r].result = call[r].read
          /\ Uses(r, call[r].read)
          /\ \A q \in Readers \ {r} : call'[q] = call[q] /\ weight'[q] = weight[q]
      BY <1>1, <2>3, <3>4, UsesOfReturn
    <3>7. Answers(r)
      BY <1>1, <3>3, <3>5, <3>6 DEF Answers
    <3>8. QED
      BY <1>1, <3>6, <3>7 DEF MovesOf
  <2>4. QED
    BY <1>4, <2>2, <2>3 DEF Conclude
<1>5. CASE LoadWeight(r)
  <2>1. PICK next \in {"loading", "loaded"} :
           weight' = [weight EXCEPT ![r].phase = next, ![r].loaded = @ \cup Present(call[r].of)]
    BY <1>5 DEF LoadWeight
  <2>2. /\ \A q \in Readers \ {r} : weight'[q] = weight[q]
        /\ weight'[r] = [weight[r] EXCEPT !.phase = next, !.loaded = @ \cup Present(call[r].of)]
    BY <1>1, <2>1 DEF WeightTypes
  <2>3. call' = call /\ weight[r].phase = "loading"
    BY <1>5 DEF LoadWeight
  <2>4. QED
    BY <1>1, <2>2, <2>3 DEF MovesOf, Loads
<1>6. CASE Forget(r)
  BY <1>1, <1>6 DEF Forget, MovesOf, Forgets, CallTypes, WeightTypes
<1>7. QED
  BY <1>1, <1>2, <1>3, <1>4, <1>5, <1>6

\* A weight stays what it was found to be while only its file's history grows.
LEMMA WeightStays ==
    ASSUME NEW r \in Readers, WeightOK(r), call[r].of \in HashedFiles,
           role' = role, metadata' = metadata,
           call'[r].of = call[r].of, (role[r] = "digest" /\ metadata) => call'[r].step = "idle",
           weight'[r] = weight[r],
           \A f \in HashedFiles : \A k \in 1..Now(f) : k \in 1..Now(f)' /\ history'[f][k] = history[f][k],
           \A f \in HashedFiles : Now(f) \in Nat /\ Now(f) >= 1 /\ Now(f)' \in Nat
    PROVE  WeightOK(r)'
<1> DEFINE f == call[r].of
<1>1. /\ Now(f) \in Nat /\ Now(f)' \in Nat /\ Now(f) >= 1 /\ Now(f) <= Now(f)'
      /\ \A k \in 1..Now(f) : history'[f][k] = history[f][k]
  BY Now(f) \in 1..Now(f)
<1>2. \A i \in 1..Now(f) : IdentityAt(r, i)' = IdentityAt(r, i)
  BY <1>1 DEF IdentityAt
<1>3. \A i, j \in 1..Now(f) : Held(r, i, j) \subseteq Held(r, i, j)'
  BY <1>1 DEF Held
<1>4. \A i \in 1..Now(f) : Held(r, i, Now(f)) \subseteq Held(r, i, Now(f))'
  BY <1>1 DEF Held
<1>5. (call'[r].of = f) /\ Now(call[r].of)' = Now(f)'
  BY DEF Now
<1>6. weight'[r].phase \in {"resolved", "loading", "loaded"} =>
          \E i \in 1..Now(f)' : /\ weight'[r].sum = IdentityAt(r, i)'
                                /\ weight'[r].loaded \subseteq Held(r, i, Now(f))'
  <2>1. SUFFICES ASSUME weight[r].phase \in {"resolved", "loading", "loaded"}
                 PROVE  \E i \in 1..Now(f)' : /\ weight'[r].sum = IdentityAt(r, i)'
                                              /\ weight'[r].loaded \subseteq Held(r, i, Now(f))'
    OBVIOUS
  <2>2. PICK i \in 1..Now(f) : weight[r].sum = IdentityAt(r, i) /\ weight[r].loaded \subseteq Held(r, i, Now(f))
    BY <2>1 DEF WeightOK
  <2>3. i \in 1..Now(f)'
    BY <1>1
  <2>4. QED
    BY <1>2, <1>4, <2>2, <2>3
<1>7. weight'[r].phase = "same" => \E i, j \in 1..Now(f)' :
          /\ i <= j /\ weight'[r].sum = IdentityAt(r, i)' /\ weight'[r].sum = IdentityAt(r, j)'
          /\ weight'[r].loaded \subseteq Held(r, i, j)'
  <2>1. SUFFICES ASSUME weight[r].phase = "same"
                 PROVE  \E i, j \in 1..Now(f)' :
                          /\ i <= j /\ weight'[r].sum = IdentityAt(r, i)' /\ weight'[r].sum = IdentityAt(r, j)'
                          /\ weight'[r].loaded \subseteq Held(r, i, j)'
    OBVIOUS
  <2>2. PICK i, j \in 1..Now(f) :
           i <= j /\ weight[r].sum = IdentityAt(r, i) /\ weight[r].sum = IdentityAt(r, j)
           /\ weight[r].loaded \subseteq Held(r, i, j)
    BY <2>1 DEF WeightOK
  <2>3. i \in 1..Now(f)' /\ j \in 1..Now(f)'
    BY <1>1
  <2>4. QED
    BY <1>2, <1>3, <2>2, <2>3
<1>8. QED
  BY <1>5, <1>6, <1>7 DEF WeightOK

\* A step of its reader keeps what a weight was found to be.
LEMMA WeightMoves ==
    ASSUME AnswersInv, IdentityInv', NEW r \in Readers, MovesOf(r), UNCHANGED <<role, metadata, history>>
    PROVE  WeightOK(r)'
<1>1. /\ WeightOK(r) /\ call[r].of \in HashedFiles /\ call'[r].of \in HashedFiles
      /\ weight[r] \in [phase : Phases, sum : SUBSET (FileContents \cup Nat), loaded : Digests]
      /\ \A f \in HashedFiles : /\ Now(f) \in Nat /\ Now(f) >= 1 /\ Now(f)' = Now(f)
                                /\ Present(f) = {history[f][Now(f)]} /\ Present(f)' = Present(f)
  BY PresentType DEF AnswersInv, IdentityInv, CallTypes, WeightTypes, Now, Present
<1>2. \A i, j : call'[r].of = call[r].of =>
         IdentityAt(r, i)' = IdentityAt(r, i) /\ Held(r, i, j)' = Held(r, i, j)
  BY DEF IdentityAt, Held
<1>3. CASE Answers(r)
  <2>1. PICK f \in HashedFiles, d \in SUBSET (FileContents \cup Nat) :
          /\ call'[r].step = "idle" /\ call'[r].of = f /\ call'[r].result = d
          /\ role[r] # "native" => d = Identity(r, f)
          /\ weight[r].phase # "free" => f = call[r].of
          /\ Uses(r, d)
    BY <1>3 DEF Answers
  <2>2. CASE role[r] # "digest"
    BY <1>1, <2>1, <2>2 DEF Uses, WeightOK
  <2>3. ASSUME role[r] = "digest"
        PROVE  /\ d = IdentityAt(r, Now(f))' /\ Now(f) \in 1..Now(f)
               /\ \A i \in 1..Now(f) : {} \subseteq Held(r, i, Now(f))'
    BY <1>1, <2>1, <2>3 DEF Identity, IdentityAt
  <2>4. ASSUME role[r] = "digest", NEW n, n = Now(f) PROVE d = IdentityAt(r, n)'
    BY <1>1, <2>1, <2>4 DEF Identity, IdentityAt
  <2>5. CASE role[r] = "digest" /\ weight[r].phase = "free"
    <3>1. weight'[r].phase = "resolved" /\ weight'[r].sum = d /\ weight'[r].loaded = {}
      BY <1>1, <2>1, <2>5 DEF Uses, WeightOK
    <3>2. QED
      BY <1>1, <2>1, <2>3, <2>5, <3>1 DEF WeightOK
  <2>6. CASE role[r] = "digest" /\ weight[r].phase = "resolved"
    <3>1. /\ weight'[r].phase \in {"loading", "changed"} /\ weight'[r].sum = weight[r].sum
          /\ weight'[r].loaded = {}
      BY <1>1, <2>1, <2>6 DEF Uses, WeightOK
    <3>2. PICK i \in 1..Now(f) : weight[r].sum = IdentityAt(r, i)
      BY <1>1, <2>1, <2>6 DEF WeightOK
    <3>3. weight'[r].sum = IdentityAt(r, i)' /\ i \in 1..Now(f)'
      BY <1>1, <1>2, <2>1, <2>6, <3>1, <3>2
    <3>4. QED
      BY <1>1, <2>1, <2>6, <3>1, <3>3 DEF WeightOK
  <2>7. CASE role[r] = "digest" /\ weight[r].phase = "loaded"
    <3>1. /\ weight'[r].phase \in {"same", "changed"} /\ weight'[r].sum = weight[r].sum
          /\ weight'[r].loaded = weight[r].loaded /\ weight[r].loaded # {}
          /\ weight'[r].phase = "same" => d = weight[r].sum
      BY <1>1, <2>1, <2>7 DEF Uses, WeightOK
    <3>2. PICK i \in 1..Now(f) : weight[r].sum = IdentityAt(r, i) /\ weight[r].loaded \subseteq Held(r, i, Now(f))
      BY <1>1, <2>1, <2>7 DEF WeightOK
    <3>3. PICK n \in Nat : n = Now(f) /\ n = Now(f)' /\ n >= 1
      BY <1>1
    <3>4. f = call[r].of
      BY <2>1, <2>7
    <3>5. /\ weight'[r].sum = IdentityAt(r, i)' /\ weight'[r].loaded \subseteq Held(r, i, n)'
          /\ i \in 1..n /\ i <= n /\ n \in 1..n
      <4>1. IdentityAt(r, i)' = IdentityAt(r, i) /\ Held(r, i, n)' = Held(r, i, n)
        BY <1>2, <2>1, <3>4
      <4>2. weight[r].sum = IdentityAt(r, i) /\ weight[r].loaded \subseteq Held(r, i, n)
        BY <3>2, <3>3, <3>4
      <4>3. i \in 1..n
        BY <3>2, <3>3, <3>4
      <4>4. QED
        BY <3>1, <3>3, <4>1, <4>2, <4>3
    <3>6. weight'[r].phase = "same" => weight'[r].sum = IdentityAt(r, n)'
      BY <2>7, <2>4, <3>1, <3>3
    <3>7. weight'[r].phase = "same" => \E a, b \in 1..Now(f)' :
             /\ a <= b /\ weight'[r].sum = IdentityAt(r, a)' /\ weight'[r].sum = IdentityAt(r, b)'
             /\ weight'[r].loaded \subseteq Held(r, a, b)'
      BY <3>3, <3>5, <3>6
    <3>8. QED
      BY <1>1, <2>1, <2>7, <3>1, <3>7 DEF WeightOK
  <2>8. QED
    BY <2>1, <2>2, <2>5, <2>6, <2>7 DEF Uses
<1>4. CASE ReadsOn(r)
  <2>1. weight'[r] = weight[r] /\ (weight[r].phase # "free" => call'[r].of = call[r].of)
        /\ ~(role[r] = "digest" /\ metadata)
    BY <1>4 DEF ReadsOn
  <2>2. CASE weight[r].phase = "free"
    BY <1>1, <2>1, <2>2 DEF WeightOK
  <2>3. CASE weight[r].phase # "free"
    BY <1>1, <2>1, <2>3, WeightStays DEF Now
  <2>4. QED
    BY <2>2, <2>3
<1>5. CASE GivesUp(r)
  <2>1. CASE role[r] = "digest"
    BY <1>1, <1>5, <2>1 DEF GivesUp, WeightOK
  <2>2. CASE role[r] # "digest"
    BY <1>1, <1>5, <2>2 DEF GivesUp, WeightOK
  <2>3. QED
    BY <2>1, <2>2
<1>6. CASE Loads(r)
  <2>1. PICK next \in {"loading", "loaded"} :
          /\ call'[r] = call[r] /\ weight[r].phase = "loading"
          /\ weight'[r] = [weight[r] EXCEPT !.phase = next, !.loaded = @ \cup Present(call[r].of)]
    BY <1>6 DEF Loads
  <2>2. PICK f \in HashedFiles, n \in Nat :
           f = call[r].of /\ n = Now(f) /\ n = Now(f)' /\ n >= 1 /\ call'[r].of = f
    BY <1>1, <2>1
  <2>3. PICK i \in 1..n : weight[r].sum = IdentityAt(r, i) /\ weight[r].loaded \subseteq Held(r, i, n)
    BY <2>1, <2>2, <1>1 DEF WeightOK
  <2>4. Present(f) \subseteq Held(r, i, n)
    BY <1>1, <2>2 DEF Held
  <2>5. /\ weight'[r].phase = next /\ weight'[r].sum = weight[r].sum
        /\ weight'[r].loaded = weight[r].loaded \cup Present(call[r].of)
        /\ weight'[r].loaded # {}
    BY <1>1, <2>1
  <2>6. weight'[r].sum = IdentityAt(r, i)' /\ weight'[r].loaded \subseteq Held(r, i, n)'
    <3>1. IdentityAt(r, i)' = IdentityAt(r, i) /\ Held(r, i, n)' = Held(r, i, n)
      BY <1>2, <2>2
    <3>2. QED
      BY <2>3, <2>4, <2>5, <2>2, <3>1
  <2>7. role[r] = "digest"
    BY <1>1, <2>1 DEF WeightOK
  <2>8. QED
    BY <1>1, <2>1, <2>5, <2>6, <2>7, <2>2 DEF WeightOK
<1>7. CASE Forgets(r)
  <2>1. /\ weight'[r].phase = "free" /\ weight'[r].loaded = {} /\ call'[r].step = call[r].step
    BY <1>1, <1>7 DEF Forgets, AnswersInv, IdentityInv, CallTypes
  <2>2. QED
    BY <1>1, <2>1 DEF WeightOK
<1>8. QED
  BY <1>3, <1>4, <1>5, <1>6, <1>7 DEF MovesOf

-----------------------------------------------------------------------------
(* The file that was asked for last. *)

\* The files that have an entry.
Kept(s) == {s[i].of : i \in 1..Len(s)}

\* The step keeps what was asked for last, but for the file it is about.
KeepsLatest(r) ==
    role[r] # "native" /\ TableLimit > 1 => latest[r] \ {call'[r].of} \subseteq Kept(table'[r])

\* When the entry of another file is popped, the last one stays the last.
LEMMA WithoutLast ==
    ASSUME IdTypes, NEW r \in Readers, NEW f \in HashedFiles,
           Len(table[r]) > 0, table[r][Len(table[r])].of # f
    PROVE  LET w == Without(r, f) IN
           w \in Seq(Records) /\ Len(w) > 0 /\ w[Len(w)] = table[r][Len(table[r])]
<1>1. table[r] \in Seq(Records) /\ DOMAIN table[r] = 1..Len(table[r]) /\ Len(table[r]) \in Nat
  BY DEF IdTypes
<1>2. CASE Places(r, f) = {}
  BY <1>1, <1>2 DEF Without
<1>3. ASSUME NEW k \in Places(r, f), Without(r, f) = RemoveAt(table[r], k)
      PROVE  LET w == Without(r, f) IN
             w \in Seq(Records) /\ Len(w) > 0 /\ w[Len(w)] = table[r][Len(table[r])]
  <2> DEFINE w == RemoveAt(table[r], k)
             n == Len(table[r])
  <2>1. k \in 1..n /\ k # n /\ n \in Nat
    BY <1>1 DEF Places
  <2>2. /\ w \in Seq(Records) /\ Len(w) = n - 1
        /\ \A i \in 1..n - 1 : w[i] = IF i < k THEN table[r][i] ELSE table[r][i + 1]
    BY <1>1, <2>1, RemovedEntries
  <2> HIDE DEF w
  <2>3. n - 1 \in 1..n - 1 /\ ~(n - 1 < k) /\ n - 1 + 1 = n
    BY <2>1
  <2>4. w[n - 1] = table[r][n]
    BY <2>2, <2>3
  <2>5. QED
    BY <1>3, <2>2, <2>3, <2>4 DEF w
<1>4. QED
  BY <1>2, <1>3 DEF Without

\* The entry that was put last survives eviction; the one before it, if there is room for two.
LEMMA EvictedLast ==
    ASSUME NEW r \in Readers, NEW s \in Seq(Records), Len(s) > 0
    PROVE  LET t == Evicted(r, s) IN
           /\ Len(t) > 0 /\ t[Len(t)] = s[Len(s)]
           /\ role[r] # "native" /\ TableLimit > 1 /\ Len(s) > 1 => s[Len(s) - 1].of \in Kept(t)
<1>1. TableLimit \in Nat /\ TableLimit >= 1 /\ Len(s) \in Nat
  BY IdentityAssumption
<1>2. CASE Len(s) <= TableLimit
  <2>1. Evicted(r, s) = s
    BY <1>2 DEF Evicted
  <2>2. Len(s) > 1 => Len(s) - 1 \in 1..Len(s)
    BY <1>1
  <2>3. QED
    BY <2>1, <2>2 DEF Kept
<1>3. CASE Len(s) > TableLimit /\ role[r] = "native"
  <2>1. Evicted(r, s) = <<s[Len(s)]>>
    BY <1>1, <1>3 DEF Evicted
  <2>2. QED
    BY <1>3, <2>1
<1>4. CASE Len(s) > TableLimit /\ role[r] # "native"
  <2>1. Evicted(r, s) = Tail(s)
    BY <1>1, <1>4 DEF Evicted
  <2>2. Len(Tail(s)) = Len(s) - 1 /\ \A i \in 1..Len(s) - 1 : Tail(s)[i] = s[i + 1]
    BY <1>1
  <2>3. Len(s) - 1 \in 1..Len(s) - 1 /\ Len(s) - 1 + 1 = Len(s)
    BY <1>1, <1>4
  <2>4. ASSUME TableLimit > 1 PROVE s[Len(s) - 1].of \in Kept(Tail(s))
    <3>1. Len(s) - 2 \in 1..Len(s) - 1 /\ Len(s) - 2 + 1 = Len(s) - 1
      BY <1>1, <1>4, <2>4
    <3>2. Tail(s)[Len(s) - 2] = s[Len(s) - 1]
      BY <2>2, <3>1
    <3>3. QED
      BY <2>2, <3>1, <3>2 DEF Kept
  <2>5. QED
    BY <2>1, <2>2, <2>3, <2>4
<1>5. QED
  BY <1>1, <1>2, <1>3, <1>4

\* What was asked for last has an entry.
LEMMA LatestHasEntry ==
    ASSUME IdTypes, NEW r \in Readers, LatestOK(r), role[r] # "native"
    PROVE  latest[r] \subseteq Kept(table[r])
<1>1. Len(table[r]) \in Nat
  BY DEF IdTypes
<1>2. Len(table[r]) > 0 => Len(table[r]) \in 1..Len(table[r])
  BY <1>1
<1>3. QED
  BY <1>2 DEF LatestOK, Kept

\* An entry put behind the others is the last, and the one that was keeps its place before it.
LEMMA AppendedLast ==
    ASSUME IdTypes, NEW r \in Readers, NEW f \in HashedFiles, NEW e \in Records, e.of = f,
           LatestOK(r), role[r] # "native", Distinct(table[r])
    PROVE  LET s == Append(Without(r, f), e) IN
           /\ s \in Seq(Records) /\ Len(s) > 0 /\ s[Len(s)] = e
           /\ latest[r] \ {f} # {} => Len(s) > 1 /\ latest[r] = {s[Len(s) - 1].of}
<1> DEFINE w == Without(r, f)
           s == Append(w, e)
<1>1. w \in Seq(Records)
  BY WithoutFile
<1> HIDE DEF w
<1>2. /\ s \in Seq(Records) /\ Len(s) = Len(w) + 1 /\ Len(w) \in Nat /\ s[Len(w) + 1] = e
      /\ \A i \in 1..Len(w) : s[i] = w[i]
  BY <1>1
<1>3. ASSUME latest[r] \ {f} # {}
      PROVE  Len(s) > 1 /\ latest[r] = {s[Len(s) - 1].of}
  <2>1. Len(table[r]) > 0 /\ latest[r] = {table[r][Len(table[r])].of}
    BY <1>3 DEF LatestOK
  <2>2. table[r][Len(table[r])].of # f
    BY <1>3, <2>1
  <2>3. Len(w) > 0 /\ w[Len(w)] = table[r][Len(table[r])]
    BY <2>1, <2>2, WithoutLast DEF w
  <2>4. Len(w) \in 1..Len(w) /\ Len(s) - 1 = Len(w)
    BY <1>2, <2>3
  <2>5. s[Len(w)] = w[Len(w)]
    BY <1>2, <2>4
  <2>6. QED
    BY <1>2, <2>1, <2>3, <2>4, <2>5
<1>4. QED
  BY <1>2, <1>3 DEF w

\* Asking leaves the file asked for last, or puts the one that is found behind it.
LEMMA AskLatest ==
    ASSUME AnswersInv, NEW r \in Readers, NEW f \in HashedFiles, Ask(r, f)
    PROVE  LatestOK(r)' /\ KeepsLatest(r) /\ latest' \in [Readers -> SUBSET HashedFiles]
           /\ \A q \in Readers \ {r} : latest'[q] = latest[q] /\ table'[q] = table[q]
<1>1. /\ UNCHANGED <<role, metadata, history, rows>> /\ TableOK(r) /\ LatestOK(r)
      /\ IdTypes /\ CallTypes /\ WeightTypes /\ latest \in [Readers -> SUBSET HashedFiles]
      /\ table \in [Readers -> Seq(Records)] /\ Distinct(table[r])
      /\ weight[r].phase \in {"free", "resolved", "loaded"}
  BY DEF Ask, AnswersInv, IdentityInv, IdTypes, TableOK
<1>2. CASE role[r] = "digest" /\ metadata
  <2>1. table' = table /\ latest' = latest
    BY <1>2 DEF Ask
  <2>2. QED
    BY <1>1, <2>1, LatestHasEntry DEF LatestOK, KeepsLatest
<1>3. ASSUME ~(role[r] = "digest" /\ metadata), NEW e \in Hits(r, f), Return(r, f, e.sum),
             table' = [table EXCEPT ![r] = MovedToEnd(r, e)],
             latest' = [latest EXCEPT ![r] = {f}]
      PROVE  LatestOK(r)' /\ KeepsLatest(r) /\ latest' \in [Readers -> SUBSET HashedFiles]
             /\ \A q \in Readers \ {r} : latest'[q] = latest[q] /\ table'[q] = table[q]
  <2>1. /\ latest'[r] = {f} /\ latest' \in [Readers -> SUBSET HashedFiles]
        /\ table'[r] = MovedToEnd(r, e) /\ call'[r].of = f
        /\ \A q \in Readers \ {r} : latest'[q] = latest[q] /\ table'[q] = table[q]
    BY <1>1, <1>3, UsesOfReturn
  <2>2. CASE role[r] # "native"
    <3>1. e \in Records /\ e.of = f
      BY <1>1, HitIsEntry
    <3> DEFINE s == Append(Without(r, f), e)
    <3>2. table'[r] = s
      BY <2>1, <2>2, <3>1 DEF MovedToEnd
    <3>3. /\ s \in Seq(Records) /\ Len(s) > 0 /\ s[Len(s)] = e
          /\ latest[r] \ {f} # {} => Len(s) > 1 /\ latest[r] = {s[Len(s) - 1].of}
      BY <1>1, <2>2, <3>1, AppendedLast
    <3> HIDE DEF s
    <3>4. Len(s) > 1 => Len(s) - 1 \in 1..Len(s)
      BY <3>3
    <3>5. LatestOK(r)'
      BY <2>1, <3>1, <3>2, <3>3 DEF LatestOK
    <3>6. KeepsLatest(r)
      BY <2>1, <3>2, <3>3, <3>4 DEF KeepsLatest, Kept
    <3>7. QED
      BY <2>1, <3>5, <3>6
  <2>3. CASE role[r] = "native"
    BY <1>1, <2>1, <2>3 DEF LatestOK, KeepsLatest
  <2>4. QED
    BY <2>2, <2>3
<1>4. CASE /\ table' = [table EXCEPT ![r] = IF role[r] = "native" THEN @ ELSE Without(r, f)]
           /\ latest' = [latest EXCEPT ![r] = @ \ {f}]
           /\ call' = [call EXCEPT ![r] = [@ EXCEPT !.of = f, !.before = Now(f), !.read = {},
                          !.step = IF role[r] = "digest" THEN "row" ELSE "half"]]
  <2>1. /\ latest'[r] = latest[r] \ {f} /\ latest' \in [Readers -> SUBSET HashedFiles]
        /\ table'[r] = (IF role[r] = "native" THEN table[r] ELSE Without(r, f)) /\ call'[r].of = f
        /\ \A q \in Readers \ {r} : latest'[q] = latest[q] /\ table'[q] = table[q]
    BY <1>1, <1>4 DEF CallTypes
  <2>2. CASE role[r] = "native"
    BY <1>1, <2>1, <2>2 DEF LatestOK, KeepsLatest
  <2>3. CASE role[r] # "native" /\ latest[r] \ {f} = {}
    BY <1>1, <2>1, <2>3 DEF LatestOK, KeepsLatest
  <2>4. CASE role[r] # "native" /\ latest[r] \ {f} # {}
    <3> DEFINE w == Without(r, f)
    <3>1. /\ Len(table[r]) > 0 /\ latest[r] = {table[r][Len(table[r])].of}
          /\ table[r][Len(table[r])].of # f
      BY <1>1, <2>4 DEF LatestOK
    <3>2. w \in Seq(Records) /\ Len(w) > 0 /\ w[Len(w)] = table[r][Len(table[r])]
      BY <1>1, <3>1, WithoutLast
    <3>3. table'[r] = w /\ latest'[r] = latest[r]
      BY <2>1, <2>4, <3>1
    <3> HIDE DEF w
    <3>4. Len(w) \in 1..Len(w)
      BY <3>2
    <3>5. LatestOK(r)'
      BY <3>1, <3>2, <3>3 DEF LatestOK
    <3>6. KeepsLatest(r)
      BY <3>1, <3>2, <3>3, <3>4 DEF KeepsLatest, Kept
    <3>7. QED
      BY <2>1, <3>5, <3>6
  <2>5. QED
    BY <2>2, <2>3, <2>4
<1>5. QED
  BY <1>2, <1>3, <1>4 DEF Ask

\* What was read is put behind the file asked for last, which is not evicted.
LEMMA ConcludeLatest ==
    ASSUME AnswersInv, NEW r \in Readers, Conclude(r)
    PROVE  LatestOK(r)' /\ KeepsLatest(r) /\ latest' \in [Readers -> SUBSET HashedFiles]
           /\ \A q \in Readers \ {r} : latest'[q] = latest[q] /\ table'[q] = table[q]
<1>1. /\ UNCHANGED <<role, metadata, history>> /\ TableOK(r) /\ LatestOK(r)
      /\ IdTypes /\ CallTypes /\ latest \in [Readers -> SUBSET HashedFiles]
      /\ table \in [Readers -> Seq(Records)] /\ Distinct(table[r])
      /\ call[r] \in [of : HashedFiles, step : Calls, before : Nat, read : Digests,
                      result : SUBSET (FileContents \cup Nat)]
  BY DEF Conclude, AnswersInv, IdentityInv, IdTypes, TableOK, CallTypes
<1>2. PICK f \in HashedFiles, d \in Digests, at \in Nat :
         f = call[r].of /\ d = call[r].read /\ at = call[r].before
  BY <1>1
<1>3. CASE table' = table /\ latest' = latest
  BY <1>1, <1>3, LatestHasEntry DEF LatestOK, KeepsLatest
<1>4. CASE /\ table' = [table EXCEPT ![r] = Evicted(r, Append(Without(r, f), Entry(f, at, d)))]
           /\ latest' = [latest EXCEPT ![r] = {f}] /\ Return(r, f, d)
  <2> DEFINE e == Entry(f, at, d)
             s == Append(Without(r, f), e)
             t == Evicted(r, s)
  <2>1. /\ latest'[r] = {f} /\ latest' \in [Readers -> SUBSET HashedFiles]
        /\ table'[r] = t /\ call'[r].of = f
        /\ \A q \in Readers \ {r} : latest'[q] = latest[q] /\ table'[q] = table[q]
    BY <1>1, <1>4 DEF Return, CallTypes
  <2>2. e \in Records /\ e.of = f
    BY DEF Entry, Records
  <2>3. CASE role[r] = "native"
    BY <1>1, <2>1, <2>3 DEF LatestOK, KeepsLatest
  <2>4. CASE role[r] # "native"
    <3> HIDE DEF e
    <3>1. /\ s \in Seq(Records) /\ Len(s) > 0 /\ s[Len(s)] = e
          /\ latest[r] \ {f} # {} => Len(s) > 1 /\ latest[r] = {s[Len(s) - 1].of}
      BY <1>1, <2>2, <2>4, AppendedLast
    <3> HIDE DEF s
    <3>2. /\ Len(t) > 0 /\ t[Len(t)] = e
          /\ TableLimit > 1 /\ Len(s) > 1 => s[Len(s) - 1].of \in Kept(t)
      BY <2>4, <3>1, EvictedLast
    <3> HIDE DEF t
    <3>3. LatestOK(r)'
      BY <2>1, <2>2, <3>2 DEF LatestOK
    <3>4. KeepsLatest(r)
      BY <2>1, <3>1, <3>2 DEF KeepsLatest
    <3>5. QED
      BY <2>1, <3>3, <3>4
  <2>5. QED
    BY <2>3, <2>4
<1>5. QED
  BY <1>2, <1>3, <1>4 DEF Conclude, Stamp

\* The steps that leave the table and the file asked for last as they are.
LEMMA OthersLatest ==
    ASSUME AnswersInv, NEW r \in Readers, LookUpRow(r) \/ ReadPart(r) \/ LoadWeight(r) \/ Forget(r)
    PROVE  LatestOK(r)' /\ KeepsLatest(r) /\ latest' \in [Readers -> SUBSET HashedFiles]
           /\ \A q \in Readers \ {r} : latest'[q] = latest[q] /\ table'[q] = table[q]
<1>1. UNCHANGED <<role, table, latest>>
  BY DEF LookUpRow, ReadPart, LoadWeight, Forget
<1>2. IdTypes /\ LatestOK(r) /\ latest \in [Readers -> SUBSET HashedFiles]
  BY DEF AnswersInv, IdentityInv
<1>3. role[r] # "native" => latest[r] \subseteq Kept(table[r])
  BY <1>2, LatestHasEntry
<1>4. QED
  BY <1>1, <1>2, <1>3 DEF LatestOK, KeepsLatest

\* A step of one reader, with what it leaves the others.
Moved(r) ==
    /\ MovesOf(r) /\ LatestOK(r)' /\ KeepsLatest(r) /\ latest' \in [Readers -> SUBSET HashedFiles]
    /\ \A q \in Readers \ {r} : Rests(q)
    /\ UNCHANGED <<role, metadata, history>>

\* Every step is one of a reader, or alters a file.
LEMMA NextMoves ==
    ASSUME AnswersInv, IdentityNext
    PROVE  \/ \E r \in Readers : Moved(r)
           \/ \E f \in HashedFiles, c \in FileContents : Alter(f, c)
<1>1. \A r \in Readers : role[r] # "off" => Reads[role[r]] \subseteq HashedFiles
  BY IdentityAssumption DEF AnswersInv, IdentityInv, IdTypes
<1>2. ASSUME NEW r \in Readers, LookUpRow(r) \/ ReadPart(r) \/ Conclude(r) \/ LoadWeight(r) \/ Forget(r)
      PROVE  Moved(r)
  BY <1>2, ReaderMoves, ConcludeLatest, OthersLatest DEF Moved, Rests
<1>3. ASSUME NEW r \in Readers, NEW f \in HashedFiles, Ask(r, f)
      PROVE  Moved(r)
  <2>1. UNCHANGED <<role, metadata, history>>
    BY <1>3 DEF Ask
  <2>2. QED
    BY <1>3, <2>1, AskMoves, AskLatest DEF Moved, Rests
<1>4. CASE \E r \in Readers : role[r] # "off" /\ \E f \in Reads[role[r]] : Ask(r, f)
  BY <1>1, <1>3, <1>4
<1>5. CASE \E r \in Readers, c \in FileContents : role[r] # "off" /\ \E f \in Reads[role[r]] : Alter(f, c)
  BY <1>1, <1>5
<1>6. QED
  BY <1>2, <1>4, <1>5 DEF IdentityNext

\* What a file held before it was altered stays in its history.
LEMMA HistoryGrows ==
    ASSUME IdTypes, IdTypes', NEW f \in HashedFiles, NEW c \in FileContents, Alter(f, c)
    PROVE  \A g \in HashedFiles :
              /\ Now(g) \in Nat /\ Now(g) >= 1 /\ Now(g)' \in Nat
              /\ \A k \in 1..Now(g) : k \in 1..Now(g)' /\ history'[g][k] = history[g][k]
<1>1. history' = [history EXCEPT ![f] = Append(history[f], c)]
  BY DEF Alter
<1>2. /\ history[f] \in Seq(FileContents) /\ history'[f] = Append(history[f], c)
      /\ \A g \in HashedFiles \ {f} : history'[g] = history[g]
  BY <1>1 DEF IdTypes
<1>3. \A g \in HashedFiles : /\ Len(history[g]) \in Nat /\ Len(history[g]) >= 1
                             /\ Len(history'[g]) \in Nat
  BY DEF IdTypes, Now
<1>4. ASSUME NEW g \in HashedFiles, NEW k \in 1..Len(history[g])
      PROVE  k \in 1..Len(history'[g]) /\ history'[g][k] = history[g][k]
  <2>1. CASE g = f
    <3>1. /\ Len(history'[f]) = Len(history[f]) + 1
          /\ \A i \in 1..Len(history[f]) : history'[f][i] = history[f][i]
      BY <1>2
    <3>2. QED
      BY <1>3, <2>1, <3>1
  <2>2. CASE g # f
    BY <1>2, <2>2
  <2>3. QED
    BY <2>1, <2>2
<1>5. QED
  BY <1>3, <1>4 DEF Now

-----------------------------------------------------------------------------
(* The invariant of the answers, and what it says. *)

\* No weight is being loaded, and no file has been asked for.
LEMMA InitAnswers ==
    IdentityInit => AnswersInv
<1> SUFFICES ASSUME IdentityInit
             PROVE  AnswersInv
  OBVIOUS
<1>1. ASSUME NEW r \in Readers
      PROVE  WeightOK(r) /\ LatestOK(r)
  BY DEF IdentityInit, WeightOK, LatestOK
<1>2. latest \in [Readers -> SUBSET HashedFiles]
  BY DEF IdentityInit
<1>3. QED
  BY <1>1, <1>2, InitInv DEF AnswersInv

\* Every step keeps it.
LEMMA NextAnswers ==
    AnswersInv /\ [IdentityNext]_identityVars => AnswersInv'
<1> SUFFICES ASSUME AnswersInv, [IdentityNext]_identityVars
             PROVE  AnswersInv'
  OBVIOUS
<1>1. IdentityInv /\ IdentityInv'
  BY NextInv DEF AnswersInv
<1>2. /\ IdTypes /\ IdTypes' /\ latest \in [Readers -> SUBSET HashedFiles]
      /\ \A q \in Readers : WeightOK(q) /\ LatestOK(q) /\ call[q].of \in HashedFiles
      /\ \A f \in HashedFiles : Now(f) \in Nat /\ Now(f) >= 1
  BY <1>1, PresentType DEF AnswersInv, IdentityInv, CallTypes
<1>3. ASSUME NEW q \in Readers, Rests(q), UNCHANGED <<role, metadata, history>>
      PROVE  WeightOK(q)' /\ LatestOK(q)'
  <2>1. WeightOK(q)'
    BY <1>3, <1>2, WeightStays DEF Rests, Now, WeightOK
  <2>2. QED
    BY <1>3, <1>2, <2>1 DEF Rests, LatestOK
<1>4. ASSUME NEW r \in Readers, Moved(r)
      PROVE  AnswersInv'
  <2>1. WeightOK(r)' /\ LatestOK(r)' /\ latest' \in [Readers -> SUBSET HashedFiles]
    BY <1>1, <1>4, WeightMoves DEF Moved
  <2>2. \A q \in Readers \ {r} : WeightOK(q)' /\ LatestOK(q)'
    BY <1>3, <1>4 DEF Moved
  <2>3. QED
    BY <1>1, <2>1, <2>2 DEF AnswersInv
<1>5. ASSUME NEW f \in HashedFiles, NEW c \in FileContents, Alter(f, c)
      PROVE  AnswersInv'
  <2>1. UNCHANGED <<role, metadata, table, call, weight, latest>>
    BY <1>5 DEF Alter
  <2>2. ASSUME NEW q \in Readers
        PROVE  WeightOK(q)'
    <3>1. \A g \in HashedFiles :
              /\ Now(g) \in Nat /\ Now(g) >= 1 /\ Now(g)' \in Nat
              /\ \A k \in 1..Now(g) : k \in 1..Now(g)' /\ history'[g][k] = history[g][k]
      BY <1>2, <1>5, HistoryGrows
    <3>2. (role[q] = "digest" /\ metadata) => call[q].step = "idle"
      BY <1>2 DEF WeightOK
    <3>3. QED
      BY <1>2, <2>1, <3>1, <3>2, WeightStays
  <2>3. \A q \in Readers : LatestOK(q)'
    BY <1>2, <2>1 DEF LatestOK
  <2>4. QED
    BY <1>1, <1>2, <2>1, <2>2, <2>3 DEF AnswersInv
<1>6. CASE UNCHANGED identityVars
  <2>1. UNCHANGED <<role, metadata, history, latest>> /\ \A q \in Readers : Rests(q)
    BY <1>6 DEF identityVars, Rests
  <2>2. \A q \in Readers : WeightOK(q)' /\ LatestOK(q)'
    BY <1>3, <2>1
  <2>3. QED
    BY <1>1, <1>2, <2>1, <2>2 DEF AnswersInv
<1>7. QED
  BY <1>4, <1>5, <1>6, NextMoves

\* A weight was loaded between two states with the identity it was resolved with: they are one
\* state, or the content has not changed from one to the other.
LEMMA LoadedHolds ==
    AnswersInv => LoadedWhatWasResolved
<1> SUFFICES ASSUME AnswersInv, NEW r \in Readers, weight[r].phase = "same"
             PROVE  /\ metadata => weight[r].loaded = {history[call[r].of][s] : s \in weight[r].sum}
                    /\ ~metadata /\ ~ChangedBack(call[r].of) => weight[r].loaded = weight[r].sum
  BY DEF LoadedWhatWasResolved
<1>1. PICK f \in HashedFiles : f = call[r].of
  BY DEF AnswersInv, IdentityInv, CallTypes
<1>2. Now(f) \in Nat
  BY PresentType DEF AnswersInv, IdentityInv
<1>3. PICK i, j \in 1..Now(f) :
         /\ i <= j /\ weight[r].sum = IdentityAt(r, i) /\ weight[r].sum = IdentityAt(r, j)
         /\ weight[r].loaded \subseteq Held(r, i, j)
  BY <1>1 DEF AnswersInv, WeightOK
<1>4. weight[r].loaded # {}
  BY DEF AnswersInv, WeightOK
<1>5. ASSUME metadata
      PROVE  weight[r].loaded = {history[f][s] : s \in weight[r].sum}
  <2>1. i = j /\ weight[r].sum = {i}
    BY <1>3, <1>5 DEF IdentityAt
  <2>2. Held(r, i, j) = {history[f][i]}
    BY <1>1, <1>2, <2>1 DEF Held
  <2>3. QED
    BY <1>3, <1>4, <2>1, <2>2
<1>6. ASSUME ~metadata, ~ChangedBack(f)
      PROVE  weight[r].loaded = weight[r].sum
  <2>1. weight[r].sum = {history[f][i]} /\ history[f][i] = history[f][j]
    BY <1>1, <1>3, <1>6 DEF IdentityAt
  <2>2. ASSUME NEW t \in i..j
        PROVE  history[f][t] = history[f][i]
    <3>1. t \in 1..Now(f)
      BY <1>2, <1>3
    <3>2. t = i \/ t = j \/ (i < t /\ t < j)
      BY <1>2, <1>3, <3>1
    <3>3. QED
      BY <1>6, <2>1, <3>1, <3>2 DEF ChangedBack
  <2>3. Held(r, i, j) \subseteq {history[f][i]}
    BY <1>1, <2>2 DEF Held
  <2>4. QED
    BY <1>3, <1>4, <2>1, <2>3
<1>7. QED
  BY <1>1, <1>5, <1>6

\* A result that a step returns is of the file as it is.
LEMMA StepReturnsPresent ==
    ASSUME AnswersInv, IdentityNext, NEW r \in Readers,
           role[r] # "native", ~(role[r] = "digest" /\ metadata),
           call'[r] # call[r], call'[r].step = "idle", call'[r].result # {}
    PROVE  call'[r].result = Present(call'[r].of)
<1>1. MovesOf(r)
  <2>1. CASE \E q \in Readers : Moved(q)
    BY <2>1 DEF Moved, Rests
  <2>2. CASE \E f \in HashedFiles, c \in FileContents : Alter(f, c)
    BY <2>2 DEF Alter
  <2>3. QED
    BY <2>1, <2>2, NextMoves
<1>2. ~GivesUp(r) /\ ~ReadsOn(r) /\ ~Loads(r)
  BY DEF GivesUp, ReadsOn, Loads
<1>3. ~Forgets(r)
  BY DEF Forgets, AnswersInv, IdentityInv, CallTypes
<1>4. Answers(r)
  BY <1>1, <1>2, <1>3 DEF MovesOf
<1>5. QED
  BY <1>4 DEF Answers, Identity

\* No step drops the entry of the file that was asked for last.
LEMMA StepKeepsLatest ==
    ASSUME AnswersInv, AnswersInv', IdentityNext, NEW r \in Readers, role[r] # "native", TableLimit > 1
    PROVE  latest[r] \ {call'[r].of} \subseteq {e.of : e \in Range(table'[r])}
<1>1. table'[r] \in Seq(Records) /\ DOMAIN table'[r] = 1..Len(table'[r])
  BY DEF AnswersInv, IdentityInv, IdTypes
<1>2. Kept(table'[r]) = {e.of : e \in Range(table'[r])}
  BY <1>1 DEF Kept, Range
<1>3. LatestOK(r) /\ IdTypes
  BY DEF AnswersInv, IdentityInv
<1>4. latest[r] \subseteq Kept(table[r])
  BY <1>3, LatestHasEntry
<1>5. CASE \E q \in Readers : Moved(q)
  <2>1. KeepsLatest(r) \/ (latest'[r] = latest[r] /\ table'[r] = table[r])
    BY <1>5 DEF Moved, Rests
  <2>2. QED
    BY <1>2, <1>4, <2>1 DEF KeepsLatest
<1>6. CASE \E f \in HashedFiles, c \in FileContents : Alter(f, c)
  BY <1>2, <1>4, <1>6 DEF Alter
<1>7. QED
  BY <1>5, <1>6, NextMoves

\* Whatever is edited, touched or changed back while it is read: an answer is of the file as it
\* is, weights that verify after they are loaded are those that were resolved unless the file was
\* changed and changed back, and eviction spares the file that was asked for last
\* (weight_files.py:104-138, 200-226, inference_session.py:118-143).
THEOREM AnswersPresent == IdentitySpec => AnswersArePresent
<1>1. AnswersInv /\ AnswersInv' /\ [IdentityNext]_identityVars =>
        /\ [\A r \in Readers :
              /\ role[r] # "native" /\ ~(role[r] = "digest" /\ metadata)
              /\ call'[r] # call[r] /\ call'[r].step = "idle" /\ call'[r].result # {}
              => call'[r].result = Present(call'[r].of)]_identityVars
        /\ [\A r \in Readers : role[r] # "native" /\ TableLimit > 1 =>
              latest[r] \ {call'[r].of} \subseteq {e.of : e \in Range(table'[r])}]_identityVars
  BY StepReturnsPresent, StepKeepsLatest
<1>2. QED
  BY <1>1, InitAnswers, NextAnswers, LoadedHolds, PTL
  DEF IdentitySpec, AnswersArePresent, ReturnsPresent, LatestIsKept

-----------------------------------------------------------------------------
(* The inference session. *)
\* The names that every step needs to see through.
USE DEF modelVars, placeVars, prepareVars, nativeVars, callVars, imageVars, Clear,
        NoFile

(***************************************************************************)
(* Type correctness, of the flags and of everything else: Zenon sees the   *)
(* flags, SMT the rest.                                                    *)
(***************************************************************************)
FlagsOK == /\ hooks \in BOOLEAN
           /\ preparing \in BOOLEAN
           /\ recorded \in BOOLEAN
           /\ registered \in BOOLEAN

DataOK ==
    /\ version \in [Files -> Nat]
    /\ key \in Keys \cup {NoKey}
    /\ signature \in [Files -> Nat]
    /\ weights \in [Files -> Nat]
    /\ placement \in Placements \cup {"none"}
    /\ execution \in Placements \cup {"managed", "none"}
    /\ pool \subseteq Files
    /\ pc \in Pcs
    /\ action \in Commands
    /\ request \in Requests \cup {NoRequest}
    /\ reply \in {"none", "ok", "error"}
    /\ taken \in [Files -> Nat]
    /\ todo \subseteq Files
    /\ used \in [Files -> Nat]
    /\ onDisk \in [Files -> Nat]

\* The types of the flags and of the data are stated apart.
LEMMA TypeParts == /\ TypeOK <=> FlagsOK /\ DataOK
                   /\ TypeOK' <=> FlagsOK' /\ DataOK'
  BY DEF TypeOK, FlagsOK, DataOK

\* The types hold at first.
LEMMA InitType == Init => TypeOK
<1>1. Init => FlagsOK
  BY Zenon DEF Init, FlagsOK
<1>2. Init => DataOK
  BY DEF Init, DataOK, Pcs, Commands, Placements
<1>3. QED
  BY <1>1, <1>2, TypeParts

\* A request, or none, has the types of its parts.
LEMMA RequestType ==
    ASSUME DataOK
    PROVE  /\ request.key \in Keys \cup {NoKey}
           /\ request.sources \in SUBSET Files
           /\ request.place \in Placements
<1>1. CASE request \in Requests
  BY <1>1, SessionAssumption
<1>2. CASE request = NoRequest
  BY <1>2 DEF NoRequest, Placements
<1>3. QED
  BY <1>1, <1>2 DEF DataOK

\* Every step keeps the types of the flags.
LEMMA NextFlags == TypeOK /\ [Next]_vars => FlagsOK'
<1> SUFFICES ASSUME TypeOK, [Next]_vars PROVE FlagsOK'
  OBVIOUS
<1> USE DEF TypeOK, FlagsOK
<1>1. ASSUME NEW r \in Requests, Generate(r) \/ Prepare(r) PROVE FlagsOK'
  BY Zenon, <1>1 DEF Generate, Prepare, Receive
<1>2. ASSUME Deselect \/ Background \/ Release \/ Reject PROVE FlagsOK'
  BY Zenon, <1>2 DEF Deselect, Background, Release, Reject, Receive
<1>3. CASE Help
  BY Zenon, <1>3 DEF Help, Answer
<1>4. CASE PrintConfig
  BY Zenon, <1>4 DEF PrintConfig
<1>5. CASE Resolve
  BY Zenon, <1>5 DEF Resolve
<1>6. ASSUME NEW f \in Files, Sign(f) PROVE FlagsOK'
  BY Zenon, <1>6 DEF Sign
<1>7. CASE Hit
  BY Zenon, <1>7 DEF Hit, SameModel
<1>8. CASE Miss
  BY Zenon, <1>8 DEF Miss, Registered
<1>9. ASSUME NEW f \in Files, Load(f) PROVE FlagsOK'
  BY Zenon, <1>9 DEF Load
<1>10. CASE Loaded
  BY Zenon, <1>10 DEF Loaded
<1>11. ASSUME NEW f \in Files, Recheck(f) PROVE FlagsOK'
  BY Zenon, <1>11 DEF Recheck, Unchanged
<1>12. CASE Retain
  BY Zenon, <1>12 DEF Retain
<1>13. CASE Place
  BY Zenon, <1>13 DEF Place, HooksOfPlacement
<1>14. CASE PrepareNative
  BY Zenon, <1>14 DEF PrepareNative
<1>15. CASE Record
  BY Zenon, <1>15 DEF Record, Recorded
<1>16. CASE Prepared
  BY Zenon, <1>16 DEF Prepared
<1>17. CASE Run
  BY Zenon, <1>17 DEF Run
<1>18. ASSUME NEW f \in Files, Verify(f) PROVE FlagsOK'
  BY Zenon, <1>18 DEF Verify, Unchanged
<1>19. CASE Verified
  BY Zenon, <1>19 DEF Verified
<1>20. CASE Publish
  BY Zenon, <1>20 DEF Publish
<1>21. CASE Succeed
  BY Zenon, <1>21 DEF Succeed, Answer
<1>22. CASE Fail
  BY Zenon, <1>22 DEF Fail, Answer
<1>23. CASE Stop
  BY Zenon, <1>23 DEF Stop
<1>24. CASE Start
  BY Zenon, <1>24 DEF Start
<1>25. ASSUME NEW f \in Files, Edit(f) PROVE FlagsOK'
  BY Zenon, <1>25 DEF Edit
<1>26. CASE UNCHANGED vars
  BY Zenon, <1>26 DEF vars
<1>27. QED
  BY Zenon, <1>1, <1>2, <1>3, <1>4, <1>5, <1>6, <1>7, <1>8, <1>9, <1>10, <1>11, <1>12,
     <1>13, <1>14, <1>15, <1>16, <1>17, <1>18, <1>19, <1>20, <1>21, <1>22, <1>23,
     <1>24, <1>25, <1>26 DEF Next

\* Every step keeps the types of the data.
LEMMA NextData == DataOK /\ [Next]_vars => DataOK'
<1> SUFFICES ASSUME DataOK, [Next]_vars PROVE DataOK'
  OBVIOUS
<1> USE RequestType DEF DataOK, Pcs, Busy, Commands, Placements, ToVerify, FilesOf
<1>1. ASSUME NEW r \in Requests, Generate(r) \/ Prepare(r) PROVE DataOK'
  BY <1>1 DEF Generate, Prepare, Receive
<1>2. ASSUME Deselect \/ Background \/ Release \/ Reject PROVE DataOK'
  BY <1>2 DEF Deselect, Background, Release, Reject, Receive
<1>3. CASE Help
  BY <1>3 DEF Help, Answer
<1>4. CASE PrintConfig
  BY <1>4 DEF PrintConfig
<1>5. CASE Resolve
  BY <1>5 DEF Resolve
<1>6. ASSUME NEW f \in Files, Sign(f) PROVE DataOK'
  BY <1>6 DEF Sign
<1>7. CASE Hit
  BY <1>7 DEF Hit, SameModel
<1>8. CASE Miss
  BY <1>8 DEF Miss, Registered
<1>9. ASSUME NEW f \in Files, Load(f) PROVE DataOK'
  BY <1>9 DEF Load
<1>10. CASE Loaded
  BY <1>10 DEF Loaded
<1>11. ASSUME NEW f \in Files, Recheck(f) PROVE DataOK'
  BY <1>11 DEF Recheck, Unchanged
<1>12. CASE Retain
  BY <1>12 DEF Retain
<1>13. CASE Place
  BY <1>13 DEF Place, HooksOfPlacement
<1>14. CASE PrepareNative
  BY <1>14 DEF PrepareNative
<1>15. CASE Record
  BY <1>15 DEF Record, Recorded
<1>16. CASE Prepared
  BY <1>16 DEF Prepared
<1>17. CASE Run
  BY <1>17 DEF Run
<1>18. ASSUME NEW f \in Files, Verify(f) PROVE DataOK'
  BY <1>18 DEF Verify, Unchanged
<1>19. CASE Verified
  BY <1>19 DEF Verified
<1>20. CASE Publish
  BY <1>20 DEF Publish
<1>21. CASE Succeed
  BY <1>21 DEF Succeed, Answer
<1>22. CASE Fail
  BY <1>22 DEF Fail, Answer
<1>23. CASE Stop
  BY <1>23 DEF Stop
<1>24. CASE Start
  BY <1>24 DEF Start
<1>25. ASSUME NEW f \in Files, Edit(f) PROVE DataOK'
  BY <1>25 DEF Edit
<1>26. CASE UNCHANGED vars
  BY <1>26 DEF vars
<1>27. QED
  BY <1>1, <1>2, <1>3, <1>4, <1>5, <1>6, <1>7, <1>8, <1>9, <1>10, <1>11, <1>12,
     <1>13, <1>14, <1>15, <1>16, <1>17, <1>18, <1>19, <1>20, <1>21, <1>22, <1>23,
     <1>24, <1>25, <1>26 DEF Next

\* Every step keeps the types.
LEMMA NextType == TypeOK /\ [Next]_vars => TypeOK'
  BY NextFlags, NextData, TypeParts

\* Every variable keeps its type in every behaviour of the worker.
THEOREM SessionTypeOK == Spec => []TypeOK
<1>1. Init => TypeOK
  BY InitType
<1>2. TypeOK /\ [Next]_vars => TypeOK'
  BY NextType
<1>3. QED
  BY <1>1, <1>2, PTL DEF Spec

-----------------------------------------------------------------------------
(***************************************************************************)
(* The inductive invariant.  Versions only grow: what was taken before a   *)
(* load is at most what the load read, which is at most what is on disk;   *)
(* a later check that finds it unchanged closes the interval, file by file.*)
(***************************************************************************)
VersionInv == \A f \in Files :
    /\ version[f] >= 1
    /\ taken[f] <= version[f] /\ signature[f] <= version[f]
    /\ weights[f] <= version[f] /\ onDisk[f] <= version[f]

\* The signature pipeline() takes names the files visited so far.
SignInv ==
    /\ pc = "parse" => taken = NoFile
    /\ pc = "sign" /\ Retained => /\ todo \subseteq request.sources
                                 /\ FilesOf(taken) = request.sources \ todo

\* While a pipeline is built nothing is retained; what was read of a file is
\* not older than the signature taken before.
LoadInv ==
    /\ pc \in {"load", "recheck"} =>
          key = NoKey /\ (Retained => FilesOf(taken) = request.sources)
    /\ pc \in {"load", "recheck"} /\ Retained /\ ~Native =>
          /\ todo \subseteq request.sources
          /\ FilesOf(weights) \subseteq request.sources
    /\ pc = "load" /\ Retained /\ ~Native =>
          \A f \in request.sources \ todo : taken[f] <= weights[f]
    /\ pc = "recheck" =>
          /\ Retained
          /\ ~Native => \A f \in request.sources :
                /\ taken[f] <= weights[f]
                /\ f \notin todo => weights[f] = taken[f]

\* From the hit or the load to the publication the session holds the request's
\* pipeline.
Holds == key = request.key /\ FilesOf(signature) = request.sources
HoldInv == pc \in {"place", "record", "run", "verify", "publish"} /\ Retained => Holds

\* The image against its files, before verify() has read a file and after.
ImageInv ==
    /\ pc = "verify" /\ ~preparing /\ Retained => \A f \in request.sources :
          /\ Native => used[f] = onDisk[f]
          /\ ~Native => used[f] = signature[f] /\ used[f] <= onDisk[f]
          /\ f \notin todo => used[f] = onDisk[f]
    /\ pc = "publish" /\ Retained => \A f \in request.sources : used[f] = onDisk[f]

SnapshotInv == /\ DataOK /\ VersionInv /\ SignInv /\ LoadInv /\ HoldInv
               /\ RetainedMatchesSignature /\ ImageInv

\* Every step keeps what was read of a file in the past of the disk.
LEMMA NextVersion == DataOK /\ VersionInv /\ [Next]_vars => VersionInv'
<1> SUFFICES ASSUME DataOK /\ VersionInv, [Next]_vars PROVE VersionInv'
  OBVIOUS
<1> USE DEF DataOK, VersionInv
<1>1. ASSUME NEW r \in Requests, Generate(r) \/ Prepare(r) PROVE VersionInv'
  BY <1>1 DEF Generate, Prepare, Receive
<1>2. ASSUME Deselect \/ Background \/ Release \/ Reject PROVE VersionInv'
  BY <1>2 DEF Deselect, Background, Release, Reject, Receive
<1>3. CASE Help
  BY <1>3 DEF Help, Answer
<1>4. CASE PrintConfig
  BY <1>4 DEF PrintConfig
<1>5. CASE Resolve
  BY <1>5 DEF Resolve
<1>6. ASSUME NEW f \in Files, Sign(f) PROVE VersionInv'
  BY <1>6 DEF Sign
<1>7. CASE Hit
  BY <1>7 DEF Hit, SameModel
<1>8. CASE Miss
  BY <1>8 DEF Miss, Registered
<1>9. ASSUME NEW f \in Files, Load(f) PROVE VersionInv'
  BY <1>9 DEF Load
<1>10. CASE Loaded
  BY <1>10 DEF Loaded
<1>11. ASSUME NEW f \in Files, Recheck(f) PROVE VersionInv'
  BY <1>11 DEF Recheck, Unchanged
<1>12. CASE Retain
  BY <1>12 DEF Retain
<1>13. CASE Place
  BY <1>13 DEF Place, HooksOfPlacement
<1>14. CASE PrepareNative
  BY <1>14 DEF PrepareNative
<1>15. CASE Record
  BY <1>15 DEF Record, Recorded
<1>16. CASE Prepared
  BY <1>16 DEF Prepared
<1>17. CASE Run
  BY <1>17 DEF Run
<1>18. ASSUME NEW f \in Files, Verify(f) PROVE VersionInv'
  BY <1>18 DEF Verify, Unchanged
<1>19. CASE Verified
  BY <1>19 DEF Verified
<1>20. CASE Publish
  BY <1>20 DEF Publish
<1>21. CASE Succeed
  BY <1>21 DEF Succeed, Answer
<1>22. CASE Fail
  BY <1>22 DEF Fail, Answer
<1>23. CASE Stop
  BY <1>23 DEF Stop
<1>24. CASE Start
  BY <1>24 DEF Start
<1>25. ASSUME NEW f \in Files, Edit(f) PROVE VersionInv'
  BY <1>25 DEF Edit
<1>26. CASE UNCHANGED vars
  BY <1>26 DEF vars
<1>27. QED
  BY <1>1, <1>2, <1>3, <1>4, <1>5, <1>6, <1>7, <1>8, <1>9, <1>10, <1>11, <1>12,
     <1>13, <1>14, <1>15, <1>16, <1>17, <1>18, <1>19, <1>20, <1>21, <1>22, <1>23,
     <1>24, <1>25, <1>26 DEF Next

\* Every step keeps the signature taken before the load in order.
LEMMA NextSign == DataOK /\ VersionInv /\ SignInv /\ [Next]_vars => SignInv'
<1> SUFFICES ASSUME DataOK /\ VersionInv /\ SignInv, [Next]_vars PROVE SignInv'
  OBVIOUS
<1> USE RequestType DEF DataOK, VersionInv, SignInv, Retained, FilesOf, Busy
<1>1. ASSUME NEW r \in Requests, Generate(r) \/ Prepare(r) PROVE SignInv'
  BY <1>1 DEF Generate, Prepare, Receive
<1>2. ASSUME Deselect \/ Background \/ Release \/ Reject PROVE SignInv'
  BY <1>2 DEF Deselect, Background, Release, Reject, Receive
<1>3. CASE Help
  BY <1>3 DEF Help, Answer
<1>4. CASE PrintConfig
  BY <1>4 DEF PrintConfig
<1>5. CASE Resolve
  BY <1>5 DEF Resolve
<1>6. ASSUME NEW f \in Files, Sign(f) PROVE SignInv'
  BY <1>6 DEF Sign
<1>7. CASE Hit
  BY <1>7 DEF Hit, SameModel
<1>8. CASE Miss
  BY <1>8 DEF Miss, Registered
<1>9. ASSUME NEW f \in Files, Load(f) PROVE SignInv'
  BY <1>9 DEF Load
<1>10. CASE Loaded
  BY <1>10 DEF Loaded
<1>11. ASSUME NEW f \in Files, Recheck(f) PROVE SignInv'
  BY <1>11 DEF Recheck, Unchanged
<1>12. CASE Retain
  BY <1>12 DEF Retain
<1>13. CASE Place
  BY <1>13 DEF Place, HooksOfPlacement
<1>14. CASE PrepareNative
  BY <1>14 DEF PrepareNative
<1>15. CASE Record
  BY <1>15 DEF Record, Recorded
<1>16. CASE Prepared
  BY <1>16 DEF Prepared
<1>17. CASE Run
  BY <1>17 DEF Run
<1>18. ASSUME NEW f \in Files, Verify(f) PROVE SignInv'
  BY <1>18 DEF Verify, Unchanged
<1>19. CASE Verified
  BY <1>19 DEF Verified
<1>20. CASE Publish
  BY <1>20 DEF Publish
<1>21. CASE Succeed
  BY <1>21 DEF Succeed, Answer
<1>22. CASE Fail
  BY <1>22 DEF Fail, Answer
<1>23. CASE Stop
  BY <1>23 DEF Stop
<1>24. CASE Start
  BY <1>24 DEF Start
<1>25. ASSUME NEW f \in Files, Edit(f) PROVE SignInv'
  BY <1>25 DEF Edit
<1>26. CASE UNCHANGED vars
  BY <1>26 DEF vars
<1>27. QED
  BY <1>1, <1>2, <1>3, <1>4, <1>5, <1>6, <1>7, <1>8, <1>9, <1>10, <1>11, <1>12,
     <1>13, <1>14, <1>15, <1>16, <1>17, <1>18, <1>19, <1>20, <1>21, <1>22, <1>23,
     <1>24, <1>25, <1>26 DEF Next

\* Every step keeps the bytes that were loaded between the two signatures.
LEMMA NextLoad == DataOK /\ VersionInv /\ SignInv /\ LoadInv /\ [Next]_vars => LoadInv'
<1> SUFFICES ASSUME DataOK /\ VersionInv /\ SignInv /\ LoadInv, [Next]_vars PROVE LoadInv'
  OBVIOUS
<1> USE RequestType DEF DataOK, VersionInv, SignInv, LoadInv, Retained, Native, FilesOf, Busy
<1>1. ASSUME NEW r \in Requests, Generate(r) \/ Prepare(r) PROVE LoadInv'
  BY <1>1 DEF Generate, Prepare, Receive
<1>2. ASSUME Deselect \/ Background \/ Release \/ Reject PROVE LoadInv'
  BY <1>2 DEF Deselect, Background, Release, Reject, Receive
<1>3. CASE Help
  BY <1>3 DEF Help, Answer
<1>4. CASE PrintConfig
  BY <1>4 DEF PrintConfig
<1>5. CASE Resolve
  BY <1>5 DEF Resolve
<1>6. ASSUME NEW f \in Files, Sign(f) PROVE LoadInv'
  BY <1>6 DEF Sign
<1>7. CASE Hit
  BY <1>7 DEF Hit, SameModel
<1>8. CASE Miss
  BY <1>8 DEF Miss, Registered
<1>9. ASSUME NEW f \in Files, Load(f) PROVE LoadInv'
  BY <1>9 DEF Load
<1>10. CASE Loaded
  BY <1>10 DEF Loaded
<1>11. ASSUME NEW f \in Files, Recheck(f) PROVE LoadInv'
  BY <1>11 DEF Recheck, Unchanged
<1>12. CASE Retain
  BY <1>12 DEF Retain
<1>13. CASE Place
  BY <1>13 DEF Place, HooksOfPlacement
<1>14. CASE PrepareNative
  BY <1>14 DEF PrepareNative
<1>15. CASE Record
  BY <1>15 DEF Record, Recorded
<1>16. CASE Prepared
  BY <1>16 DEF Prepared
<1>17. CASE Run
  BY <1>17 DEF Run
<1>18. ASSUME NEW f \in Files, Verify(f) PROVE LoadInv'
  BY <1>18 DEF Verify, Unchanged
<1>19. CASE Verified
  BY <1>19 DEF Verified
<1>20. CASE Publish
  BY <1>20 DEF Publish
<1>21. CASE Succeed
  BY <1>21 DEF Succeed, Answer
<1>22. CASE Fail
  BY <1>22 DEF Fail, Answer
<1>23. CASE Stop
  BY <1>23 DEF Stop
<1>24. CASE Start
  BY <1>24 DEF Start
<1>25. ASSUME NEW f \in Files, Edit(f) PROVE LoadInv'
  BY <1>25 DEF Edit
<1>26. CASE UNCHANGED vars
  BY <1>26 DEF vars
<1>27. QED
  BY <1>1, <1>2, <1>3, <1>4, <1>5, <1>6, <1>7, <1>8, <1>9, <1>10, <1>11, <1>12,
     <1>13, <1>14, <1>15, <1>16, <1>17, <1>18, <1>19, <1>20, <1>21, <1>22, <1>23,
     <1>24, <1>25, <1>26 DEF Next

\* Every step keeps what a command holds at its phase.
LEMMA NextHold == DataOK /\ VersionInv /\ SignInv /\ LoadInv /\ HoldInv /\ [Next]_vars => HoldInv'
<1> SUFFICES ASSUME DataOK /\ VersionInv /\ SignInv /\ LoadInv /\ HoldInv, [Next]_vars PROVE HoldInv'
  OBVIOUS
<1> USE RequestType DEF DataOK, VersionInv, SignInv, LoadInv, HoldInv, Holds, Retained, Native, FilesOf, Busy
<1>1. ASSUME NEW r \in Requests, Generate(r) \/ Prepare(r) PROVE HoldInv'
  BY <1>1 DEF Generate, Prepare, Receive
<1>2. ASSUME Deselect \/ Background \/ Release \/ Reject PROVE HoldInv'
  BY <1>2 DEF Deselect, Background, Release, Reject, Receive
<1>3. CASE Help
  BY <1>3 DEF Help, Answer
<1>4. CASE PrintConfig
  BY <1>4 DEF PrintConfig
<1>5. CASE Resolve
  BY <1>5 DEF Resolve
<1>6. ASSUME NEW f \in Files, Sign(f) PROVE HoldInv'
  BY <1>6 DEF Sign
<1>7. CASE Hit
  BY <1>7 DEF Hit, SameModel
<1>8. CASE Miss
  BY <1>8 DEF Miss, Registered
<1>9. ASSUME NEW f \in Files, Load(f) PROVE HoldInv'
  BY <1>9 DEF Load
<1>10. CASE Loaded
  BY <1>10 DEF Loaded
<1>11. ASSUME NEW f \in Files, Recheck(f) PROVE HoldInv'
  BY <1>11 DEF Recheck, Unchanged
<1>12. CASE Retain
  BY <1>12 DEF Retain
<1>13. CASE Place
  BY <1>13 DEF Place, HooksOfPlacement
<1>14. CASE PrepareNative
  BY <1>14 DEF PrepareNative
<1>15. CASE Record
  BY <1>15 DEF Record, Recorded
<1>16. CASE Prepared
  BY <1>16 DEF Prepared
<1>17. CASE Run
  BY <1>17 DEF Run
<1>18. ASSUME NEW f \in Files, Verify(f) PROVE HoldInv'
  BY <1>18 DEF Verify, Unchanged
<1>19. CASE Verified
  BY <1>19 DEF Verified
<1>20. CASE Publish
  BY <1>20 DEF Publish
<1>21. CASE Succeed
  BY <1>21 DEF Succeed, Answer
<1>22. CASE Fail
  BY <1>22 DEF Fail, Answer
<1>23. CASE Stop
  BY <1>23 DEF Stop
<1>24. CASE Start
  BY <1>24 DEF Start
<1>25. ASSUME NEW f \in Files, Edit(f) PROVE HoldInv'
  BY <1>25 DEF Edit
<1>26. CASE UNCHANGED vars
  BY <1>26 DEF vars
<1>27. QED
  BY <1>1, <1>2, <1>3, <1>4, <1>5, <1>6, <1>7, <1>8, <1>9, <1>10, <1>11, <1>12,
     <1>13, <1>14, <1>15, <1>16, <1>17, <1>18, <1>19, <1>20, <1>21, <1>22, <1>23,
     <1>24, <1>25, <1>26 DEF Next

\* Every step keeps the retained pipeline what its signature names.
LEMMA NextMatches == DataOK /\ LoadInv /\ RetainedMatchesSignature /\ [Next]_vars => RetainedMatchesSignature'
<1> SUFFICES ASSUME DataOK /\ LoadInv /\ RetainedMatchesSignature, [Next]_vars PROVE RetainedMatchesSignature'
  OBVIOUS
<1> USE RequestType, SessionAssumption DEF DataOK, LoadInv, RetainedMatchesSignature, Retained, Native, FilesOf
<1>1. ASSUME NEW r \in Requests, Generate(r) \/ Prepare(r) PROVE RetainedMatchesSignature'
  BY <1>1 DEF Generate, Prepare, Receive
<1>2. ASSUME Deselect \/ Background \/ Release \/ Reject PROVE RetainedMatchesSignature'
  BY <1>2 DEF Deselect, Background, Release, Reject, Receive
<1>3. CASE Help
  BY <1>3 DEF Help, Answer
<1>4. CASE PrintConfig
  BY <1>4 DEF PrintConfig
<1>5. CASE Resolve
  BY <1>5 DEF Resolve
<1>6. ASSUME NEW f \in Files, Sign(f) PROVE RetainedMatchesSignature'
  BY <1>6 DEF Sign
<1>7. CASE Hit
  BY <1>7 DEF Hit, SameModel
<1>8. CASE Miss
  BY <1>8 DEF Miss, Registered
<1>9. ASSUME NEW f \in Files, Load(f) PROVE RetainedMatchesSignature'
  BY <1>9 DEF Load
<1>10. CASE Loaded
  BY <1>10 DEF Loaded
<1>11. ASSUME NEW f \in Files, Recheck(f) PROVE RetainedMatchesSignature'
  BY <1>11 DEF Recheck, Unchanged
<1>12. CASE Retain
  BY <1>12 DEF Retain
<1>13. CASE Place
  BY <1>13 DEF Place, HooksOfPlacement
<1>14. CASE PrepareNative
  BY <1>14 DEF PrepareNative
<1>15. CASE Record
  BY <1>15 DEF Record, Recorded
<1>16. CASE Prepared
  BY <1>16 DEF Prepared
<1>17. CASE Run
  BY <1>17 DEF Run
<1>18. ASSUME NEW f \in Files, Verify(f) PROVE RetainedMatchesSignature'
  BY <1>18 DEF Verify, Unchanged
<1>19. CASE Verified
  BY <1>19 DEF Verified
<1>20. CASE Publish
  BY <1>20 DEF Publish
<1>21. CASE Succeed
  BY <1>21 DEF Succeed, Answer
<1>22. CASE Fail
  BY <1>22 DEF Fail, Answer
<1>23. CASE Stop
  BY <1>23 DEF Stop
<1>24. CASE Start
  BY <1>24 DEF Start
<1>25. ASSUME NEW f \in Files, Edit(f) PROVE RetainedMatchesSignature'
  BY <1>25 DEF Edit
<1>26. CASE UNCHANGED vars
  BY <1>26 DEF vars
<1>27. QED
  BY <1>1, <1>2, <1>3, <1>4, <1>5, <1>6, <1>7, <1>8, <1>9, <1>10, <1>11, <1>12,
     <1>13, <1>14, <1>15, <1>16, <1>17, <1>18, <1>19, <1>20, <1>21, <1>22, <1>23,
     <1>24, <1>25, <1>26 DEF Next

\* Every step keeps the bytes of an image between its signature and the disk.
LEMMA NextImage == SnapshotInv /\ [Next]_vars => ImageInv'
<1> SUFFICES ASSUME SnapshotInv, [Next]_vars PROVE ImageInv'
  OBVIOUS
<1> USE RequestType DEF SnapshotInv, DataOK, VersionInv, HoldInv, Holds, ImageInv, RetainedMatchesSignature, Retained, Native, FilesOf, ToVerify, Busy
<1>1. ASSUME NEW r \in Requests, Generate(r) \/ Prepare(r) PROVE ImageInv'
  BY <1>1 DEF Generate, Prepare, Receive
<1>2. ASSUME Deselect \/ Background \/ Release \/ Reject PROVE ImageInv'
  BY <1>2 DEF Deselect, Background, Release, Reject, Receive
<1>3. CASE Help
  BY <1>3 DEF Help, Answer
<1>4. CASE PrintConfig
  BY <1>4 DEF PrintConfig
<1>5. CASE Resolve
  BY <1>5 DEF Resolve
<1>6. ASSUME NEW f \in Files, Sign(f) PROVE ImageInv'
  BY <1>6 DEF Sign
<1>7. CASE Hit
  BY <1>7 DEF Hit, SameModel
<1>8. CASE Miss
  BY <1>8 DEF Miss, Registered
<1>9. ASSUME NEW f \in Files, Load(f) PROVE ImageInv'
  BY <1>9 DEF Load
<1>10. CASE Loaded
  BY <1>10 DEF Loaded
<1>11. ASSUME NEW f \in Files, Recheck(f) PROVE ImageInv'
  BY <1>11 DEF Recheck, Unchanged
<1>12. CASE Retain
  BY <1>12 DEF Retain
<1>13. CASE Place
  BY <1>13 DEF Place, HooksOfPlacement
<1>14. CASE PrepareNative
  BY <1>14 DEF PrepareNative
<1>15. CASE Record
  BY <1>15 DEF Record, Recorded
<1>16. CASE Prepared
  BY <1>16 DEF Prepared
<1>17. CASE Run
  BY <1>17 DEF Run
<1>18. ASSUME NEW f \in Files, Verify(f) PROVE ImageInv'
  BY <1>18 DEF Verify, Unchanged
<1>19. CASE Verified
  BY <1>19 DEF Verified
<1>20. CASE Publish
  BY <1>20 DEF Publish
<1>21. CASE Succeed
  BY <1>21 DEF Succeed, Answer
<1>22. CASE Fail
  BY <1>22 DEF Fail, Answer
<1>23. CASE Stop
  BY <1>23 DEF Stop
<1>24. CASE Start
  BY <1>24 DEF Start
<1>25. ASSUME NEW f \in Files, Edit(f) PROVE ImageInv'
  BY <1>25 DEF Edit
<1>26. CASE UNCHANGED vars
  BY <1>26 DEF vars
<1>27. QED
  BY <1>1, <1>2, <1>3, <1>4, <1>5, <1>6, <1>7, <1>8, <1>9, <1>10, <1>11, <1>12,
     <1>13, <1>14, <1>15, <1>16, <1>17, <1>18, <1>19, <1>20, <1>21, <1>22, <1>23,
     <1>24, <1>25, <1>26 DEF Next

\* The invariant of snapshots holds at first.
LEMMA InitSnapshot == Init => SnapshotInv
<1>1. Init => DataOK
  BY InitType, TypeParts
<1>2. Init => VersionInv /\ SignInv /\ LoadInv /\ HoldInv /\ ImageInv
  BY DEF Init, VersionInv, SignInv, LoadInv, HoldInv, ImageInv
<1>3. Init => RetainedMatchesSignature
  BY SessionAssumption DEF Init, RetainedMatchesSignature
<1>4. QED
  BY <1>1, <1>2, <1>3 DEF SnapshotInv

\* Every step keeps the invariant of snapshots.
LEMMA NextSnapshot == SnapshotInv /\ [Next]_vars => SnapshotInv'
  BY NextData, NextVersion, NextSign, NextLoad, NextHold, NextMatches, NextImage
     DEF SnapshotInv

\* The invariant of snapshots holds always.
LEMMA SessionSnapshot == Spec => []SnapshotInv
  BY InitSnapshot, NextSnapshot, PTL DEF Spec

\* A pipeline found by its key and signature was read from exactly those states
\* of exactly those files, however the files changed around its load.
THEOREM SessionRetainedMatchesSignature == Spec => []RetainedMatchesSignature
<1>1. SnapshotInv => RetainedMatchesSignature
  BY DEF SnapshotInv
<1>2. QED
  BY <1>1, SessionSnapshot, PTL

\* A published image of a retained pipeline was made from one state of each of
\* its files, all of them on disk together when it was made.
THEOREM SessionPublishedIsOneSnapshot == Spec => []PublishedIsOneSnapshot
<1>1. SnapshotInv => PublishedIsOneSnapshot
  BY DEF SnapshotInv, ImageInv, PublishedIsOneSnapshot
<1>2. QED
  BY <1>1, SessionSnapshot, PTL

-----------------------------------------------------------------------------
(***************************************************************************)
(* What a preparation, an error and a release leave behind.                *)
(***************************************************************************)
IsRequested == Holds /\ (Native \/ placement = request.place)

PrepareInv ==
    /\ preparing => action = "prepare" /\ pc \in Busy \ {"run", "publish", "final"}
    /\ action = "prepare" /\ pc \in Busy /\ ~preparing => pc = "final"
    /\ preparing /\ pc \in Busy \ {"parse", "prepared"} => Retained
    /\ preparing /\ pc \in {"parse", "sign", "load", "recheck", "place", "record"} => ~recorded
    /\ pc = "record" /\ Retained /\ ~Native => placement = request.place
    /\ preparing /\ recorded /\ pc \in {"verify", "prepared"} => IsRequested
    /\ action = "prepare" /\ pc = "final" => IsRequested

AnswerInv ==
    /\ pc \in Busy => reply = "none"
    /\ action = "release" => pc = "idle"
    /\ pc = "stopped" => action = "none"

NativeInv ==
    /\ key \in NativeKeys => registered
    /\ pc \in {"load", "recheck", "place"} /\ Native => registered
    /\ pool # {} => registered

CommandInv == /\ PrepareInv /\ AnswerInv /\ NativeInv
              /\ PreparedIsRequested /\ ErrorLeavesNothing /\ ReleaseFreesSources

\* The absence of a key is no key of the native engine.
LEMMA NoNativeKey == NoKey \notin NativeKeys
  BY SessionAssumption

\* Every step keeps what a preparation owes at its phase.
LEMMA NextPrepare == SnapshotInv /\ PrepareInv /\ AnswerInv /\ [Next]_vars => PrepareInv'
<1> SUFFICES ASSUME SnapshotInv /\ PrepareInv /\ AnswerInv, [Next]_vars PROVE PrepareInv'
  OBVIOUS
<1> USE RequestType DEF SnapshotInv, DataOK, HoldInv, PrepareInv, AnswerInv, IsRequested, Holds, Retained, Native, FilesOf, Busy
<1>1. ASSUME NEW r \in Requests, Generate(r) \/ Prepare(r) PROVE PrepareInv'
  BY <1>1 DEF Generate, Prepare, Receive
<1>2. ASSUME Deselect \/ Background \/ Release \/ Reject PROVE PrepareInv'
  BY <1>2 DEF Deselect, Background, Release, Reject, Receive
<1>3. CASE Help
  BY <1>3 DEF Help, Answer
<1>4. CASE PrintConfig
  BY <1>4 DEF PrintConfig
<1>5. CASE Resolve
  BY <1>5 DEF Resolve
<1>6. ASSUME NEW f \in Files, Sign(f) PROVE PrepareInv'
  BY <1>6 DEF Sign
<1>7. CASE Hit
  BY <1>7 DEF Hit, SameModel
<1>8. CASE Miss
  BY <1>8 DEF Miss, Registered
<1>9. ASSUME NEW f \in Files, Load(f) PROVE PrepareInv'
  BY <1>9 DEF Load
<1>10. CASE Loaded
  BY <1>10 DEF Loaded
<1>11. ASSUME NEW f \in Files, Recheck(f) PROVE PrepareInv'
  BY <1>11 DEF Recheck, Unchanged
<1>12. CASE Retain
  BY <1>12 DEF Retain
<1>13. CASE Place
  BY <1>13 DEF Place, HooksOfPlacement
<1>14. CASE PrepareNative
  BY <1>14 DEF PrepareNative
<1>15. CASE Record
  BY <1>15 DEF Record, Recorded
<1>16. CASE Prepared
  BY <1>16 DEF Prepared
<1>17. CASE Run
  BY <1>17 DEF Run
<1>18. ASSUME NEW f \in Files, Verify(f) PROVE PrepareInv'
  BY <1>18 DEF Verify, Unchanged
<1>19. CASE Verified
  BY <1>19 DEF Verified
<1>20. CASE Publish
  BY <1>20 DEF Publish
<1>21. CASE Succeed
  BY <1>21 DEF Succeed, Answer
<1>22. CASE Fail
  BY <1>22 DEF Fail, Answer
<1>23. CASE Stop
  BY <1>23 DEF Stop
<1>24. CASE Start
  BY <1>24 DEF Start
<1>25. ASSUME NEW f \in Files, Edit(f) PROVE PrepareInv'
  BY <1>25 DEF Edit
<1>26. CASE UNCHANGED vars
  BY <1>26 DEF vars
<1>27. QED
  BY <1>1, <1>2, <1>3, <1>4, <1>5, <1>6, <1>7, <1>8, <1>9, <1>10, <1>11, <1>12,
     <1>13, <1>14, <1>15, <1>16, <1>17, <1>18, <1>19, <1>20, <1>21, <1>22, <1>23,
     <1>24, <1>25, <1>26 DEF Next

\* Every step keeps what an answer may say at the phase it is given.
LEMMA NextAnswer == AnswerInv /\ [Next]_vars => AnswerInv'
<1> SUFFICES ASSUME AnswerInv, [Next]_vars PROVE AnswerInv'
  OBVIOUS
<1> USE DEF AnswerInv, Busy
<1>1. ASSUME NEW r \in Requests, Generate(r) \/ Prepare(r) PROVE AnswerInv'
  BY <1>1 DEF Generate, Prepare, Receive
<1>2. ASSUME Deselect \/ Background \/ Release \/ Reject PROVE AnswerInv'
  BY <1>2 DEF Deselect, Background, Release, Reject, Receive
<1>3. CASE Help
  BY <1>3 DEF Help, Answer
<1>4. CASE PrintConfig
  BY <1>4 DEF PrintConfig
<1>5. CASE Resolve
  BY <1>5 DEF Resolve
<1>6. ASSUME NEW f \in Files, Sign(f) PROVE AnswerInv'
  BY <1>6 DEF Sign
<1>7. CASE Hit
  BY <1>7 DEF Hit, SameModel
<1>8. CASE Miss
  BY <1>8 DEF Miss, Registered
<1>9. ASSUME NEW f \in Files, Load(f) PROVE AnswerInv'
  BY <1>9 DEF Load
<1>10. CASE Loaded
  BY <1>10 DEF Loaded
<1>11. ASSUME NEW f \in Files, Recheck(f) PROVE AnswerInv'
  BY <1>11 DEF Recheck, Unchanged
<1>12. CASE Retain
  BY <1>12 DEF Retain
<1>13. CASE Place
  BY <1>13 DEF Place, HooksOfPlacement
<1>14. CASE PrepareNative
  BY <1>14 DEF PrepareNative
<1>15. CASE Record
  BY <1>15 DEF Record, Recorded
<1>16. CASE Prepared
  BY <1>16 DEF Prepared
<1>17. CASE Run
  BY <1>17 DEF Run
<1>18. ASSUME NEW f \in Files, Verify(f) PROVE AnswerInv'
  BY <1>18 DEF Verify, Unchanged
<1>19. CASE Verified
  BY <1>19 DEF Verified
<1>20. CASE Publish
  BY <1>20 DEF Publish
<1>21. CASE Succeed
  BY <1>21 DEF Succeed, Answer
<1>22. CASE Fail
  BY <1>22 DEF Fail, Answer
<1>23. CASE Stop
  BY <1>23 DEF Stop
<1>24. CASE Start
  BY <1>24 DEF Start
<1>25. ASSUME NEW f \in Files, Edit(f) PROVE AnswerInv'
  BY <1>25 DEF Edit
<1>26. CASE UNCHANGED vars
  BY <1>26 DEF vars
<1>27. QED
  BY <1>1, <1>2, <1>3, <1>4, <1>5, <1>6, <1>7, <1>8, <1>9, <1>10, <1>11, <1>12,
     <1>13, <1>14, <1>15, <1>16, <1>17, <1>18, <1>19, <1>20, <1>21, <1>22, <1>23,
     <1>24, <1>25, <1>26 DEF Next

\* Every step keeps native sources that are read registered for release.
LEMMA NextNative == DataOK /\ HoldInv /\ NativeInv /\ [Next]_vars => NativeInv'
<1> SUFFICES ASSUME DataOK /\ HoldInv /\ NativeInv, [Next]_vars PROVE NativeInv'
  OBVIOUS
<1> USE RequestType, NoNativeKey DEF DataOK, HoldInv, Holds, NativeInv, Retained, Native
<1>1. ASSUME NEW r \in Requests, Generate(r) \/ Prepare(r) PROVE NativeInv'
  BY <1>1 DEF Generate, Prepare, Receive
<1>2. ASSUME Deselect \/ Background \/ Release \/ Reject PROVE NativeInv'
  BY <1>2 DEF Deselect, Background, Release, Reject, Receive
<1>3. CASE Help
  BY <1>3 DEF Help, Answer
<1>4. CASE PrintConfig
  BY <1>4 DEF PrintConfig
<1>5. CASE Resolve
  BY <1>5 DEF Resolve
<1>6. ASSUME NEW f \in Files, Sign(f) PROVE NativeInv'
  BY <1>6 DEF Sign
<1>7. CASE Hit
  BY <1>7 DEF Hit, SameModel
<1>8. CASE Miss
  BY <1>8 DEF Miss, Registered
<1>9. ASSUME NEW f \in Files, Load(f) PROVE NativeInv'
  BY <1>9 DEF Load
<1>10. CASE Loaded
  BY <1>10 DEF Loaded
<1>11. ASSUME NEW f \in Files, Recheck(f) PROVE NativeInv'
  BY <1>11 DEF Recheck, Unchanged
<1>12. CASE Retain
  BY <1>12 DEF Retain
<1>13. CASE Place
  BY <1>13 DEF Place, HooksOfPlacement
<1>14. CASE PrepareNative
  BY <1>14 DEF PrepareNative
<1>15. CASE Record
  BY <1>15 DEF Record, Recorded
<1>16. CASE Prepared
  BY <1>16 DEF Prepared
<1>17. CASE Run
  BY <1>17 DEF Run
<1>18. ASSUME NEW f \in Files, Verify(f) PROVE NativeInv'
  BY <1>18 DEF Verify, Unchanged
<1>19. CASE Verified
  BY <1>19 DEF Verified
<1>20. CASE Publish
  BY <1>20 DEF Publish
<1>21. CASE Succeed
  BY <1>21 DEF Succeed, Answer
<1>22. CASE Fail
  BY <1>22 DEF Fail, Answer
<1>23. CASE Stop
  BY <1>23 DEF Stop
<1>24. CASE Start
  BY <1>24 DEF Start
<1>25. ASSUME NEW f \in Files, Edit(f) PROVE NativeInv'
  BY <1>25 DEF Edit
<1>26. CASE UNCHANGED vars
  BY <1>26 DEF vars
<1>27. QED
  BY <1>1, <1>2, <1>3, <1>4, <1>5, <1>6, <1>7, <1>8, <1>9, <1>10, <1>11, <1>12,
     <1>13, <1>14, <1>15, <1>16, <1>17, <1>18, <1>19, <1>20, <1>21, <1>22, <1>23,
     <1>24, <1>25, <1>26 DEF Next

\* Every step keeps that a ready answer means the requested model.
LEMMA NextPrepared == PrepareInv /\ AnswerInv /\ PreparedIsRequested /\ [Next]_vars => PreparedIsRequested'
<1> SUFFICES ASSUME PrepareInv /\ AnswerInv /\ PreparedIsRequested, [Next]_vars PROVE PreparedIsRequested'
  OBVIOUS
<1> USE DEF PrepareInv, AnswerInv, IsRequested, Holds, PreparedIsRequested, Ready, Retained, Native, FilesOf, Busy
<1>1. ASSUME NEW r \in Requests, Generate(r) \/ Prepare(r) PROVE PreparedIsRequested'
  BY <1>1 DEF Generate, Prepare, Receive
<1>2. ASSUME Deselect \/ Background \/ Release \/ Reject PROVE PreparedIsRequested'
  BY <1>2 DEF Deselect, Background, Release, Reject, Receive
<1>3. CASE Help
  BY <1>3 DEF Help, Answer
<1>4. CASE PrintConfig
  BY <1>4 DEF PrintConfig
<1>5. CASE Resolve
  BY <1>5 DEF Resolve
<1>6. ASSUME NEW f \in Files, Sign(f) PROVE PreparedIsRequested'
  BY <1>6 DEF Sign
<1>7. CASE Hit
  BY <1>7 DEF Hit, SameModel
<1>8. CASE Miss
  BY <1>8 DEF Miss, Registered
<1>9. ASSUME NEW f \in Files, Load(f) PROVE PreparedIsRequested'
  BY <1>9 DEF Load
<1>10. CASE Loaded
  BY <1>10 DEF Loaded
<1>11. ASSUME NEW f \in Files, Recheck(f) PROVE PreparedIsRequested'
  BY <1>11 DEF Recheck, Unchanged
<1>12. CASE Retain
  BY <1>12 DEF Retain
<1>13. CASE Place
  BY <1>13 DEF Place, HooksOfPlacement
<1>14. CASE PrepareNative
  BY <1>14 DEF PrepareNative
<1>15. CASE Record
  BY <1>15 DEF Record, Recorded
<1>16. CASE Prepared
  BY <1>16 DEF Prepared
<1>17. CASE Run
  BY <1>17 DEF Run
<1>18. ASSUME NEW f \in Files, Verify(f) PROVE PreparedIsRequested'
  BY <1>18 DEF Verify, Unchanged
<1>19. CASE Verified
  BY <1>19 DEF Verified
<1>20. CASE Publish
  BY <1>20 DEF Publish
<1>21. CASE Succeed
  BY <1>21 DEF Succeed, Answer
<1>22. CASE Fail
  BY <1>22 DEF Fail, Answer
<1>23. CASE Stop
  BY <1>23 DEF Stop
<1>24. CASE Start
  BY <1>24 DEF Start
<1>25. ASSUME NEW f \in Files, Edit(f) PROVE PreparedIsRequested'
  BY <1>25 DEF Edit
<1>26. CASE UNCHANGED vars
  BY <1>26 DEF vars
<1>27. QED
  BY <1>1, <1>2, <1>3, <1>4, <1>5, <1>6, <1>7, <1>8, <1>9, <1>10, <1>11, <1>12,
     <1>13, <1>14, <1>15, <1>16, <1>17, <1>18, <1>19, <1>20, <1>21, <1>22, <1>23,
     <1>24, <1>25, <1>26 DEF Next

\* Every step keeps that an error leaves nothing.
LEMMA NextError == PrepareInv /\ AnswerInv /\ ErrorLeavesNothing /\ [Next]_vars => ErrorLeavesNothing'
<1> SUFFICES ASSUME PrepareInv /\ AnswerInv /\ ErrorLeavesNothing, [Next]_vars PROVE ErrorLeavesNothing'
  OBVIOUS
<1> USE DEF PrepareInv, AnswerInv, ErrorLeavesNothing, Ready, Busy
<1>1. ASSUME NEW r \in Requests, Generate(r) \/ Prepare(r) PROVE ErrorLeavesNothing'
  BY <1>1 DEF Generate, Prepare, Receive
<1>2. ASSUME Deselect \/ Background \/ Release \/ Reject PROVE ErrorLeavesNothing'
  BY <1>2 DEF Deselect, Background, Release, Reject, Receive
<1>3. CASE Help
  BY <1>3 DEF Help, Answer
<1>4. CASE PrintConfig
  BY <1>4 DEF PrintConfig
<1>5. CASE Resolve
  BY <1>5 DEF Resolve
<1>6. ASSUME NEW f \in Files, Sign(f) PROVE ErrorLeavesNothing'
  BY <1>6 DEF Sign
<1>7. CASE Hit
  BY <1>7 DEF Hit, SameModel
<1>8. CASE Miss
  BY <1>8 DEF Miss, Registered
<1>9. ASSUME NEW f \in Files, Load(f) PROVE ErrorLeavesNothing'
  BY <1>9 DEF Load
<1>10. CASE Loaded
  BY <1>10 DEF Loaded
<1>11. ASSUME NEW f \in Files, Recheck(f) PROVE ErrorLeavesNothing'
  BY <1>11 DEF Recheck, Unchanged
<1>12. CASE Retain
  BY <1>12 DEF Retain
<1>13. CASE Place
  BY <1>13 DEF Place, HooksOfPlacement
<1>14. CASE PrepareNative
  BY <1>14 DEF PrepareNative
<1>15. CASE Record
  BY <1>15 DEF Record, Recorded
<1>16. CASE Prepared
  BY <1>16 DEF Prepared
<1>17. CASE Run
  BY <1>17 DEF Run
<1>18. ASSUME NEW f \in Files, Verify(f) PROVE ErrorLeavesNothing'
  BY <1>18 DEF Verify, Unchanged
<1>19. CASE Verified
  BY <1>19 DEF Verified
<1>20. CASE Publish
  BY <1>20 DEF Publish
<1>21. CASE Succeed
  BY <1>21 DEF Succeed, Answer
<1>22. CASE Fail
  BY <1>22 DEF Fail, Answer
<1>23. CASE Stop
  BY <1>23 DEF Stop
<1>24. CASE Start
  BY <1>24 DEF Start
<1>25. ASSUME NEW f \in Files, Edit(f) PROVE ErrorLeavesNothing'
  BY <1>25 DEF Edit
<1>26. CASE UNCHANGED vars
  BY <1>26 DEF vars
<1>27. QED
  BY <1>1, <1>2, <1>3, <1>4, <1>5, <1>6, <1>7, <1>8, <1>9, <1>10, <1>11, <1>12,
     <1>13, <1>14, <1>15, <1>16, <1>17, <1>18, <1>19, <1>20, <1>21, <1>22, <1>23,
     <1>24, <1>25, <1>26 DEF Next

\* Every step keeps that a release has freed the native sources.
LEMMA NextRelease == AnswerInv /\ NativeInv /\ ReleaseFreesSources /\ [Next]_vars => ReleaseFreesSources'
<1> SUFFICES ASSUME AnswerInv /\ NativeInv /\ ReleaseFreesSources, [Next]_vars PROVE ReleaseFreesSources'
  OBVIOUS
<1> USE DEF AnswerInv, NativeInv, ReleaseFreesSources, Busy
<1>1. ASSUME NEW r \in Requests, Generate(r) \/ Prepare(r) PROVE ReleaseFreesSources'
  BY <1>1 DEF Generate, Prepare, Receive
<1>2. ASSUME Deselect \/ Background \/ Release \/ Reject PROVE ReleaseFreesSources'
  BY <1>2 DEF Deselect, Background, Release, Reject, Receive
<1>3. CASE Help
  BY <1>3 DEF Help, Answer
<1>4. CASE PrintConfig
  BY <1>4 DEF PrintConfig
<1>5. CASE Resolve
  BY <1>5 DEF Resolve
<1>6. ASSUME NEW f \in Files, Sign(f) PROVE ReleaseFreesSources'
  BY <1>6 DEF Sign
<1>7. CASE Hit
  BY <1>7 DEF Hit, SameModel
<1>8. CASE Miss
  BY <1>8 DEF Miss, Registered
<1>9. ASSUME NEW f \in Files, Load(f) PROVE ReleaseFreesSources'
  BY <1>9 DEF Load
<1>10. CASE Loaded
  BY <1>10 DEF Loaded
<1>11. ASSUME NEW f \in Files, Recheck(f) PROVE ReleaseFreesSources'
  BY <1>11 DEF Recheck, Unchanged
<1>12. CASE Retain
  BY <1>12 DEF Retain
<1>13. CASE Place
  BY <1>13 DEF Place, HooksOfPlacement
<1>14. CASE PrepareNative
  BY <1>14 DEF PrepareNative
<1>15. CASE Record
  BY <1>15 DEF Record, Recorded
<1>16. CASE Prepared
  BY <1>16 DEF Prepared
<1>17. CASE Run
  BY <1>17 DEF Run
<1>18. ASSUME NEW f \in Files, Verify(f) PROVE ReleaseFreesSources'
  BY <1>18 DEF Verify, Unchanged
<1>19. CASE Verified
  BY <1>19 DEF Verified
<1>20. CASE Publish
  BY <1>20 DEF Publish
<1>21. CASE Succeed
  BY <1>21 DEF Succeed, Answer
<1>22. CASE Fail
  BY <1>22 DEF Fail, Answer
<1>23. CASE Stop
  BY <1>23 DEF Stop
<1>24. CASE Start
  BY <1>24 DEF Start
<1>25. ASSUME NEW f \in Files, Edit(f) PROVE ReleaseFreesSources'
  BY <1>25 DEF Edit
<1>26. CASE UNCHANGED vars
  BY <1>26 DEF vars
<1>27. QED
  BY <1>1, <1>2, <1>3, <1>4, <1>5, <1>6, <1>7, <1>8, <1>9, <1>10, <1>11, <1>12,
     <1>13, <1>14, <1>15, <1>16, <1>17, <1>18, <1>19, <1>20, <1>21, <1>22, <1>23,
     <1>24, <1>25, <1>26 DEF Next

\* The invariant of commands holds at first.
LEMMA InitCommand == Init => CommandInv
  BY SessionAssumption DEF Init, CommandInv, PrepareInv, AnswerInv, NativeInv,
     PreparedIsRequested, ErrorLeavesNothing, ReleaseFreesSources, Ready, Busy, IsRequested

\* Every step keeps the invariant of commands.
LEMMA NextCommand == SnapshotInv /\ CommandInv /\ [Next]_vars => CommandInv'
  BY NextPrepare, NextAnswer, NextNative, NextPrepared, NextError, NextRelease
     DEF CommandInv, SnapshotInv

\* The invariant of commands holds always.
LEMMA SessionCommand == Spec => []CommandInv
<1>1. SnapshotInv /\ CommandInv /\ [Next]_vars => CommandInv'
  BY NextCommand
<1>2. QED
  BY <1>1, InitCommand, SessionSnapshot, PTL DEF Spec

\* A foreground answer that reports readiness reports the model, files and
\* placement that command asked for.
THEOREM SessionPreparedIsRequested == Spec => []PreparedIsRequested
<1>1. CommandInv => PreparedIsRequested
  BY DEF CommandInv
<1>2. QED
  BY <1>1, SessionCommand, PTL

\* After an error the session holds nothing to reuse or report.
THEOREM SessionErrorLeavesNothing == Spec => []ErrorLeavesNothing
<1>1. CommandInv => ErrorLeavesNothing
  BY DEF CommandInv
<1>2. QED
  BY <1>1, SessionCommand, PTL

\* A release empties the native runtime too, whichever adapter filled it.
THEOREM SessionReleaseFreesSources == Spec => []ReleaseFreesSources
<1>1. CommandInv => ReleaseFreesSources
  BY DEF CommandInv
<1>2. QED
  BY <1>1, SessionCommand, PTL
=============================================================================
