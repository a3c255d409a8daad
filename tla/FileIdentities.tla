--------------------------- MODULE FileIdentities ---------------------------
(***************************************************************************)
(* What a process remembers of the files it reads: the SHA-256 of weights  *)
(* in a Python worker's memory and in a database all workers share, the    *)
(* configurations of a worker's session, and the model identities of the   *)
(* native library; and the weight that is resolved, verified, loaded and   *)
(* verified again.  Other programs edit and touch the files meanwhile.     *)
(*                                                                         *)
(* A file's history is the sequence of its contents; the number of entries *)
(* is its signature, which no edit and no touch leaves as it was.  What a  *)
(* reader computes is the set of contents it saw: one, or a torn read.     *)
(***************************************************************************)
EXTENDS Integers, Sequences, SequencesExt

CONSTANTS
    Readers,
    Casts,      \* sets of readers at work: reader -> kind, or "off"
    HashedFiles,
    Reads,      \* kind -> the files it is asked for
    FileContents,
    TableLimit, \* _MODEL_HASH_LIMIT, 16 configurations, 128 native identities
    MaxHistory  \* bound: contents all files have had, beyond their first

ReaderKinds == {"digest", "configuration", "native"}
Calls       == {"idle", "row", "found", "half", "rest", "check"}
Phases      == {"free", "resolved", "loading", "loaded", "same", "changed"}
NoRow       == [at |-> 0, sum |-> {}]

ASSUME IdentityAssumption ==
    /\ Casts \subseteq [Readers -> ReaderKinds \cup {"off"}]
    /\ Reads \in [ReaderKinds -> SUBSET HashedFiles] /\ HashedFiles # {}
    /\ TableLimit \in Nat \ {0} /\ MaxHistory \in Nat

VARIABLES
    role,     \* reader -> which of the caches it is
    metadata, \* IILD_MODEL_VALIDATION=metadata, for the Python workers
    history,  \* file -> its contents, the last one present
    table,    \* reader -> entries in memory, [of, at, sum]; the newest last
    rows,     \* file -> its row in the shared database
    call,     \* reader -> the call it is in: of, step, before, read, and its last result
    weight,   \* reader -> the weight it loads: phase, sum, loaded
    latest    \* reader -> the file it asked for last, while memory should have it

identityVars == <<role, metadata, history, table, rows, call, weight, latest>>

Now(f)     == Len(history[f])
Present(f) == {history[f][Now(f)]}
Entries(r) == Range(table[r])
\* pop(key, None)
Places(r, f)  == {i \in DOMAIN table[r] : table[r][i].of = f}
Without(r, f) == IF Places(r, f) = {} THEN table[r]
                 ELSE RemoveAt(table[r], CHOOSE i \in Places(r, f) : TRUE)
Entry(f, s, d) == [of |-> f, at |-> s, sum |-> d]

IdentityInit ==
    /\ role \in Casts /\ metadata \in BOOLEAN
    /\ \E c \in FileContents : history = [f \in HashedFiles |-> <<c>>]
    /\ table = [r \in Readers |-> <<>>]
    /\ rows = [f \in HashedFiles |-> NoRow]
    /\ call = [r \in Readers |-> [of |-> CHOOSE f \in HashedFiles : TRUE, step |-> "idle",
                                  before |-> 0, read |-> {}, result |-> {}]]
    /\ weight = [r \in Readers |-> [phase |-> "free", sum |-> {}, loaded |-> {}]]
    /\ latest = [r \in Readers |-> {}]

\* resolve_weight_file() keeps the identity, verify_weight_file() compares it with a new one.
Use(r, d) ==
    LET w == weight[r]  same == d = w.sum IN
    weight' = IF role[r] # "digest" THEN weight ELSE [weight EXCEPT ![r] =
        CASE w.phase = "free"     -> [w EXCEPT !.phase = "resolved", !.sum = d]
          [] w.phase = "resolved" -> [w EXCEPT !.phase = IF same THEN "loading" ELSE "changed"]
          [] w.phase = "loaded"   -> [w EXCEPT !.phase = IF same THEN "same" ELSE "changed"]]

Return(r, f, d) ==
    /\ call' = [call EXCEPT ![r] = [of |-> f, step |-> "idle", before |-> 0, read |-> {}, result |-> d]]
    /\ Use(r, d)

\* move_to_end(); the native table has no order.
MovedToEnd(r, e) == IF role[r] = "native" THEN table[r] ELSE Append(Without(r, e.of), e)

Hits(r, f) == {e \in Entries(r) : e.of = f /\ e.at = Now(f)}

\* cached_model_sha256(), configuration(), modelIdentity(): the signature, then memory.  A
\* worker with metadata validation takes the signature for the identity and hashes nothing.
Ask(r, f) ==
    /\ call[r].step = "idle" /\ weight[r].phase \in {"free", "resolved", "loaded"}
    /\ weight[r].phase # "free" => f = call[r].of
    /\ IF role[r] = "digest" /\ metadata
       THEN Return(r, f, {Now(f)}) /\ UNCHANGED <<table, latest>>
       ELSE /\ latest' = [latest EXCEPT ![r] = IF Hits(r, f) # {} THEN {f} ELSE @ \ {f}]
            /\ \/ \E e \in Hits(r, f) : /\ table' = [table EXCEPT ![r] = MovedToEnd(r, e)]
                                       /\ Return(r, f, e.sum)
               \/ /\ Hits(r, f) = {}
                  /\ table' = [table EXCEPT ![r] = IF role[r] = "native" THEN @ ELSE Without(r, f)]
                  /\ call' = [call EXCEPT ![r] = [@ EXCEPT !.of = f, !.before = Now(f), !.read = {},
                                 !.step = IF role[r] = "digest" THEN "row" ELSE "half"]]
                  /\ UNCHANGED weight
    /\ UNCHANGED <<role, metadata, history, rows>>

\* The database has the row of this path and identity, or it is busy, evicted or off.
LookUpRow(r) == LET f == call[r].of IN
    /\ call[r].step = "row"
    /\ \/ /\ rows[f].at = call[r].before
          /\ call' = [call EXCEPT ![r] = [@ EXCEPT !.read = rows[f].sum, !.step = "found"]]
       \/ call' = [call EXCEPT ![r] = [@ EXCEPT !.step = "half"]]
    /\ UNCHANGED <<role, metadata, history, table, rows, weight, latest>>

\* The file is read, and may change between two of its parts.
ReadPart(r) ==
    /\ call[r].step \in {"half", "rest"}
    /\ call' = [call EXCEPT ![r].read = @ \cup Present(call[r].of),
                            ![r].step = IF @ = "half" THEN "rest" ELSE "check"]
    /\ UNCHANGED <<role, metadata, history, table, rows, weight, latest>>

\* Mutant: the signature is not compared after the file is read.
StillMutant(r) == TRUE

\* The signature is compared with a second one, in Python only.
Still(r) == role[r] = "native" \/ Now(call[r].of) = call[r].before

\* Mutant: what is stored has the signature of the end of the reading.
StampMutant(r) == Now(call[r].of)

\* What is stored has the signature taken before the file was read.
Stamp(r) == call[r].before

\* popitem(last=False), or clear() in the native library.
Evicted(r, entries) ==
    IF Len(entries) <= TableLimit THEN entries
    ELSE IF role[r] = "native" THEN <<entries[Len(entries)]>> ELSE Tail(entries)

\* A digest that was computed goes into the database.  A database that is busy or off then is
\* one where LookUpRow() does not find it.
Keep(r, f, d) ==
    rows' = IF role[r] = "digest" /\ call[r].step = "check"
            THEN [rows EXCEPT ![f] = [at |-> call[r].before, sum |-> d]] ELSE rows

Conclude(r) == LET f == call[r].of  d == call[r].read IN
    /\ call[r].step \in {"found", "check"}
    /\ \/ /\ ~Still(r)
          /\ call' = [call EXCEPT ![r] = [@ EXCEPT !.step = "idle", !.result = {}]]
          /\ weight' = [weight EXCEPT ![r].phase = IF role[r] = "digest" THEN "changed" ELSE @]
          /\ UNCHANGED <<table, rows, latest>>
       \/ /\ Still(r)
          /\ table' = [table EXCEPT ![r] = Evicted(r, Append(Without(r, f), Entry(f, Stamp(r), d)))]
          /\ Keep(r, f, d)
          /\ latest' = [latest EXCEPT ![r] = {f}]
          /\ Return(r, f, d)
    /\ UNCHANGED <<role, metadata, history>>

\* checked_safetensors_path(): the loader reads the file between the two verifications.
LoadWeight(r) ==
    /\ weight[r].phase = "loading"
    /\ \E next \in {"loading", "loaded"} :
          weight' = [weight EXCEPT ![r].phase = next, ![r].loaded = @ \cup Present(call[r].of)]
    /\ UNCHANGED <<role, metadata, history, table, rows, call, latest>>

\* The run ends, and the worker is asked for another weight.
Forget(r) ==
    /\ weight[r].phase \in {"same", "changed"}
    /\ weight' = [weight EXCEPT ![r] = [phase |-> "free", sum |-> {}, loaded |-> {}]]
    /\ call' = [call EXCEPT ![r].result = {}]
    /\ UNCHANGED <<role, metadata, history, table, rows, latest>>

Edits == MapThenSumSet(LAMBDA f : Len(history[f]) - 1, HashedFiles)

\* An edit, a restored copy, or a touch that leaves the content.
Alter(f, c) ==
    /\ Edits < MaxHistory
    /\ history' = [history EXCEPT ![f] = Append(@, c)]
    /\ UNCHANGED <<role, metadata, table, rows, call, weight, latest>>

IdentityNext ==
    \/ \E r \in Readers :
        \/ LookUpRow(r) \/ ReadPart(r) \/ Conclude(r) \/ LoadWeight(r) \/ Forget(r)
        \/ role[r] # "off" /\ \E f \in Reads[role[r]] : Ask(r, f)
    \/ \E r \in Readers, c \in FileContents : role[r] # "off" /\ \E f \in Reads[role[r]] : Alter(f, c)

IdentitySpec == IdentityInit /\ [][IdentityNext]_identityVars

-----------------------------------------------------------------------------
\* Every variable keeps its type, and the memories keep one entry a file and their bounds
\* (weight_files.py:119, inference_session.py:131, NativeCachePolicy.hpp:87).
IdentityTypeOK ==
    /\ role \in Casts /\ metadata \in BOOLEAN
    /\ \A f \in HashedFiles : history[f] \in Seq(FileContents) /\ rows[f].at \in 0..Now(f)
    /\ \A r \in Readers :
        /\ Len(table[r]) <= TableLimit
        /\ Cardinality({e.of : e \in Entries(r)}) = Len(table[r])
        /\ call[r].step \in Calls /\ weight[r].phase \in Phases

\* Memory and database of the Python workers hold, for a signature, the digest of what the
\* file held under it, whatever happened while it was read (weight_files.py:127-138,
\* inference_session.py:131-142).
RowsAreTrue ==
    LET True(e) == e.sum = {history[e.of][e.at]} IN
    /\ \A r \in Readers : role[r] # "native" => \A e \in Entries(r) : True(e)
    /\ \A f \in HashedFiles : rows[f] # NoRow => True(Entry(f, rows[f].at, rows[f].sum))

\* The native library does not look again after it has read a file; what it then stores may
\* be false, but never under the metadata the file has now (NativeCachePolicy.hpp:87-125).
CurrentEntriesAreTrue == \A r \in Readers : \A e \in Entries(r) :
    e.at = Now(e.of) => e.sum = Present(e.of)

\* A worker never gets the digest or the configuration of a file as it no longer is.
ReturnsPresent ==
    [][\A r \in Readers :
          /\ role[r] # "native" /\ ~(role[r] = "digest" /\ metadata)
          /\ call'[r] # call[r] /\ call'[r].step = "idle" /\ call'[r].result # {}
          => call'[r].result = Present(call'[r].of)]_identityVars

ChangedBack(f) == \E i, j, k \in 1..Now(f) :
    i < j /\ j < k /\ history[f][i] = history[f][k] /\ history[f][i] # history[f][j]

\* Weights that verify after they are loaded are those that were resolved: with metadata
\* validation always, else unless the file was changed and changed back (weight_files.py:200).
LoadedWhatWasResolved == \A r \in Readers :
    weight[r].phase = "same" =>
        /\ metadata => weight[r].loaded = {history[call[r].of][s] : s \in weight[r].sum}
        /\ ~metadata /\ ~ChangedBack(call[r].of) => weight[r].loaded = weight[r].sum

\* Eviction never takes the file that was asked for last (inference_session.py:135, 143).
LatestIsKept ==
    [][\A r \in Readers : role[r] # "native" /\ TableLimit > 1 =>
          latest[r] \ {call'[r].of} \subseteq {e.of : e \in Range(table'[r])}]_identityVars

\* What is remembered of a file is what it held under its signature.
RecordsAreTrue == IdentityTypeOK /\ RowsAreTrue /\ CurrentEntriesAreTrue

\* What is answered is of the file as it is, weights are those that were resolved, and a hit is
\* not the next entry to be evicted.
AnswersArePresent == []LoadedWhatWasResolved /\ ReturnsPresent /\ LatestIsKept
=============================================================================
