---------------------------- MODULE StoreProofs -----------------------------
(***************************************************************************)
(* Proofs about what processes share on disk.                              *)
(*                                                                         *)
(* RemoteBatch: for any clients, requests and outputs.  Under Separate,    *)
(* batches of different --output share no file, so the lock of an --output *)
(* protects all the files of its batch.  Where they do share one, the run  *)
(* remote_overlap shows what is lost.                                      *)
(*                                                                         *)
(* PackageCache: for any runs, members and corrupt packages, and for any   *)
(* number of states of the package file and of purges.                     *)
(*                                                                         *)
(* ImagePublication: for any runs, names and jobs of any number of images, *)
(* and for any number of states of the weights.                            *)
(*                                                                         *)
(* ConvertedWeights: for any converters, any number of states of the input *)
(* and of losses, under KeysApart: the state of an input has a cache key   *)
(* of its own.  cacheKey() is a hash of 64 bits: where two states share a  *)
(* key, one process can describe the copy that another has just renamed.   *)
(***************************************************************************)
EXTENDS RemoteBatch, PackageCache, ImagePublication, ConvertedWeights, SequenceTheorems, TLAPS

-----------------------------------------------------------------------------
(* RemoteBatch *)

Separate == \A b1, b2 \in Bases :
    b1 # b2 => ToSet(TargetsOf[b1]) \cap ToSet(TargetsOf[b2]) = {}

\* A step of one client, and what is over without a promise.
ClientStep(c) ==
    \/ ResolveOutputPaths(c) \/ TakeLock(c) \/ Infer(c) \/ Retire(c) \/ LinkOutput(c)
    \/ Interrupt(c) \/ Undo(c) \/ Restore(c) \/ Finish(c) \/ KillClient(c)

Holding == {"infer", "publish", "undo", "restore", "unlock"}
Past    == {"complete", "abandoned"}

-----------------------------------------------------------------------------
(* The inductive invariant *)

\* A client in the try statement has the lock.
Locked(c) == step[c] \in Holding => batchLock[base[c]] = c

\* The request's own file is not among those of the batch.
ConfigApart(c) == step[c] \in Holding \cup {"lock"} => ask[c].config \notin ToSet(Files(c))

\* A file that a client has published, or has a backup of, is one of its batch; it has the
\* lock, alive or killed, and nobody else's file is there.
Owned(c, f) ==
    step[c] \notin Past /\ (backups[c][f] # NoFile \/ outputs[f] = c) =>
        /\ f \in ToSet(Files(c)) /\ batchLock[base[c]] = c
        /\ step[c] \in {"publish", "undo", "restore", "killed"}
        /\ outputs[f] \in {NoFile, c}
        /\ backups[c][f] # NoFile => ask[c].overwrite

\* The files that are published are those up to the position, which starts and ends at none.
Placed(c) ==
    /\ step[c] \in {"publish", "undo", "restore"} =>
          \A i \in DOMAIN Files(c) : outputs[Files(c)[i]] = c <=> i <= position[c]
    /\ step[c] \in {"resolve", "lock", "restore"} => position[c] = 0

\* A backup that another client made is of a batch that is over.
OldBackup(c, f) == backups[c][f] \in Clients => step[backups[c][f]] \in Past

ClientInv(c) ==
    /\ Locked(c) /\ ConfigApart(c) /\ Placed(c)
    /\ \A f \in BatchFiles : Owned(c, f) /\ OldBackup(c, f)

BatchInv == BatchTypeOK /\ \A c \in Clients : ClientInv(c)

-----------------------------------------------------------------------------
(* Types *)

\* The batch of any --output is a sequence of different files.
LEMMA TargetsType ==
    ASSUME NEW b \in Bases
    PROVE  /\ TargetsOf[b] \in Seq(BatchFiles)
           /\ DOMAIN TargetsOf[b] = 1..Len(TargetsOf[b])
           /\ Len(TargetsOf[b]) \in Nat \ {0}
           /\ \A i \in DOMAIN TargetsOf[b] : TargetsOf[b][i] \in BatchFiles
           /\ ToSet(TargetsOf[b]) = {TargetsOf[b][i] : i \in DOMAIN TargetsOf[b]}
           /\ ToSet(TargetsOf[b]) \subseteq BatchFiles
           /\ \A i, j \in DOMAIN TargetsOf[b] : TargetsOf[b][i] = TargetsOf[b][j] => i = j
<1>1. /\ TargetsOf[b] \in Seq(BatchFiles)
      /\ Len(TargetsOf[b]) > 0 /\ IsInjective(TargetsOf[b])
  BY BatchAssumption
<1>2. /\ DOMAIN TargetsOf[b] = 1..Len(TargetsOf[b]) /\ Len(TargetsOf[b]) \in Nat \ {0}
      /\ \A i \in DOMAIN TargetsOf[b] : TargetsOf[b][i] \in BatchFiles
  BY <1>1
<1>3. ToSet(TargetsOf[b]) = {TargetsOf[b][i] : i \in DOMAIN TargetsOf[b]}
  BY DEF ToSet
<1>4. \A i, j \in DOMAIN TargetsOf[b] : TargetsOf[b][i] = TargetsOf[b][j] => i = j
  BY <1>1 DEF IsInjective
<1>5. QED
  BY <1>1, <1>2, <1>3, <1>4

\* What a client knows of its batch, and of the file that it is at.
LEMMA FilesType ==
    ASSUME BatchTypeOK, NEW c \in Clients
    PROVE  /\ base[c] \in Bases /\ Files(c) = TargetsOf[base[c]]
           /\ DOMAIN Files(c) = 1..Len(Files(c)) /\ Len(Files(c)) \in Nat \ {0}
           /\ \A i \in DOMAIN Files(c) : Files(c)[i] \in ToSet(Files(c))
           /\ \A f \in ToSet(Files(c)) : \E i \in DOMAIN Files(c) : f = Files(c)[i]
           /\ ToSet(Files(c)) \subseteq BatchFiles
           /\ \A i, j \in DOMAIN Files(c) : Files(c)[i] = Files(c)[j] => i = j
           /\ position[c] \in 0..Len(Files(c))
           /\ position[c] < Len(Files(c)) =>
                 /\ position[c] + 1 \in DOMAIN Files(c)
                 /\ Current(c) = Files(c)[position[c] + 1]
                 /\ Current(c) \in ToSet(Files(c))
<1>0. base[c] \in Bases /\ position[c] \in Nat /\ position[c] <= Len(Files(c))
  BY DEF BatchTypeOK
<1>1. base[c] \in Bases /\ position[c] \in 0..Len(Files(c))
  BY <1>0, TargetsType DEF Files
<1>2. /\ DOMAIN Files(c) = 1..Len(Files(c)) /\ Len(Files(c)) \in Nat \ {0}
      /\ ToSet(Files(c)) = {Files(c)[i] : i \in DOMAIN Files(c)}
      /\ ToSet(Files(c)) \subseteq BatchFiles
      /\ \A i, j \in DOMAIN Files(c) : Files(c)[i] = Files(c)[j] => i = j
  BY <1>1, TargetsType DEF Files
<1>3. position[c] < Len(Files(c)) => position[c] + 1 \in DOMAIN Files(c)
  BY <1>1, <1>2
<1>4. QED
  BY <1>1, <1>2, <1>3 DEF Files, Current

\* Contents are what the variables say.
LEMMA ContentsType ==
    /\ NoFile \in Contents /\ Clients \subseteq Contents /\ NoFile \notin Clients
    /\ Redirect \notin Clients /\ Redirect # NoFile
BY BatchAssumption DEF Contents

\* The types hold at first.
LEMMA InitBatchType == BatchInit => BatchTypeOK
<1> SUFFICES ASSUME BatchInit PROVE BatchTypeOK
  OBVIOUS
<1>1. outputs \in [BatchFiles -> Contents]
  BY BatchAssumption DEF BatchInit, Contents
<1>2. ask \in [Clients -> BatchRequests] /\ base \in [Clients -> Bases]
  BY BatchAssumption DEF BatchInit
<1>3. position \in [Clients -> Nat] /\ \A c \in Clients : position[c] <= Len(Files(c))
  BY <1>2, TargetsType DEF BatchInit, Files
<1>4. QED
  BY <1>1, <1>2, <1>3, ContentsType DEF BatchInit, BatchTypeOK, Steps

\* The variables that are functions of a client change for the client that steps, and no
\* step changes a request.
LEMMA StepOthers ==
    ASSUME BatchTypeOK, NEW c \in Clients, ClientStep(c)
    PROVE  /\ ask' = ask
           /\ base' \in [Clients -> Bases] /\ step' \in [Clients -> Steps]
           /\ backups' \in [Clients -> [BatchFiles -> Contents]]
           /\ \A d \in Clients \ {c} :
                 /\ base'[d] = base[d] /\ step'[d] = step[d] /\ position'[d] = position[d]
                 /\ backups'[d] = backups[d]
           /\ step[c] # "resolve" => base'[c] = base[c]
<1> USE DEF BatchTypeOK, Steps, GoOn
<1>0. [f \in BatchFiles |-> NoFile] \in [BatchFiles -> Contents]
  BY ContentsType
<1>1. CASE ResolveOutputPaths(c)
  BY <1>1 DEF ResolveOutputPaths
<1>2. CASE TakeLock(c) \/ Infer(c) \/ LinkOutput(c)
  BY <1>2 DEF TakeLock, Infer, LinkOutput
<1>3. CASE Retire(c)
  <2>1. Current(c) \in BatchFiles
    BY <1>3, FilesType DEF Retire
  <2>2. [backups[c] EXCEPT ![Current(c)] = outputs[Current(c)]] \in [BatchFiles -> Contents]
    BY <2>1
  <2>3. backups' = [backups EXCEPT ![c] = [backups[c] EXCEPT ![Current(c)] = outputs[Current(c)]]]
    BY <1>3 DEF Retire
  <2>4. QED
    BY <1>3, <2>2, <2>3 DEF Retire
<1>4. CASE Interrupt(c)
  BY <1>0, <1>4 DEF Interrupt
<1>5. CASE Undo(c)
  BY <1>5 DEF Undo
<1>6. CASE Restore(c)
  <2>1. CASE Retired(c) = {}
    BY <1>6, <2>1 DEF Restore
  <2>2. CASE Retired(c) # {}
    <3>1. PICK f \in Retired(c) : backups' = [backups EXCEPT ![c][f] = NoFile]
      BY <1>6, <2>2 DEF Restore
    <3>2. f \in BatchFiles
      BY <3>1 DEF Retired
    <3>3. [backups[c] EXCEPT ![f] = NoFile] \in [BatchFiles -> Contents]
      BY <3>2, ContentsType
    <3>4. backups' = [backups EXCEPT ![c] = [backups[c] EXCEPT ![f] = NoFile]]
      BY <3>1
    <3>5. QED
      BY <1>6, <2>2, <3>3, <3>4 DEF Restore
  <2>3. QED
    BY <2>1, <2>2
<1>7. CASE Finish(c)
  BY <1>0, <1>7 DEF Finish
<1>8. CASE KillClient(c)
  BY <1>8 DEF KillClient
<1>9. QED
  BY <1>1, <1>2, <1>3, <1>4, <1>5, <1>6, <1>7, <1>8 DEF ClientStep

\* A step changes a place only if the place is one of the client's batch, and only while the
\* client publishes or rolls back; it leaves there nothing, its own file or its backup.
LEMMA StepWrites ==
    ASSUME BatchTypeOK, NEW c \in Clients, ClientStep(c)
    PROVE  /\ outputs' \in [BatchFiles -> Contents]
           /\ \A f \in BatchFiles : outputs'[f] # outputs[f] =>
                 /\ f \in ToSet(Files(c)) /\ step[c] \in {"publish", "undo", "restore"}
                 /\ outputs'[f] \in {NoFile, c, backups[c][f]}
<1>0. outputs \in [BatchFiles -> Contents] /\ backups[c] \in [BatchFiles -> Contents]
  BY DEF BatchTypeOK
<1>1. ASSUME NEW g \in ToSet(Files(c)), NEW content \in {NoFile, c, backups[c][g]},
             outputs' = [outputs EXCEPT ![g] = content],
             step[c] \in {"publish", "undo", "restore"}
      PROVE  /\ outputs' \in [BatchFiles -> Contents]
             /\ \A f \in BatchFiles : outputs'[f] # outputs[f] =>
                   /\ f \in ToSet(Files(c)) /\ step[c] \in {"publish", "undo", "restore"}
                   /\ outputs'[f] \in {NoFile, c, backups[c][f]}
  <2>1. g \in BatchFiles /\ content \in Contents
    BY <1>0, FilesType, ContentsType
  <2>2. QED
    BY <1>0, <1>1, <2>1
<1>2. CASE Retire(c)
  BY <1>1, <1>2, FilesType DEF Retire
<1>3. CASE LinkOutput(c)
  BY <1>1, <1>3, FilesType DEF LinkOutput
<1>4. CASE Undo(c)
  <2>1. CASE position[c] = 0
    BY <1>0, <1>4, <2>1 DEF Undo
  <2>2. CASE position[c] # 0
    <3>1. position[c] \in DOMAIN Files(c)
      BY <2>2, FilesType
    <3>2. QED
      BY <1>1, <1>4, <2>2, <3>1, FilesType DEF Undo
  <2>3. QED
    BY <2>1, <2>2
<1>5. CASE Restore(c)
  <2>1. CASE Retired(c) = {}
    BY <1>0, <1>5, <2>1 DEF Restore
  <2>2. CASE Retired(c) # {}
    <3>1. PICK i \in DOMAIN Files(c) :
             outputs' = [outputs EXCEPT ![Files(c)[i]] = backups[c][Files(c)[i]]]
      BY <1>5, <2>2 DEF Restore
    <3>2. QED
      BY <1>1, <1>5, <3>1, FilesType DEF Restore
  <2>3. QED
    BY <2>1, <2>2
<1>6. CASE UNCHANGED outputs
  BY <1>0, <1>6
<1>7. QED
  BY <1>2, <1>3, <1>4, <1>5, <1>6 DEF ClientStep, ResolveOutputPaths, TakeLock, Infer,
     Interrupt, Finish, KillClient

\* A step takes a lock that is free, or drops the one of the client's --output.
LEMMA StepLocks ==
    ASSUME BatchTypeOK, NEW c \in Clients, ClientStep(c)
    PROVE  /\ batchLock' \in [Bases -> Clients \cup {NoFile}]
           /\ \A b \in Bases : batchLock'[b] # batchLock[b] =>
                 /\ b = base[c]
                 /\ \/ step[c] = "lock" /\ batchLock[b] = NoFile
                    \/ step[c] \in Holding
           /\ step'[c] \in Holding => base'[c] = base[c] /\ batchLock'[base[c]] =
                 (IF step[c] = "lock" THEN c ELSE batchLock[base[c]])
<1>0. /\ base[c] \in Bases /\ base \in [Clients -> Bases] /\ step \in [Clients -> Steps]
      /\ batchLock \in [Bases -> Clients \cup {NoFile}]
  BY DEF BatchTypeOK
<1> USE <1>0 DEF GoOn, Holding
<1>1. CASE TakeLock(c)
  <2>1. CASE batchLock[base[c]] = NoFile
    BY <1>1, <2>1 DEF TakeLock
  <2>2. CASE batchLock[base[c]] # NoFile
    BY <1>1, <2>2 DEF TakeLock
  <2>3. QED
    BY <2>1, <2>2
<1>2. CASE Interrupt(c)
  <2>1. CASE step[c] \in {"undo", "restore"}
    <3>1. step'[c] = "abandoned" /\ batchLock' = [batchLock EXCEPT ![base[c]] = NoFile]
      BY <1>2, <2>1 DEF Interrupt
    <3>2. QED
      BY <2>1, <3>1
  <2>2. CASE step[c] \in {"infer", "publish"}
    BY <1>2, <2>2 DEF Interrupt
  <2>3. QED
    BY <1>2, <2>1, <2>2 DEF Interrupt
<1>3. CASE Finish(c)
  BY <1>3 DEF Finish
<1>4. CASE Infer(c) \/ Retire(c) \/ LinkOutput(c)
  BY <1>4 DEF Infer, Retire, LinkOutput
<1>5. CASE Undo(c) \/ Restore(c)
  BY <1>5 DEF Undo, Restore
<1>6. CASE ResolveOutputPaths(c) \/ KillClient(c)
  BY <1>6 DEF ResolveOutputPaths, KillClient
<1>7. QED
  BY <1>1, <1>2, <1>3, <1>4, <1>5, <1>6 DEF ClientStep

\* A client that steps is not at its end.
LEMMA StepAlive ==
    ASSUME NEW c \in Clients, ClientStep(c)
    PROVE  step[c] \notin Ended
BY DEF ClientStep, Ended, ResolveOutputPaths, TakeLock, Infer, Retire, LinkOutput, Interrupt,
   Undo, Restore, Finish, KillClient

\* A step leaves the client's position within its batch.
LEMMA StepPosition ==
    ASSUME BatchTypeOK, NEW c \in Clients, ClientStep(c), Placed(c)
    PROVE  position' \in [Clients -> Nat] /\ position'[c] <= Len(Files(c))'
<1> USE DEF BatchTypeOK, GoOn
<1>0. /\ position[c] \in Nat /\ position[c] <= Len(Files(c)) /\ Len(Files(c)) \in Nat
      /\ base[c] \in Bases /\ base \in [Clients -> Bases]
  BY FilesType
<1>1. CASE ResolveOutputPaths(c)
  <2>1. PICK b \in Bases : base' = [base EXCEPT ![c] = b]
    BY <1>1 DEF ResolveOutputPaths
  <2>2. Len(Files(c))' \in Nat
    BY <1>0, <2>1, TargetsType DEF Files
  <2>3. position' = position /\ position[c] = 0
    BY <1>1 DEF ResolveOutputPaths, Placed
  <2>4. QED
    BY <1>0, <2>2, <2>3
<1>2. CASE ~ResolveOutputPaths(c)
  <2>1. base' = base
    BY <1>2 DEF ClientStep, TakeLock, Infer, Retire, LinkOutput, Interrupt, Undo, Restore,
       Finish, KillClient
  <2>2. \/ position' = position
        \/ position' = [position EXCEPT ![c] = 0]
        \/ position[c] < Len(Files(c)) /\ position' = [position EXCEPT ![c] = @ + 1]
        \/ position[c] # 0 /\ position' = [position EXCEPT ![c] = @ - 1]
    BY <1>2 DEF ClientStep, TakeLock, Infer, Retire, LinkOutput, Interrupt, Undo, Restore,
       Finish, KillClient
  <2>3. Files(c)' = Files(c)
    BY <2>1 DEF Files
  <2>4. QED
    BY <1>0, <2>2, <2>3
<1>3. QED
  BY <1>1, <1>2

\* Every step keeps the types.
LEMMA NextBatchType ==
    ASSUME BatchTypeOK, NEW c \in Clients, ClientStep(c), Placed(c)
    PROVE  BatchTypeOK'
<1>1. \A d \in Clients \ {c} : position'[d] = position[d] /\ Files(d)' = Files(d)
  BY StepOthers DEF Files
<1>2. \A d \in Clients : position'[d] <= Len(Files(d))'
  BY <1>1, StepPosition DEF BatchTypeOK
<1>3. ask' \in [Clients -> BatchRequests]
  BY StepOthers DEF BatchTypeOK
<1>4. QED
  BY <1>2, <1>3, StepOthers, StepWrites, StepLocks, StepPosition DEF BatchTypeOK

-----------------------------------------------------------------------------
(* The steps of the others *)

\* No two clients that have their locks have the same --output, so under Separate they share
\* no file.
LEMMA HoldersApart ==
    ASSUME Separate, BatchTypeOK, NEW c \in Clients, NEW d \in Clients, c # d,
           batchLock[base[c]] = c, batchLock[base[d]] = d
    PROVE  base[c] # base[d] /\ ToSet(Files(c)) \cap ToSet(Files(d)) = {}
BY DEF Separate, BatchTypeOK, Files

\* While a client has its lock, the step of another takes neither the lock nor a file away.
LEMMA OtherLeaves ==
    ASSUME Separate, BatchInv, NEW c \in Clients, NEW d \in Clients, c # d, ClientStep(d),
           batchLock[base[c]] = c
    PROVE  /\ batchLock'[base[c]] = c
           /\ \A f \in ToSet(Files(c)) : outputs'[f] = outputs[f]
<1>0. /\ BatchTypeOK /\ c # NoFile /\ base[c] \in Bases
      /\ step[d] \in Holding => batchLock[base[d]] = d
  BY ContentsType, FilesType DEF BatchInv, ClientInv, Locked
<1>1. batchLock'[base[c]] = batchLock[base[c]]
  BY <1>0, StepLocks, HoldersApart
<1>2. ASSUME NEW f \in ToSet(Files(c)), outputs'[f] # outputs[f] PROVE FALSE
  <2>1. f \in ToSet(Files(d)) /\ step[d] \in Holding
    BY <1>0, <1>2, StepWrites, FilesType DEF Holding
  <2>2. QED
    BY <1>0, <2>1, <1>2, HoldersApart
<1>3. QED
  BY <1>1, <1>2

\* The step of another keeps what is true of a client.
LEMMA OtherKept ==
    ASSUME Separate, BatchInv, NEW c \in Clients, NEW d \in Clients, c # d, ClientStep(d)
    PROVE  ClientInv(c)'
<1>0. /\ BatchTypeOK /\ ClientInv(c) /\ ClientInv(d)
      /\ ask' = ask /\ base'[c] = base[c] /\ step'[c] = step[c] /\ position'[c] = position[c]
      /\ backups'[c] = backups[c] /\ Files(c)' = Files(c)
  BY StepOthers DEF BatchInv, Files
<1>1. Locked(c)'
  BY <1>0, OtherLeaves DEF ClientInv, Locked
<1>2. ConfigApart(c)'
  BY <1>0 DEF ClientInv, ConfigApart
<1>3. Placed(c)'
  <2>1. CASE step[c] \in {"publish", "undo", "restore"}
    <3>1. batchLock[base[c]] = c
      BY <1>0, <2>1 DEF ClientInv, Locked, Holding
    <3>2. \A i \in DOMAIN Files(c) : outputs'[Files(c)[i]] = outputs[Files(c)[i]]
      BY <1>0, <3>1, OtherLeaves, FilesType
    <3>3. QED
      BY <1>0, <3>2 DEF ClientInv, Placed
  <2>2. CASE step[c] \notin {"publish", "undo", "restore"}
    BY <1>0, <2>2 DEF ClientInv, Placed
  <2>3. QED
    BY <2>1, <2>2
<1>4. ASSUME NEW f \in BatchFiles PROVE Owned(c, f)'
  <2> SUFFICES ASSUME step[c] \notin Past, backups[c][f] # NoFile \/ outputs'[f] = c
               PROVE  /\ f \in ToSet(Files(c)) /\ batchLock'[base[c]] = c
                      /\ step[c] \in {"publish", "undo", "restore", "killed"}
                      /\ outputs'[f] \in {NoFile, c}
                      /\ backups[c][f] # NoFile => ask[c].overwrite
    BY <1>0 DEF Owned
  <2>1. Owned(c, f) /\ OldBackup(d, f)
    BY <1>0 DEF ClientInv
  <2>2. backups[c][f] # NoFile \/ outputs[f] = c
    <3>1. ASSUME outputs'[f] = c, outputs[f] # c PROVE FALSE
      <4>1. backups[d][f] = c
        BY <1>0, <3>1, StepWrites, ContentsType
      <4>2. QED
        BY <2>1, <4>1 DEF OldBackup
    <3>2. QED
      BY <3>1
  <2>3. f \in ToSet(Files(c)) /\ batchLock[base[c]] = c
    BY <2>1, <2>2 DEF Owned
  <2>4. outputs'[f] = outputs[f] /\ batchLock'[base[c]] = c
    BY <2>3, OtherLeaves
  <2>5. QED
    BY <2>1, <2>2, <2>4 DEF Owned
<1>5. ASSUME NEW f \in BatchFiles PROVE OldBackup(c, f)'
  <2>1. OldBackup(c, f)
    BY <1>0 DEF ClientInv
  <2>2. \A e \in Clients : step[e] \in Past => step'[e] = step[e]
    BY <1>0, StepAlive, StepOthers DEF Past, Ended
  <2>3. QED
    BY <1>0, <2>1, <2>2 DEF OldBackup
<1>6. QED
  BY <1>1, <1>2, <1>3, <1>4, <1>5 DEF ClientInv

-----------------------------------------------------------------------------
(* The steps of the client itself *)

\* Where a client has nothing published and no backup, the places of its batch are as they were.
Bare(c) == \A f \in BatchFiles : backups[c][f] = NoFile /\ outputs[f] # c

\* A client is bare before it publishes, after it has rolled back, and while it rolls back once
\* it has neither a published file nor a backup.
LEMMA BareSteps ==
    ASSUME BatchInv, NEW c \in Clients
    PROVE  /\ step[c] \in {"resolve", "lock", "infer", "unlock", "refused", "failed"} => Bare(c)
           /\ step[c] = "restore" /\ Retired(c) = {} => Bare(c)
<1>1. ASSUME NEW f \in BatchFiles PROVE Owned(c, f)
  BY DEF BatchInv, ClientInv
<1>2. step[c] \in {"resolve", "lock", "infer", "unlock", "refused", "failed"} => Bare(c)
  BY <1>1 DEF Owned, Bare, Past
<1>3. ASSUME step[c] = "restore", Retired(c) = {} PROVE Bare(c)
  <2>1. \A f \in BatchFiles : backups[c][f] = NoFile
    BY <1>3 DEF Retired
  <2>2. ASSUME NEW f \in BatchFiles, outputs[f] = c PROVE FALSE
    <3>1. f \in ToSet(Files(c))
      BY <1>1, <1>3, <2>2 DEF Owned, Past
    <3>2. PICK i \in DOMAIN Files(c) : f = Files(c)[i]
      BY <3>1, FilesType DEF BatchInv
    <3>3. i <= position[c] /\ position[c] = 0 /\ i \in 1..Len(Files(c))
      BY <1>3, <2>2, <3>2, FilesType DEF BatchInv, ClientInv, Placed
    <3>4. QED
      BY <3>3
  <2>3. QED
    BY <2>1, <2>2 DEF Bare
<1>4. QED
  BY <1>2, <1>3

\* A step that leaves a bare client bare, holding its lock or none, keeps its invariant.
LEMMA BareKept ==
    ASSUME BatchInv, BatchTypeOK', NEW c \in Clients, Bare(c)',
           step'[c] \notin {"undo", "restore"}, Locked(c)', ConfigApart(c)',
           step'[c] \in {"publish", "resolve", "lock"} => position'[c] = 0
    PROVE  ClientInv(c)'
<1>1. ASSUME NEW f \in BatchFiles PROVE Owned(c, f)' /\ OldBackup(c, f)'
  BY ContentsType DEF Bare, Owned, OldBackup
<1>2. Placed(c)'
  <2>1. /\ DOMAIN Files(c)' = 1..Len(Files(c)') /\ Len(Files(c)') \in Nat
        /\ \A i \in DOMAIN Files(c)' : Files(c)'[i] \in BatchFiles
    BY TargetsType DEF BatchTypeOK, Files
  <2>2. QED
    BY <2>1 DEF Bare, Placed
<1>3. QED
  BY <1>1, <1>2 DEF ClientInv

\* The steps before publication, and the one after a rollback.
LEMMA OwnBare ==
    ASSUME BatchInv, BatchTypeOK', NEW c \in Clients,
           \/ ResolveOutputPaths(c) \/ TakeLock(c) \/ Infer(c)
           \/ Interrupt(c) /\ step[c] = "infer"
           \/ Restore(c) /\ Retired(c) = {}
    PROVE  ClientInv(c)'
<1>0. /\ BatchTypeOK /\ Locked(c) /\ ConfigApart(c) /\ Placed(c)
      /\ base[c] \in Bases /\ base \in [Clients -> Bases] /\ step \in [Clients -> Steps]
      /\ position \in [Clients -> Nat] /\ batchLock \in [Bases -> Clients \cup {NoFile}]
  BY DEF BatchInv, ClientInv, BatchTypeOK
<1>1. Bare(c) /\ UNCHANGED <<outputs, backups>>
  BY BareSteps DEF ResolveOutputPaths, TakeLock, Infer, Interrupt, Restore
<1>2. Bare(c)'
  BY <1>1 DEF Bare
<1>3. CASE ResolveOutputPaths(c)
  <2>1. PICK b \in Bases :
          /\ base' = [base EXCEPT ![c] = b]
          /\ (Accepted(c, b) /\ step'[c] = "lock") \/ step'[c] = "refused"
    BY <1>0, <1>3 DEF ResolveOutputPaths, GoOn
  <2>2. ask' = ask /\ position'[c] = 0
    BY <1>0, <1>3 DEF ResolveOutputPaths, Placed
  <2>3. Files(c)' = TargetsOf[b]
    BY <1>0, <2>1 DEF Files
  <2>4. Locked(c)' /\ ConfigApart(c)'
    BY <2>1, <2>2, <2>3 DEF Locked, ConfigApart, Accepted, Holding
  <2>5. QED
    BY <1>2, <2>1, <2>2, <2>4, BareKept
<1>4. CASE ~ResolveOutputPaths(c)
  <2>1. /\ ask' = ask /\ base' = base /\ Files(c)' = Files(c)
    BY <1>4 DEF TakeLock, Infer, Interrupt, Restore, Files
  <2>2. /\ step'[c] \in {"infer", "refused", "publish", "unlock"}
        /\ step[c] \in Holding \cup {"lock"}
        /\ step'[c] = "publish" => position'[c] = 0
        /\ step'[c] \in Holding => batchLock'[base[c]] = c
    <3>1. CASE TakeLock(c)
      BY <1>0, <3>1 DEF TakeLock, GoOn, Holding
    <3>2. CASE Infer(c)
      BY <1>0, <3>2 DEF Infer, GoOn, Holding, Locked
    <3>3. CASE Interrupt(c) /\ step[c] = "infer"
      BY <1>0, <3>3 DEF Interrupt, GoOn, Holding, Locked
    <3>4. CASE Restore(c) /\ Retired(c) = {}
      BY <1>0, <3>4 DEF Restore, GoOn, Holding, Locked
    <3>5. QED
      BY <1>4, <3>1, <3>2, <3>3, <3>4
  <2>3. Locked(c)' /\ ConfigApart(c)'
    BY <1>0, <2>1, <2>2 DEF Locked, ConfigApart, Holding
  <2>4. QED
    BY <1>2, <2>2, <2>3, BareKept
<1>5. QED
  BY <1>3, <1>4

\* The steps to an end.
LEMMA OwnEnd ==
    ASSUME BatchInv, BatchTypeOK', NEW c \in Clients,
           \/ Interrupt(c) /\ step[c] \in {"undo", "restore"}
           \/ Finish(c) \/ KillClient(c)
    PROVE  ClientInv(c)'
<1>0. /\ BatchTypeOK /\ ClientInv(c) /\ step \in [Clients -> Steps]
      /\ base[c] \in Bases /\ backups \in [Clients -> [BatchFiles -> Contents]]
      /\ batchLock \in [Bases -> Clients \cup {NoFile}]
  BY DEF BatchInv, BatchTypeOK
<1>1. /\ step'[c] \in {"abandoned", "complete", "failed", "killed"} /\ ask' = ask /\ base' = base
      /\ outputs' = outputs
      /\ \A d \in Clients : step[d] \in Past => step'[d] = step[d]
  BY <1>0 DEF Interrupt, Finish, KillClient, GoOn, Past, Ended
<1>2. Locked(c)' /\ ConfigApart(c)' /\ Placed(c)'
  BY <1>1 DEF Locked, ConfigApart, Placed, Holding
<1>3. CASE step'[c] \in Past \/ step'[c] = "failed"
  <2>1. \A f \in BatchFiles : backups'[c][f] = NoFile
    BY <1>0, <1>3 DEF Interrupt, Finish, KillClient, GoOn, Past
  <2>2. step'[c] = "failed" => \A f \in BatchFiles : outputs'[f] # c
    BY <1>0, <1>1, BareSteps DEF Interrupt, Finish, KillClient, GoOn, Bare
  <2>3. \A f \in BatchFiles : Owned(c, f)' /\ OldBackup(c, f)'
    BY <1>3, <2>1, <2>2, ContentsType DEF Owned, OldBackup
  <2>4. QED
    BY <1>2, <2>3 DEF ClientInv
<1>4. CASE step'[c] = "killed"
  <2>1. backups' = backups /\ batchLock' = batchLock /\ step[c] \notin Past /\ Files(c)' = Files(c)
    BY <1>0, <1>4 DEF Interrupt, Finish, KillClient, GoOn, Past, Ended, Files
  <2>2. \A f \in BatchFiles : Owned(c, f)'
    BY <1>0, <1>1, <1>4, <2>1 DEF ClientInv, Owned
  <2>3. \A f \in BatchFiles : OldBackup(c, f)'
    BY <1>0, <1>1, <2>1 DEF ClientInv, OldBackup
  <2>4. QED
    BY <1>2, <2>2, <2>3 DEF ClientInv
<1>5. QED
  BY <1>1, <1>3, <1>4 DEF Past

\* What holds where a client publishes or rolls back.
LEMMA Publishing ==
    ASSUME BatchInv, NEW c \in Clients, step[c] \in {"publish", "undo", "restore"}
    PROVE  /\ batchLock[base[c]] = c /\ c # NoFile /\ c # Redirect
           /\ \A f \in BatchFiles : backups[c][f] # NoFile \/ outputs[f] = c =>
                 /\ f \in ToSet(Files(c)) /\ outputs[f] \in {NoFile, c}
                 /\ backups[c][f] # NoFile => ask[c].overwrite
           /\ \A i \in DOMAIN Files(c) : outputs[Files(c)[i]] = c <=> i <= position[c]
           /\ \A f \in BatchFiles : backups[c][f] # c
           /\ ask[c].config \notin ToSet(Files(c))
BY ContentsType DEF BatchInv, ClientInv, Locked, ConfigApart, Owned, Placed, OldBackup, Holding,
   Past

\* The old file of a place is of a batch that is over, or of no batch.
LEMMA OldFile ==
    ASSUME Separate, BatchInv, NEW c \in Clients, batchLock[base[c]] = c,
           NEW f \in ToSet(Files(c)), outputs[f] # c, outputs[f] \in Clients
    PROVE  step[outputs[f]] \in Past
<1> DEFINE e == outputs[f]
<1> SUFFICES ASSUME step[e] \notin Past PROVE FALSE
  OBVIOUS
<1>1. BatchTypeOK /\ e \in Clients /\ f \in BatchFiles
  BY FilesType DEF BatchInv
<1>2. Owned(e, f)
  BY <1>1 DEF BatchInv, ClientInv
<1>3. f \in ToSet(Files(e)) /\ batchLock[base[e]] = e
  BY <1>1, <1>2 DEF Owned
<1>4. ToSet(Files(c)) \cap ToSet(Files(e)) = {}
  BY <1>1, <1>3, HoldersApart
<1>5. QED
  BY <1>3, <1>4

\* To move an old file away keeps the invariant.
LEMMA OwnRetire ==
    ASSUME Separate, BatchInv, NEW c \in Clients, Retire(c)
    PROVE  ClientInv(c)'
<1> DEFINE g == Current(c)
<1>0. /\ BatchTypeOK /\ ClientInv(c) /\ step[c] = "publish"
      /\ outputs \in [BatchFiles -> Contents] /\ backups \in [Clients -> [BatchFiles -> Contents]]
      /\ UNCHANGED <<batchLock, ask, base, step, position>> /\ Files(c)' = Files(c)
  BY DEF BatchInv, BatchTypeOK, Retire, Files
<1>1. /\ position[c] + 1 \in DOMAIN Files(c) /\ g = Files(c)[position[c] + 1]
      /\ g \in ToSet(Files(c)) /\ g \in BatchFiles /\ position[c] \in Nat
      /\ DOMAIN Files(c) = 1..Len(Files(c))
  BY <1>0, FilesType DEF Retire
<1>2. /\ outputs' = [outputs EXCEPT ![g] = NoFile]
      /\ \A f \in BatchFiles : backups'[c][f] = IF f = g THEN outputs[g] ELSE backups[c][f]
      /\ outputs[g] # NoFile /\ ask[c].overwrite
  BY <1>0, <1>1 DEF Retire
<1>3. outputs[g] # c
  BY <1>0, <1>1, Publishing
<1>4. Locked(c)' /\ ConfigApart(c)'
  BY <1>0 DEF ClientInv, Locked, ConfigApart
<1>5. Placed(c)'
  <2>1. ASSUME NEW i \in DOMAIN Files(c)
        PROVE  outputs'[Files(c)[i]] = c <=> i <= position[c]
    <3>1. Files(c)[i] \in BatchFiles
      BY <1>0, FilesType
    <3>2. CASE i = position[c] + 1
      BY <1>0, <1>1, <1>2, <3>2, ContentsType
    <3>3. CASE i # position[c] + 1
      BY <1>0, <1>1, <1>2, <3>1, <3>3, Publishing, FilesType
    <3>4. QED
      BY <3>2, <3>3
  <2>2. QED
    BY <1>0, <2>1 DEF Placed
<1>6. ASSUME NEW f \in BatchFiles PROVE Owned(c, f)' /\ OldBackup(c, f)'
  <2>1. CASE f = g
    <3>1. outputs[g] \in Clients => step[outputs[g]] \in Past
      BY <1>0, <1>1, <1>3, OldFile, Publishing
    <3>2. QED
      BY <1>0, <1>1, <1>2, <2>1, <3>1, Publishing, ContentsType DEF Owned, OldBackup
  <2>2. CASE f # g
    BY <1>0, <1>2, <2>2 DEF ClientInv, Owned, OldBackup
  <2>3. QED
    BY <2>1, <2>2
<1>7. QED
  BY <1>4, <1>5, <1>6 DEF ClientInv

\* To link a new file into a free place keeps the invariant.
LEMMA OwnLink ==
    ASSUME BatchInv, NEW c \in Clients, LinkOutput(c)
    PROVE  ClientInv(c)'
<1> DEFINE g == Current(c)
<1>0. /\ BatchTypeOK /\ ClientInv(c) /\ step[c] = "publish"
      /\ outputs \in [BatchFiles -> Contents] /\ position \in [Clients -> Nat]
      /\ UNCHANGED <<batchLock, ask, base, step, backups>> /\ Files(c)' = Files(c)
  BY DEF BatchInv, BatchTypeOK, LinkOutput, Files
<1>1. /\ position[c] + 1 \in DOMAIN Files(c) /\ g = Files(c)[position[c] + 1]
      /\ g \in ToSet(Files(c)) /\ g \in BatchFiles /\ position[c] \in Nat
      /\ DOMAIN Files(c) = 1..Len(Files(c))
  BY <1>0, FilesType DEF LinkOutput
<1>2. /\ outputs' = [outputs EXCEPT ![g] = c] /\ position'[c] = position[c] + 1
  BY <1>0, <1>1 DEF LinkOutput
<1>3. Locked(c)' /\ ConfigApart(c)'
  BY <1>0 DEF ClientInv, Locked, ConfigApart
<1>4. Placed(c)'
  <2>1. ASSUME NEW i \in DOMAIN Files(c)
        PROVE  outputs'[Files(c)[i]] = c <=> i <= position[c] + 1
    <3>1. Files(c)[i] \in BatchFiles
      BY <1>0, FilesType
    <3>2. CASE i = position[c] + 1
      BY <1>0, <1>1, <1>2, <3>2
    <3>3. CASE i # position[c] + 1
      BY <1>0, <1>1, <1>2, <3>1, <3>3, Publishing, FilesType
    <3>4. QED
      BY <3>2, <3>3
  <2>2. QED
    BY <1>0, <1>2, <2>1 DEF Placed
<1>5. ASSUME NEW f \in BatchFiles PROVE Owned(c, f)' /\ OldBackup(c, f)'
  <2>1. CASE f = g
    BY <1>0, <1>1, <1>2, <2>1, Publishing DEF ClientInv, Owned, OldBackup
  <2>2. CASE f # g
    BY <1>0, <1>2, <2>2 DEF ClientInv, Owned, OldBackup
  <2>3. QED
    BY <2>1, <2>2
<1>6. QED
  BY <1>3, <1>4, <1>5 DEF ClientInv

\* To turn to the rollback keeps it, and so does to take a published file away.
LEMMA OwnUndo ==
    ASSUME BatchInv, NEW c \in Clients,
           Undo(c) \/ (Interrupt(c) /\ step[c] = "publish")
    PROVE  ClientInv(c)'
<1>0. /\ BatchTypeOK /\ ClientInv(c) /\ step[c] \in {"publish", "undo"}
      /\ outputs \in [BatchFiles -> Contents] /\ position \in [Clients -> Nat]
      /\ step \in [Clients -> Steps]
      /\ UNCHANGED <<batchLock, ask, base, backups>> /\ Files(c)' = Files(c)
      /\ step'[c] \in {"undo", "restore"}
      /\ \A d \in Clients : step[d] \in Past => step'[d] = step[d]
  BY DEF BatchInv, BatchTypeOK, Undo, Interrupt, Files, GoOn, Past
<1>1. Locked(c)' /\ ConfigApart(c)'
  BY <1>0 DEF ClientInv, Locked, ConfigApart, Holding
<1>2. CASE outputs' = outputs /\ position' = position /\ (step'[c] = "restore" => position[c] = 0)
  <2>1. Placed(c)'
    BY <1>0, <1>2 DEF ClientInv, Placed
  <2>2. \A f \in BatchFiles : Owned(c, f)' /\ OldBackup(c, f)'
    BY <1>0, <1>2 DEF ClientInv, Owned, OldBackup, Past
  <2>3. QED
    BY <1>1, <2>1, <2>2 DEF ClientInv
<1>3. CASE Undo(c) /\ position[c] # 0
  <2> DEFINE g == Files(c)[position[c]]
  <2>1. /\ position[c] \in DOMAIN Files(c) /\ position[c] \in Nat /\ DOMAIN Files(c) = 1..Len(Files(c))
        /\ g \in ToSet(Files(c)) /\ g \in BatchFiles
    BY <1>0, <1>3, FilesType
  <2>2. /\ outputs' = [outputs EXCEPT ![g] = NoFile] /\ position'[c] = position[c] - 1
        /\ step' = step /\ step[c] = "undo"
    BY <1>0, <1>3 DEF Undo
  <2>3. Placed(c)'
    <3>1. ASSUME NEW i \in DOMAIN Files(c)
          PROVE  outputs'[Files(c)[i]] = c <=> i <= position[c] - 1
      <4>1. Files(c)[i] \in BatchFiles
        BY <1>0, FilesType
      <4>2. CASE i = position[c]
        BY <1>0, <2>1, <2>2, <4>2, Publishing
      <4>3. CASE i # position[c]
        BY <1>0, <2>1, <2>2, <4>1, <4>3, Publishing, FilesType
      <4>4. QED
        BY <4>2, <4>3
    <3>2. QED
      BY <1>0, <2>2, <3>1 DEF Placed
  <2>4. ASSUME NEW f \in BatchFiles PROVE Owned(c, f)' /\ OldBackup(c, f)'
    <3>1. CASE f = g
      BY <1>0, <2>1, <2>2, <3>1, Publishing DEF ClientInv, Owned, OldBackup
    <3>2. CASE f # g
      BY <1>0, <2>2, <3>2 DEF ClientInv, Owned, OldBackup
    <3>3. QED
      BY <3>1, <3>2
  <2>5. QED
    BY <1>1, <2>3, <2>4 DEF ClientInv
<1>4. QED
  BY <1>0, <1>2, <1>3 DEF Undo, Interrupt, GoOn

\* A backup goes back to a place that the rollback has left free.
LEMMA OwnRestore ==
    ASSUME BatchInv, NEW c \in Clients, Restore(c), Retired(c) # {}
    PROVE  /\ ClientInv(c)'
           /\ \A f \in BatchFiles : backups'[c][f] # backups[c][f] =>
                 /\ outputs[f] = NoFile /\ outputs'[f] = backups[c][f] /\ backups[c][f] # c
                 /\ backups'[c][f] = NoFile
<1>0. /\ BatchTypeOK /\ ClientInv(c) /\ step[c] = "restore"
      /\ outputs \in [BatchFiles -> Contents] /\ backups \in [Clients -> [BatchFiles -> Contents]]
      /\ UNCHANGED <<batchLock, ask, base, step, position>> /\ Files(c)' = Files(c)
  BY DEF BatchInv, BatchTypeOK, Restore, Files
<1>1. PICK k \in DOMAIN Files(c) :
        /\ Files(c)[k] \in Retired(c)
        /\ outputs' = [outputs EXCEPT ![Files(c)[k]] = backups[c][Files(c)[k]]]
        /\ backups' = [backups EXCEPT ![c][Files(c)[k]] = NoFile]
  BY DEF Restore
<1> DEFINE g == Files(c)[k]
<1>2. /\ g \in ToSet(Files(c)) /\ g \in BatchFiles /\ backups[c][g] # NoFile
      /\ DOMAIN Files(c) = 1..Len(Files(c)) /\ position[c] = 0
  BY <1>0, <1>1, FilesType DEF Retired, ClientInv, Placed
<1>3. \A f \in BatchFiles : backups'[c][f] = IF f = g THEN NoFile ELSE backups[c][f]
  BY <1>0, <1>1
<1>4. outputs[g] = NoFile /\ backups[c][g] # c
  BY <1>0, <1>2, Publishing
<1>5. Locked(c)' /\ ConfigApart(c)'
  BY <1>0 DEF ClientInv, Locked, ConfigApart
<1>6. Placed(c)'
  <2>1. ASSUME NEW i \in DOMAIN Files(c) PROVE outputs'[Files(c)[i]] = c <=> i <= position[c]
    <3>1. Files(c)[i] \in BatchFiles /\ ~(i <= position[c])
      BY <1>0, <1>2, FilesType
    <3>2. outputs[Files(c)[i]] # c
      BY <1>0, <3>1, Publishing
    <3>3. QED
      BY <1>0, <1>1, <1>4, <3>1, <3>2
  <2>2. QED
    BY <1>0, <2>1 DEF ClientInv, Placed
<1>7. ASSUME NEW f \in BatchFiles PROVE Owned(c, f)' /\ OldBackup(c, f)'
  <2>1. CASE f = g
    BY <1>0, <1>1, <1>2, <1>3, <1>4, <2>1, ContentsType DEF Owned, OldBackup
  <2>2. CASE f # g
    BY <1>0, <1>1, <1>3, <2>2 DEF ClientInv, Owned, OldBackup
  <2>3. QED
    BY <2>1, <2>2
<1>8. ClientInv(c)'
  BY <1>5, <1>6, <1>7 DEF ClientInv
<1>9. QED
  BY <1>0, <1>1, <1>2, <1>3, <1>4, <1>8

-----------------------------------------------------------------------------
(* The invariant *)

\* The invariant holds at first.
LEMMA InitBatchInv == BatchInit => BatchInv
<1> SUFFICES ASSUME BatchInit PROVE BatchInv
  OBVIOUS
<1>1. BatchTypeOK
  BY InitBatchType
<1>2. ASSUME NEW c \in Clients PROVE ClientInv(c)
  <2>1. /\ step[c] = "resolve" /\ position[c] = 0
        /\ \A f \in BatchFiles : backups[c][f] = NoFile /\ outputs[f] # c
    BY BatchAssumption DEF BatchInit
  <2>2. QED
    BY <2>1, ContentsType
    DEF ClientInv, Locked, ConfigApart, Owned, Placed, OldBackup, Holding
<1>3. QED
  BY <1>1, <1>2 DEF BatchInv

\* The step of a client keeps it.
LEMMA StepBatchInv ==
    ASSUME Separate, BatchInv, NEW c \in Clients, ClientStep(c)
    PROVE  BatchInv'
<1>1. BatchTypeOK'
  BY NextBatchType DEF BatchInv, ClientInv
<1>2. ClientInv(c)'
  <2>1. CASE \/ ResolveOutputPaths(c) \/ TakeLock(c) \/ Infer(c)
             \/ Interrupt(c) /\ step[c] = "infer"
             \/ Restore(c) /\ Retired(c) = {}
    BY <1>1, <2>1, OwnBare
  <2>2. CASE \/ Interrupt(c) /\ step[c] \in {"undo", "restore"}
             \/ Finish(c) \/ KillClient(c)
    BY <1>1, <2>2, OwnEnd
  <2>3. CASE Undo(c) \/ (Interrupt(c) /\ step[c] = "publish")
    BY <2>3, OwnUndo
  <2>4. CASE Retire(c) \/ LinkOutput(c) \/ (Restore(c) /\ Retired(c) # {})
    BY <2>4, OwnRetire, OwnLink, OwnRestore
  <2>5. Interrupt(c) => step[c] \in {"infer", "publish", "undo", "restore"}
    BY DEF Interrupt
  <2>6. QED
    BY <2>1, <2>2, <2>3, <2>4, <2>5 DEF ClientStep
<1>3. \A d \in Clients : ClientInv(d)'
  BY <1>2, OtherKept
<1>4. QED
  BY <1>1, <1>3 DEF BatchInv

\* The invariant is inductive.
LEMMA NextBatchInv == ASSUME Separate PROVE BatchInv /\ [BatchNext]_batchVars => BatchInv'
<1> SUFFICES ASSUME BatchInv, [BatchNext]_batchVars PROVE BatchInv'
  OBVIOUS
<1>1. CASE BatchNext
  BY <1>1, StepBatchInv DEF BatchNext, ClientStep
<1>2. CASE UNCHANGED batchVars
  BY <1>2 DEF batchVars, BatchInv, BatchTypeOK, ClientInv, Locked, ConfigApart, Owned, Placed,
     OldBackup, Files
<1>3. QED
  BY <1>1, <1>2

-----------------------------------------------------------------------------
(* What a batch keeps beside its own files *)

\* No two clients hold the lock of one --output.
LEMMA OneHolder == BatchInv => OnePublisher
<1> SUFFICES ASSUME BatchInv, NEW c \in Clients, NEW d \in Clients, c # d, base[c] = base[d],
                    step[c] \in Holding, step[d] \in Holding
             PROVE  FALSE
  BY DEF OnePublisher, Holding
<1>1. QED
  BY DEF BatchInv, ClientInv, Locked

\* A rollback puts a backup only where nothing is.
LEMMA StepRestores ==
    ASSUME BatchInv, BatchNext, NEW c \in Clients, step[c] = "restore", NEW f \in BatchFiles,
           backups'[c][f] # backups[c][f], outputs' # outputs
    PROVE  outputs[f] = NoFile
<1>1. PICK d \in Clients : ClientStep(d)
  BY DEF BatchNext, ClientStep
<1>2. d = c
  BY <1>1, StepOthers DEF BatchInv
<1>3. Restore(c) /\ Retired(c) # {}
  BY <1>1, <1>2 DEF ClientStep, ResolveOutputPaths, TakeLock, Infer, Retire, LinkOutput,
     Interrupt, Undo, Restore, Finish, KillClient
<1>4. QED
  BY <1>3, OwnRestore

\* A client's own step leaves the file that its request was read from.
LEMMA StepKeepsConfig ==
    ASSUME BatchInv, BatchNext, NEW c \in Clients, ask[c].config # NoFile
    PROVE  \/ outputs'[ask[c].config] = outputs[ask[c].config]
           \/ step'[c] = step[c] /\ position'[c] = position[c] /\ backups'[c] = backups[c]
<1>1. PICK d \in Clients : ClientStep(d)
  BY DEF BatchNext, ClientStep
<1>2. CASE d # c
  BY <1>1, <1>2, StepOthers DEF BatchInv
<1>3. CASE d = c
  <2>1. ask[c].config \in BatchFiles
    BY BatchAssumption DEF BatchInv, BatchTypeOK
  <2>2. QED
    BY <1>1, <1>3, <2>1, StepWrites, Publishing DEF BatchInv
<1>4. QED
  BY <1>2, <1>3

\* Whatever clients run, fail or are killed between any two of their steps: no two publish under
\* one lock, a rollback replaces nothing, and the file of the request stays.
THEOREM BatchesKept == ASSUME Separate PROVE BatchSpec => BatchKept
<1>1. BatchInv /\ [BatchNext]_batchVars =>
        /\ [\A c \in Clients : step[c] = "restore" =>
              \A f \in BatchFiles : backups'[c][f] # backups[c][f] /\ outputs' # outputs
                                    => outputs[f] = NoFile]_batchVars
        /\ [\A c \in Clients : ask[c].config # NoFile /\ outputs[ask[c].config] # NoFile =>
              \/ outputs'[ask[c].config] = outputs[ask[c].config]
              \/ step'[c] = step[c] /\ position'[c] = position[c]
                 /\ backups'[c] = backups[c]]_batchVars
  BY StepRestores, StepKeepsConfig
<1>2. BatchInv => BatchTypeOK /\ OnePublisher
  BY OneHolder DEF BatchInv
<1>3. QED
  BY <1>1, <1>2, InitBatchInv, NextBatchInv, PTL
  DEF BatchSpec, BatchKept, RollbackReplacesNothing, ConfigurationSurvives

-----------------------------------------------------------------------------
(* Publication is atomic *)

\* A client that hides a place has the lock of a batch of which the place is.
LEMMA HidingOwns ==
    ASSUME BatchInv, NEW f \in BatchFiles, NEW c \in Hiding(f)
    PROVE  /\ c \in Clients /\ f \in ToSet(Files(c)) /\ batchLock[base[c]] = c
           /\ step[c] \in {"publish", "undo", "restore", "killed"}
           /\ outputs[f] \in {NoFile, c}
<1>1. c \in Clients /\ step[c] \notin Past /\ (backups[c][f] # NoFile \/ outputs[f] = c)
  BY DEF Hiding, Past
<1>2. QED
  BY <1>1 DEF BatchInv, ClientInv, Owned

\* A client that has the lock of a batch is the only one that may hide its places.
LEMMA HidingAlone ==
    ASSUME Separate, BatchInv, NEW c \in Clients, batchLock[base[c]] = c,
           NEW f \in ToSet(Files(c)), NEW d \in Hiding(f)
    PROVE  d = c
<1>1. BatchTypeOK /\ f \in BatchFiles
  BY FilesType DEF BatchInv
<1>2. d \in Clients /\ f \in ToSet(Files(d)) /\ batchLock[base[d]] = d
  BY <1>1, HidingOwns
<1>3. QED
  BY <1>1, <1>2, HoldersApart

\* So what is shown at such a place is the client's backup, if it has one or has published
\* there, and otherwise what is there.
LEMMA ShownMine ==
    ASSUME Separate, BatchInv, NEW c \in Clients, batchLock[base[c]] = c,
           NEW f \in ToSet(Files(c))
    PROVE  Shown[f] = IF step[c] \notin Past /\ (backups[c][f] # NoFile \/ outputs[f] = c)
                      THEN backups[c][f] ELSE outputs[f]
<1>1. f \in BatchFiles
  BY FilesType DEF BatchInv
<1>2. Hiding(f) \subseteq {c}
  BY HidingAlone
<1>3. c \in Hiding(f) <=> step[c] \notin Past /\ (backups[c][f] # NoFile \/ outputs[f] = c)
  BY DEF Hiding, Past
<1>4. CASE c \in Hiding(f)
  <2>1. Hiding(f) = {c}
    BY <1>2, <1>4
  <2>2. QED
    BY <1>1, <1>3, <1>4, <2>1 DEF Shown
<1>5. CASE c \notin Hiding(f)
  <2>1. Hiding(f) = {}
    BY <1>2, <1>5
  <2>2. QED
    BY <1>1, <1>3, <1>5, <2>1 DEF Shown
<1>6. QED
  BY <1>4, <1>5

\* The clients that are over stay so, and only the last step of one makes it over.
LEMMA StepOver ==
    ASSUME BatchInv, NEW c \in Clients, ClientStep(c)
    PROVE  /\ step[c] \notin Past
           /\ \A d \in Clients \ {c} : step'[d] \in Past <=> step[d] \in Past
           /\ \A d \in Clients \ {c} : step'[d] = step[d]
           /\ step'[c] = "complete" => Finish(c) /\ step[c] = "publish"
           /\ step'[c] = "abandoned" => Interrupt(c) /\ step[c] \in {"undo", "restore"}
<1>1. step \in [Clients -> Steps]
  BY DEF BatchInv, BatchTypeOK
<1>2. step[c] \notin Past /\ \A d \in Clients \ {c} : step'[d] = step[d]
  BY StepAlive, StepOthers DEF BatchInv, Past, Ended
<1>3. step'[c] \in Past => Finish(c) \/ Interrupt(c)
  BY <1>1 DEF ClientStep, ResolveOutputPaths, TakeLock, Infer, Retire, LinkOutput, Undo,
     Restore, KillClient, GoOn, Past
<1>4. QED
  BY <1>1, <1>2, <1>3 DEF Finish, Interrupt, GoOn, Past

\* A place where nothing has changed, neither what is there nor a backup nor an end, shows the
\* same.
LEMMA ShownSame ==
    ASSUME NEW f \in BatchFiles, outputs'[f] = outputs[f],
           \A d \in Clients : /\ backups'[d][f] = backups[d][f]
                              /\ step'[d] \in Past <=> step[d] \in Past
    PROVE  Shown'[f] = Shown[f]
<1>1. Hiding(f)' = Hiding(f)
  BY DEF Hiding, Past
<1>2. CASE Hiding(f) = {}
  BY <1>1, <1>2 DEF Shown
<1>3. CASE Hiding(f) # {}
  <2>1. (CHOOSE d \in Hiding(f) : TRUE) \in Clients
    BY <1>3 DEF Hiding
  <2>2. QED
    BY <1>1, <1>3, <2>1 DEF Shown
<1>4. QED
  BY <1>2, <1>3

\* Places of other batches show the same after any step.
LEMMA ShownElsewhere ==
    ASSUME BatchInv, BatchInv', NEW c \in Clients, ClientStep(c),
           NEW f \in BatchFiles, f \notin ToSet(Files(c))
    PROVE  Shown'[f] = Shown[f]
<1>1. /\ outputs'[f] = outputs[f]
      /\ \A d \in Clients \ {c} : backups'[d] = backups[d]
      /\ \A d \in Clients \ {c} : step'[d] = step[d]
  BY StepWrites, StepOthers DEF BatchInv
<1>2. c \notin Hiding(f)
  BY HidingOwns
<1>3. c \notin Hiding(f)'
  <2>2. step[c] = "resolve" => backups'[c][f] = backups[c][f]
    BY DEF ClientStep, ResolveOutputPaths, TakeLock, Infer, Retire, LinkOutput, Interrupt, Undo,
       Restore, Finish, KillClient
  <2>3. step[c] # "resolve" => Files(c)' = Files(c)
    BY StepOthers DEF BatchInv, Files
  <2>4. Owned(c, f)' /\ step[c] \notin Past
    BY StepOver DEF BatchInv, ClientInv
  <2>5. CASE step[c] = "resolve"
    BY <1>1, <1>2, <2>2, <2>4, <2>5 DEF Hiding, Past
  <2>6. CASE step[c] # "resolve"
    BY <2>3, <2>4, <2>6 DEF Owned, Hiding, Past
  <2>7. QED
    BY <2>5, <2>6
<1>4. Hiding(f)' = Hiding(f)
  BY <1>1, <1>2, <1>3 DEF Hiding
<1>5. CASE Hiding(f) = {}
  BY <1>1, <1>4, <1>5 DEF Shown
<1>6. CASE Hiding(f) # {}
  <2>1. (CHOOSE d \in Hiding(f) : TRUE) \in Clients \ {c}
    BY <1>2, <1>6 DEF Hiding
  <2>2. QED
    BY <1>1, <1>4, <1>6, <2>1 DEF Shown
<1>7. QED
  BY <1>5, <1>6

\* The same after a step.
LEMMA ShownMineNext ==
    ASSUME Separate, BatchInv', NEW c \in Clients, batchLock'[base'[c]] = c,
           NEW f \in BatchFiles, f \in ToSet(Files(c))'
    PROVE  Shown'[f] = IF step'[c] \notin Past /\ (backups'[c][f] # NoFile \/ outputs'[f] = c)
                       THEN backups'[c][f] ELSE outputs'[f]
<1>1. ASSUME NEW d \in Hiding(f)', d # c PROVE FALSE
  <2>1. d \in Clients /\ step'[d] \notin Past /\ (backups'[d][f] # NoFile \/ outputs'[f] = d)
    BY <1>1 DEF Hiding, Past
  <2>2. Owned(d, f)'
    BY <2>1 DEF BatchInv, ClientInv
  <2>3. f \in ToSet(Files(d))' /\ batchLock'[base'[d]] = d
    BY <2>1, <2>2 DEF Owned
  <2>4. base'[c] \in Bases /\ base'[d] \in Bases /\ base'[c] # base'[d]
    BY <1>1, <2>1, <2>3 DEF BatchInv, BatchTypeOK
  <2>5. QED
    BY <2>3, <2>4 DEF Separate, Files
<1>2. Hiding(f)' \subseteq {c}
  BY <1>1
<1>3. c \in Hiding(f)' <=> step'[c] \notin Past /\ (backups'[c][f] # NoFile \/ outputs'[f] = c)
  BY DEF Hiding, Past
<1>4. CASE c \in Hiding(f)'
  <2>1. Hiding(f)' = {c}
    BY <1>2, <1>4
  <2>2. QED
    BY <1>3, <1>4, <2>1 DEF Shown
<1>5. CASE c \notin Hiding(f)'
  <2>1. Hiding(f)' = {}
    BY <1>2, <1>5
  <2>2. QED
    BY <1>3, <1>5, <2>1 DEF Shown
<1>6. QED
  BY <1>4, <1>5

\* Until a batch ends, its places show what they showed: the old files, hidden or not.
LEMMA ShownKept ==
    ASSUME Separate, BatchInv, BatchInv', NEW c \in Clients, ClientStep(c), step'[c] \notin Past,
           NEW f \in ToSet(Files(c))
    PROVE  Shown'[f] = Shown[f]
<1>0. /\ BatchTypeOK /\ f \in BatchFiles
      /\ outputs \in [BatchFiles -> Contents] /\ backups \in [Clients -> [BatchFiles -> Contents]]
      /\ \A d \in Clients : step'[d] \in Past <=> step[d] \in Past
      /\ \A d \in Clients \ {c} : backups'[d] = backups[d]
  BY StepOver, StepOthers, FilesType DEF BatchInv, BatchTypeOK
<1>1. ASSUME outputs' = outputs, backups' = backups PROVE Shown'[f] = Shown[f]
  BY <1>0, <1>1, ShownSame
<1>2. ASSUME outputs'[f] = outputs[f], backups'[c][f] = backups[c][f] PROVE Shown'[f] = Shown[f]
  BY <1>0, <1>2, ShownSame
<1>3. CASE ResolveOutputPaths(c) \/ TakeLock(c) \/ Infer(c) \/ KillClient(c)
  BY <1>1, <1>3 DEF ResolveOutputPaths, TakeLock, Infer, KillClient
<1>4. CASE Interrupt(c)
  <2>1. step[c] \notin {"undo", "restore"}
    BY <1>0, <1>4 DEF Interrupt, GoOn, Past, BatchTypeOK
  <2>2. QED
    BY <1>1, <1>4, <2>1 DEF Interrupt
<1>5. CASE Finish(c)
  <2>1. step[c] = "unlock"
    BY <1>0, <1>5 DEF Finish, GoOn, Past, BatchTypeOK
  <2>2. backups'[c][f] = backups[c][f]
    BY <1>0, <1>5, <2>1, BareSteps DEF Finish, Bare
  <2>3. QED
    BY <1>2, <1>5, <2>2 DEF Finish
<1>6. ASSUME step[c] \in {"publish", "undo", "restore"}, step' = step, base' = base,
             batchLock' = batchLock
      PROVE  /\ Shown[f] = IF backups[c][f] # NoFile \/ outputs[f] = c
                           THEN backups[c][f] ELSE outputs[f]
             /\ Shown'[f] = IF backups'[c][f] # NoFile \/ outputs'[f] = c
                            THEN backups'[c][f] ELSE outputs'[f]
  <2>1. batchLock[base[c]] = c /\ step[c] \notin Past
    BY <1>6, Publishing DEF Past
  <2>2. f \in ToSet(Files(c))'
    BY <1>6 DEF Files
  <2>3. QED
    BY <1>0, <1>6, <2>1, <2>2, ShownMine, ShownMineNext
<1>7. CASE Retire(c)
  <2> DEFINE g == Current(c)
  <2>1. /\ g \in BatchFiles /\ outputs' = [outputs EXCEPT ![g] = NoFile]
        /\ backups'[c] = [backups[c] EXCEPT ![g] = outputs[g]]
        /\ outputs[g] # NoFile /\ backups[c][g] = NoFile /\ outputs[g] # c
    <3>1. g = Files(c)[position[c] + 1] /\ position[c] + 1 \in DOMAIN Files(c)
          /\ g \in BatchFiles /\ position[c] \in Nat
      BY <1>0, <1>7, FilesType DEF Retire
    <3>2. QED
      BY <1>0, <1>7, <3>1, Publishing DEF Retire
  <2>2. CASE f = g
    <3>1. backups'[c][f] = outputs[f]
      BY <1>0, <2>1, <2>2
    <3>2. QED
      BY <1>0, <1>6, <1>7, <2>1, <2>2, <3>1 DEF Retire
  <2>3. CASE f # g
    BY <1>0, <1>2, <2>1, <2>3
  <2>4. QED
    BY <2>2, <2>3
<1>8. CASE LinkOutput(c)
  <2> DEFINE g == Current(c)
  <2>1. g \in BatchFiles /\ outputs' = [outputs EXCEPT ![g] = c] /\ outputs[g] = NoFile
    BY <1>0, <1>8, FilesType DEF LinkOutput
  <2>2. CASE f = g
    BY <1>0, <1>6, <1>8, <2>1, <2>2, ContentsType DEF LinkOutput
  <2>3. CASE f # g
    BY <1>0, <1>2, <1>8, <2>1, <2>3 DEF LinkOutput
  <2>4. QED
    BY <2>2, <2>3
<1>9. CASE Undo(c)
  <2>1. CASE position[c] = 0
    BY <1>1, <1>9, <2>1 DEF Undo
  <2>2. CASE position[c] # 0
    <3> DEFINE g == Files(c)[position[c]]
    <3>1. position[c] \in DOMAIN Files(c) /\ position[c] \in Nat
      BY <1>0, <2>2, FilesType
    <3>2. g \in BatchFiles /\ outputs' = [outputs EXCEPT ![g] = NoFile] /\ outputs[g] = c
      BY <1>0, <1>9, <2>2, <3>1, FilesType, Publishing DEF Undo
    <3>3. CASE f = g
      BY <1>0, <1>6, <1>9, <2>2, <3>2, <3>3, ContentsType DEF Undo
    <3>4. CASE f # g
      BY <1>0, <1>2, <1>9, <3>2, <3>4 DEF Undo
    <3>5. QED
      BY <3>3, <3>4
  <2>3. QED
    BY <2>1, <2>2
<1>10. CASE Restore(c)
  <2>1. CASE Retired(c) = {}
    BY <1>1, <1>10, <2>1 DEF Restore
  <2>2. CASE Retired(c) # {}
    <3>1. PICK g \in BatchFiles : /\ outputs' = [outputs EXCEPT ![g] = backups[c][g]]
                                  /\ backups'[c] = [backups[c] EXCEPT ![g] = NoFile]
                                  /\ backups[c][g] # NoFile
      BY <1>0, <1>10, <2>2 DEF Restore, Retired
    <3>2. CASE f = g
      <4>1. backups'[c][f] = NoFile /\ outputs'[f] = backups[c][f] /\ backups[c][f] # c
        BY <1>0, <1>10, <3>1, <3>2, Publishing DEF Restore
      <4>2. QED
        BY <1>6, <1>10, <2>2, <3>1, <3>2, <4>1 DEF Restore
    <3>3. CASE f # g
      BY <1>0, <1>2, <3>1, <3>3
    <3>4. QED
      BY <3>2, <3>3
  <2>3. QED
    BY <2>1, <2>2
<1>11. QED
  BY <1>3, <1>4, <1>5, <1>7, <1>8, <1>9, <1>10 DEF ClientStep

\* When a batch is over, its places show what is there.
LEMMA ShownOver ==
    ASSUME Separate, BatchInv, NEW c \in Clients, ClientStep(c), step'[c] \in Past,
           NEW f \in ToSet(Files(c))
    PROVE  Shown'[f] = outputs[f]
<1>1. /\ step[c] \in {"publish", "undo", "restore"} /\ outputs' = outputs
      /\ \A d \in Clients \ {c} : backups'[d] = backups[d] /\ step'[d] = step[d]
  BY StepOver, StepOthers DEF BatchInv, Past, Finish, Interrupt
<1>2. ASSUME NEW d \in Hiding(f)' PROVE FALSE
  <2>1. d \in Clients \ {c}
    BY <1>2 DEF Hiding, Past
  <2>2. d \in Hiding(f)
    BY <1>1, <1>2, <2>1 DEF Hiding
  <2>3. QED
    BY <1>1, <2>1, <2>2, HidingAlone, Publishing
<1>3. f \in BatchFiles
  BY FilesType DEF BatchInv
<1>4. QED
  BY <1>1, <1>2, <1>3 DEF Shown

\* The last step of a publication exchanges all places of its batch at once.
LEMMA StepExchanges ==
    ASSUME Separate, BatchInv, BatchInv', NEW c \in Clients, ClientStep(c), step'[c] = "complete"
    PROVE  Atomic!Exchange(c, ToSet(Files(c)))
<1>1. /\ Finish(c) /\ step[c] = "publish" /\ position[c] = Len(Files(c)) /\ BatchTypeOK
      /\ \A d \in Clients \ {c} : step'[d] = step[d]
  BY StepOver DEF Finish, GoOn, BatchInv, BatchTypeOK
<1>2. \A f \in ToSet(Files(c)) : outputs[f] = c
  BY <1>1, FilesType, Publishing
<1>3. ASSUME NEW f \in BatchFiles
      PROVE  Shown'[f] = IF f \in ToSet(Files(c)) THEN c ELSE Shown[f]
  <2>1. CASE f \in ToSet(Files(c))
    BY <1>2, <2>1, ShownOver DEF Past
  <2>2. CASE f \notin ToSet(Files(c))
    BY <2>2, ShownElsewhere
  <2>3. QED
    BY <2>1, <2>2
<1>4. Shown' = [f \in BatchFiles |-> IF f \in ToSet(Files(c)) THEN c ELSE Shown[f]]
  <2>1. Shown' = [f \in BatchFiles |-> Shown'[f]]
    BY DEF Shown
  <2>2. QED
    BY <1>3, <2>1
<1>5. ask[c].overwrite \/ \A f \in ToSet(Files(c)) : Shown[f] = NoFile
  <2>1. ASSUME ~ask[c].overwrite, NEW f \in ToSet(Files(c)) PROVE Shown[f] = NoFile
    <3>1. f \in BatchFiles
      BY <1>1, FilesType
    <3>2. backups[c][f] = NoFile
      BY <1>1, <2>1, <3>1, Publishing
    <3>3. Shown[f] = backups[c][f]
      BY <1>1, <1>2, ShownMine, Publishing DEF Past
    <3>4. QED
      BY <3>2, <3>3
  <2>2. QED
    BY <2>1
<1>6. /\ {d \in Clients : step'[d] = "complete"} = {d \in Clients : step[d] = "complete"} \cup {c}
      /\ {d \in Clients : step'[d] = "abandoned"} = {d \in Clients : step[d] = "abandoned"}
  BY <1>1
<1>7. QED
  BY <1>1, <1>4, <1>5, <1>6 DEF Atomic!Exchange

\* A rollback that fails abandons its batch, whose places show the old file, the new one or none.
LEMMA StepAbandons ==
    ASSUME Separate, BatchInv, BatchInv', NEW c \in Clients, ClientStep(c), step'[c] = "abandoned"
    PROVE  Atomic!Abandon(c, ToSet(Files(c)))
<1>1. /\ step[c] \in {"undo", "restore"} /\ BatchTypeOK
      /\ \A d \in Clients \ {c} : step'[d] = step[d]
  BY StepOver DEF BatchInv
<1>2. ASSUME NEW f \in BatchFiles
      PROVE  Shown'[f] = Shown[f] \/ (f \in ToSet(Files(c)) /\ Shown'[f] \in {NoFile, c})
  <2>1. CASE f \in ToSet(Files(c))
    <3>1. Shown'[f] = outputs[f]
      BY <2>1, ShownOver DEF Past
    <3>2. batchLock[base[c]] = c
      BY <1>1, Publishing
    <3>3. Shown[f] = IF backups[c][f] # NoFile \/ outputs[f] = c THEN backups[c][f] ELSE outputs[f]
      BY <1>1, <2>1, <3>2, ShownMine DEF Past
    <3>4. backups[c][f] # NoFile \/ outputs[f] = c => outputs[f] \in {NoFile, c}
      BY <1>1, Publishing
    <3>5. QED
      BY <2>1, <3>1, <3>3, <3>4
  <2>2. CASE f \notin ToSet(Files(c))
    BY <2>2, ShownElsewhere
  <2>3. QED
    BY <2>1, <2>2
<1>3. /\ {d \in Clients : step'[d] = "abandoned"} = {d \in Clients : step[d] = "abandoned"} \cup {c}
      /\ {d \in Clients : step'[d] = "complete"} = {d \in Clients : step[d] = "complete"}
  BY <1>1
<1>4. QED
  BY <1>1, <1>2, <1>3 DEF Atomic!Abandon

\* Every other step leaves what the abstract specification sees.
LEMMA StepStutters ==
    ASSUME Separate, BatchInv, BatchInv', NEW c \in Clients, ClientStep(c), step'[c] \notin Past
    PROVE  /\ Shown' = Shown
           /\ {d \in Clients : step'[d] = "complete"} = {d \in Clients : step[d] = "complete"}
           /\ {d \in Clients : step'[d] = "abandoned"} = {d \in Clients : step[d] = "abandoned"}
<1>1. \A f \in BatchFiles : Shown'[f] = Shown[f]
  BY ShownKept, ShownElsewhere
<1>2. Shown' = [f \in BatchFiles |-> Shown'[f]] /\ Shown = [f \in BatchFiles |-> Shown[f]]
  BY DEF Shown
<1>3. step[c] \notin Past /\ \A d \in Clients \ {c} : step'[d] = step[d]
  BY StepOver
<1>4. QED
  BY <1>1, <1>2, <1>3 DEF Past

\* Every step of a client is a step of the abstract specification or leaves what it sees.
LEMMA StepAtomic ==
    ASSUME Separate, BatchInv, BatchInv', BatchNext
    PROVE  Atomic!AtomicNext \/ UNCHANGED <<Shown, {c \in Clients : ask[c].overwrite},
              {c \in Clients : step[c] = "complete"}, {c \in Clients : step[c] = "abandoned"}>>
<1>1. PICK c \in Clients : ClientStep(c)
  BY DEF BatchNext, ClientStep
<1>2. ask' = ask /\ BatchTypeOK /\ base[c] \in Bases
  BY <1>1, StepOthers, FilesType DEF BatchInv
<1>3. {d \in Clients : ask[d].overwrite}' = {d \in Clients : ask[d].overwrite}
  BY <1>2
<1>4. ToSet(Files(c)) \in {ToSet(TargetsOf[b]) : b \in Bases}
  BY <1>2 DEF Files
<1>5. CASE step'[c] = "complete"
  <2>1. Atomic!Exchange(c, ToSet(Files(c)))
    BY <1>1, <1>5, StepExchanges
  <2>2. \E p \in Clients, batch \in {ToSet(TargetsOf[b]) : b \in Bases} :
           Atomic!Exchange(p, batch) \/ Atomic!Abandon(p, batch)
    BY ONLY c \in Clients, <1>4, <2>1 DEF Atomic!Exchange, Atomic!Abandon
  <2>3. Atomic!AtomicNext
    BY ONLY <1>3, <2>2 DEF Atomic!AtomicNext
  <2>4. QED
    BY <2>3
<1>6. CASE step'[c] = "abandoned"
  <2>1. Atomic!Abandon(c, ToSet(Files(c)))
    BY <1>1, <1>6, StepAbandons
  <2>2. \E p \in Clients, batch \in {ToSet(TargetsOf[b]) : b \in Bases} :
           Atomic!Exchange(p, batch) \/ Atomic!Abandon(p, batch)
    BY ONLY c \in Clients, <1>4, <2>1 DEF Atomic!Exchange, Atomic!Abandon
  <2>3. Atomic!AtomicNext
    BY ONLY <1>3, <2>2 DEF Atomic!AtomicNext
  <2>4. QED
    BY <2>3
<1>7. CASE step'[c] \notin Past
  BY <1>1, <1>3, <1>7, StepStutters
<1>8. QED
  BY <1>5, <1>6, <1>7 DEF Past

\* Nothing changes for the abstract specification where nothing changes.
LEMMA StutterAtomic ==
    UNCHANGED batchVars => UNCHANGED <<Shown, {c \in Clients : ask[c].overwrite},
        {c \in Clients : step[c] = "complete"}, {c \in Clients : step[c] = "abandoned"}>>
BY DEF batchVars, Shown, Hiding

\* A batch is published whole or not at all: RemoteBatch implements AtomicBatch, where a reader
\* is shown the old file while its batch is being published or undone, or was killed there.
THEOREM PublicationIsAtomic == ASSUME Separate PROVE BatchSpec => PublishesAtomically
<1>1. BatchInit => Atomic!Start
  BY DEF BatchInit, Atomic!Start
<1>2. BatchInv /\ BatchInv' /\ [BatchNext]_batchVars =>
        [Atomic!AtomicNext]_<<Shown, {c \in Clients : ask[c].overwrite},
            {c \in Clients : step[c] = "complete"}, {c \in Clients : step[c] = "abandoned"}>>
  BY StepAtomic, StutterAtomic
<1>3. QED
  BY <1>1, <1>2, InitBatchInv, NextBatchInv, PTL DEF BatchSpec, PublishesAtomically, Atomic!AtomicSpec
-----------------------------------------------------------------------------
(* PackageCache *)

USE DEF Absent, Private

-----------------------------------------------------------------------------
(* The inductive invariant *)

Entries == [there : BOOLEAN, files : SUBSET Parts, bytes : SUBSET Packages]
Stagings == [files : SUBSET Members, bytes : SUBSET Packages]

\* A package is seen before its directory is named, and both while the file had that state.
Reading(r) ==
    /\ stage[r] = "start" => entryKey[r] = 0
    /\ stage[r] \notin {"start", "failed"} => seen[r] # 0 /\ entryKey[r] # 0
    /\ seen[r] <= package
    /\ entryKey[r] # 0 => seen[r] # 0 /\ seen[r] <= entryKey[r] /\ entryKey[r] <= package

\* A private directory holds bytes of the package from its name on, and once the package was
\* looked at again, of its name only.
Copying(r) ==
    /\ stage[r] \in {"start", "look"} => staging[r] = Private
    /\ stage[r] = "extract" => staging[r].bytes \subseteq entryKey[r]..package
    /\ staging[r].files # {} => staging[r].bytes # {}
    /\ stage[r] \in {"publish", "rename"} => staging[r].bytes = {entryKey[r]}

\* From the point on where the directory was found valid, its name is the package that was
\* seen: for the worker the bytes were compared, for the library the signatures.
Trusted(r) ==
    /\ stage[r] \in {"hash", "image", "verify", "done"} => entryKey[r] = seen[r]
    /\ stage[r] = "load" /\ kind[r] = "worker" => entryKey[r] = seen[r]
    /\ stage[r] = "hash" => kind[r] = "worker"
    /\ stage[r] \in {"load", "hash", "image", "verify", "done"} /\ kind[r] = "worker" =>
          seen[r] \notin Corrupt
    /\ stage[r] \in {"image", "verify"} /\ kind[r] = "native" => sealed[r] = seen[r]
    /\ stage[r] \in {"verify", "done"} => used[r] = {seen[r]}

\* A directory that is not there has no files.
AbsentIsEmpty == \A k \in Kinds, v \in Packages :
    ~entry[k][v].there => entry[k][v].files = {}

PackageInv ==
    /\ PackageTypeOK
    /\ \A r \in Runs : Reading(r) /\ Copying(r) /\ Trusted(r)
    /\ EntryNamesItsBytes /\ AbsentIsEmpty

-----------------------------------------------------------------------------
(* Types *)

\* The types hold at first, and so does the rest.
LEMMA InitInv == PackageInit => PackageInv
<1> SUFFICES ASSUME PackageInit PROVE PackageInv
  OBVIOUS
<1> USE PackageAssumption DEF PackageInit
<1>1. PackageTypeOK
  BY DEF PackageTypeOK, Packages, Stages, Entries, Kinds
<1>2. ASSUME NEW r \in Runs PROVE Reading(r) /\ Copying(r) /\ Trusted(r)
  BY DEF Reading, Copying, Trusted
<1>3. EntryNamesItsBytes /\ AbsentIsEmpty
  BY DEF EntryNamesItsBytes, AbsentIsEmpty
<1>4. QED
  BY <1>1, <1>2, <1>3 DEF PackageInv

\* The directory of a run that knows its name is an entry of the cache.
LEMMA MineType ==
    ASSUME PackageTypeOK, NEW r \in Runs, entryKey[r] # 0
    PROVE  /\ kind[r] \in Kinds /\ entryKey[r] \in Packages
           /\ Mine(r) = entry[kind[r]][entryKey[r]] /\ Mine(r) \in Entries
<1>1. kind[r] \in Kinds /\ entryKey[r] \in Packages
  BY PackageAssumption DEF PackageTypeOK, Packages
<1>2. QED
  BY <1>1 DEF PackageTypeOK, Mine, Entries

\* To put one entry into the cache changes that entry only.
LEMMA PutEntry ==
    ASSUME PackageTypeOK, NEW k \in Kinds, NEW v \in Packages, NEW e \in Entries,
           entry' = [entry EXCEPT ![k][v] = e]
    PROVE  /\ entry' \in [Kinds -> [Packages -> Entries]]
           /\ entry'[k][v] = e
           /\ \A j \in Kinds, w \in Packages : j # k \/ w # v => entry'[j][w] = entry[j][w]
<1>1. entry \in [Kinds -> [Packages -> Entries]]
  BY DEF PackageTypeOK, Entries
<1>2. [entry[k] EXCEPT ![v] = e] \in [Packages -> Entries]
  BY <1>1
<1>3. entry' = [entry EXCEPT ![k] = [entry[k] EXCEPT ![v] = e]]
  BY <1>1
<1>4. QED
  BY ONLY <1>1, <1>2, <1>3, k \in Kinds, v \in Packages, e \in Entries

\* A purge takes one file of an entry away, or the whole entry.
LEMMA PurgeEntry ==
    ASSUME PackageTypeOK, NEW k \in Kinds, NEW v \in Packages, Purge(k, v)
    PROVE  \/ entry' = [entry EXCEPT ![k][v] = Absent]
           \/ \E part \in entry[k][v].files :
                 entry' = [entry EXCEPT ![k][v] = [entry[k][v] EXCEPT !.files = @ \ {part}]]
BY DEF Purge, PackageTypeOK

\* What is in the cache and in the private directories, and what is not.
FilesOK ==
    /\ entry \in [Kinds -> [Packages -> Entries]]
    /\ staging \in [Runs -> Stagings]
    /\ used \in [Runs -> SUBSET Packages]

ControlOK ==
    /\ kind \in [Runs -> Kinds] /\ package \in Packages /\ purges \in 0..MaxPurge
    /\ stage \in [Runs -> Stages]
    /\ seen \in [Runs -> 0..MaxPackage] /\ sealed \in [Runs -> 0..MaxPackage]
    /\ entryKey \in [Runs -> 0..MaxPackage]
    /\ \A r \in Runs : stage[r] \notin {"start", "failed"} => entryKey[r] # 0

\* The types of the files and of the rest are stated apart.
LEMMA TypeParts == /\ PackageTypeOK <=> ControlOK /\ FilesOK
                   /\ PackageTypeOK' <=> ControlOK' /\ FilesOK'
BY DEF PackageTypeOK, ControlOK, FilesOK, Entries, Stagings

\* Every step keeps the types of what is not a file.
LEMMA NextControl == ControlOK /\ [PackageNext]_packageVars => ControlOK'
<1> SUFFICES ASSUME ControlOK, [PackageNext]_packageVars PROVE ControlOK'
  OBVIOUS
<1> USE PackageAssumption DEF ControlOK, Packages, Stages, Reach
<1>1. ASSUME NEW r \in Runs, Inspect(r) PROVE ControlOK'
  BY <1>1 DEF Inspect
<1>2. ASSUME NEW r \in Runs,
             \/ Look(r) \/ Extracted(r) \/ Destination(r) \/ Confirm(r) \/ VerifyPackage(r)
      PROVE  ControlOK'
  BY <1>2 DEF Look, Extracted, Destination, Confirm, VerifyPackage
<1>3. ASSUME NEW r \in Runs, NEW m \in Members, Extract(r, m) PROVE ControlOK'
  BY <1>3 DEF Extract
<1>4. ASSUME NEW r \in Runs, Rename(r) \/ Image(r) \/ GiveUpPackage(r) PROVE ControlOK'
  BY <1>4 DEF Rename, Image, GiveUpPackage
<1>5. ASSUME NEW r \in Runs, Load(r) \/ Hash(r) PROVE ControlOK'
  BY <1>5 DEF Load, Hash
<1>6. CASE ReplacePackage
  BY <1>6 DEF ReplacePackage
<1>7. ASSUME NEW k \in Kinds, NEW v \in Packages, Purge(k, v) PROVE ControlOK'
  BY <1>7 DEF Purge
<1>8. CASE UNCHANGED packageVars
  BY <1>8 DEF packageVars
<1>9. QED
  BY <1>1, <1>2, <1>3, <1>4, <1>5, <1>6, <1>7, <1>8 DEF PackageNext

\* A run that renames puts a whole directory where there was no file, or nothing at all.
LEMMA RenameEntry ==
    ASSUME PackageTypeOK, NEW r \in Runs, Rename(r)
    PROVE  /\ kind[r] \in Kinds /\ entryKey[r] \in Packages
           /\ \/ /\ Mine(r).files = {} /\ stage' = [stage EXCEPT ![r] = "confirm"]
                 /\ entry' = [entry EXCEPT ![kind[r]][entryKey[r]] =
                                [there |-> TRUE, files |-> Parts, bytes |-> staging[r].bytes]]
              \/ UNCHANGED entry
           /\ [there |-> TRUE, files |-> Parts, bytes |-> staging[r].bytes] \in Entries
<1>1. entryKey[r] # 0 /\ staging[r] \in Stagings
  BY DEF Rename, PackageTypeOK, Stagings
<1>2. [there |-> TRUE, files |-> Parts, bytes |-> staging[r].bytes] \in Entries
  BY <1>1 DEF Entries, Stagings
<1>3. QED
  BY <1>1, <1>2, MineType DEF Rename, Reach

\* Every step leaves files where there were files.
LEMMA NextFiles == PackageTypeOK /\ [PackageNext]_packageVars => FilesOK'
<1> SUFFICES ASSUME PackageTypeOK, [PackageNext]_packageVars PROVE FilesOK'
  OBVIOUS
<1>1. ControlOK /\ FilesOK
  BY TypeParts
<1>2. ASSUME NEW r \in Runs, NEW m \in Members, Extract(r, m) PROVE FilesOK'
  <2>1. staging[r] \in Stagings /\ package \in Packages
    BY <1>1 DEF FilesOK, ControlOK
  <2>2. [files |-> staging[r].files \cup {m}, bytes |-> staging[r].bytes \cup {package}]
            \in Stagings
    BY <2>1 DEF Stagings
  <2>3. QED
    BY <1>1, <1>2, <2>2 DEF Extract, FilesOK
<1>3. ASSUME NEW r \in Runs, Rename(r) PROVE FilesOK'
  <2>1. entry' \in [Kinds -> [Packages -> Entries]]
    <3>1. CASE UNCHANGED entry
      BY <1>1, <3>1 DEF FilesOK
    <3>2. CASE ~UNCHANGED entry
      <4>1. /\ kind[r] \in Kinds /\ entryKey[r] \in Packages
            /\ [there |-> TRUE, files |-> Parts, bytes |-> staging[r].bytes] \in Entries
            /\ entry' = [entry EXCEPT ![kind[r]][entryKey[r]] =
                           [there |-> TRUE, files |-> Parts, bytes |-> staging[r].bytes]]
        BY <1>3, <3>2, RenameEntry
      <4>2. QED
        BY <4>1, PutEntry
    <3>3. QED
      BY <3>1, <3>2
  <2>2. Private \in Stagings
    BY DEF Stagings
  <2>3. QED
    BY <1>1, <1>3, <2>1, <2>2 DEF Rename, FilesOK
<1>4. ASSUME NEW r \in Runs, Image(r) PROVE FilesOK'
  <2>1. Mine(r).bytes \in SUBSET Packages
    BY <1>4, MineType DEF Image, Entries, PackageTypeOK
  <2>2. QED
    BY <1>1, <1>4, <2>1 DEF Image, FilesOK
<1>5. ASSUME NEW r \in Runs, GiveUpPackage(r) PROVE FilesOK'
  <2>1. Private \in Stagings
    BY DEF Stagings
  <2>2. QED
    BY <1>1, <1>5, <2>1 DEF GiveUpPackage, FilesOK
<1>6. ASSUME NEW k \in Kinds, NEW v \in Packages, Purge(k, v) PROVE FilesOK'
  <2>1. entry[k][v] \in Entries
    BY <1>1 DEF FilesOK
  <2>2. CASE entry' = [entry EXCEPT ![k][v] = Absent]
    <3>1. Absent \in Entries
      BY DEF Entries
    <3>2. QED
      BY <1>1, <1>6, <2>2, <3>1, PutEntry DEF FilesOK, Purge
  <2>3. ASSUME NEW part \in entry[k][v].files,
               entry' = [entry EXCEPT ![k][v] = [entry[k][v] EXCEPT !.files = @ \ {part}]]
        PROVE  FilesOK'
    <3>1. [entry[k][v] EXCEPT !.files = @ \ {part}] \in Entries
      BY <2>1 DEF Entries
    <3>2. QED
      BY <1>1, <1>6, <2>3, <3>1, PutEntry DEF FilesOK, Purge
  <2>4. QED
    BY <1>6, <2>2, <2>3, PurgeEntry
<1>7. CASE UNCHANGED <<entry, staging, used>>
  BY <1>1, <1>7 DEF FilesOK
<1>8. QED
  BY <1>2, <1>3, <1>4, <1>5, <1>6, <1>7 DEF PackageNext, packageVars, Inspect, Look,
     Extracted, Destination, Confirm, Load, Hash, VerifyPackage, ReplacePackage

\* Every step keeps the types.
LEMMA NextType == PackageTypeOK /\ [PackageNext]_packageVars => PackageTypeOK'
BY TypeParts, NextControl, NextFiles

-----------------------------------------------------------------------------
(* The cache *)

\* The invariant in parts.
LEMMA InvParts ==
    ASSUME PackageInv
    PROVE  /\ ControlOK /\ FilesOK /\ PackageTypeOK
           /\ \A r \in Runs : Reading(r) /\ Copying(r) /\ Trusted(r)
           /\ EntryNamesItsBytes /\ AbsentIsEmpty
BY TypeParts DEF PackageInv

\* Whatever a step does to an entry: it leaves it, it puts it there whole where there was no
\* file, with the bytes of its name, or it takes files away.
EntryStep(k, v) ==
    \/ entry'[k][v] = entry[k][v]
    \/ entry[k][v].files = {} /\ entry'[k][v] = [there |-> TRUE, files |-> Parts, bytes |-> {v}]
    \/ entry'[k][v] = Absent
    \/ /\ entry[k][v].there /\ entry'[k][v].there
       /\ entry'[k][v].files \subseteq entry[k][v].files
       /\ entry'[k][v].bytes = entry[k][v].bytes

\* Every step of any run or of the system treats every entry so.
LEMMA NextEntry ==
    ASSUME PackageInv, [PackageNext]_packageVars, NEW k \in Kinds, NEW v \in Packages
    PROVE  EntryStep(k, v)
<1>1. ControlOK /\ FilesOK /\ PackageTypeOK
  BY InvParts
<1>2. ASSUME NEW r \in Runs, Rename(r) PROVE EntryStep(k, v)
  <2>1. staging[r].bytes = {entryKey[r]} /\ entryKey[r] # 0
    BY <1>1, <1>2, InvParts DEF Rename, Copying, ControlOK
  <2>2. CASE UNCHANGED entry
    BY <2>2 DEF EntryStep
  <2>3. CASE ~UNCHANGED entry
    <3>1. /\ entry' = [entry EXCEPT ![kind[r]][entryKey[r]] =
                         [there |-> TRUE, files |-> Parts, bytes |-> {entryKey[r]}]]
          /\ entry[kind[r]][entryKey[r]].files = {}
          /\ kind[r] \in Kinds /\ entryKey[r] \in Packages
          /\ [there |-> TRUE, files |-> Parts, bytes |-> {entryKey[r]}] \in Entries
      BY <1>1, <1>2, <2>1, <2>3, RenameEntry, MineType
    <3>2. CASE k = kind[r] /\ v = entryKey[r]
      BY <1>1, <3>1, <3>2, PutEntry DEF EntryStep
    <3>3. CASE k # kind[r] \/ v # entryKey[r]
      BY <1>1, <3>1, <3>3, PutEntry DEF EntryStep
    <3>4. QED
      BY <3>2, <3>3
  <2>4. QED
    BY <2>2, <2>3
<1>3. ASSUME NEW j \in Kinds, NEW w \in Packages, Purge(j, w) PROVE EntryStep(k, v)
  <2>1. entry[j][w] \in Entries /\ Absent \in Entries /\ entry[j][w].there
    BY <1>1, <1>3 DEF FilesOK, Entries, Purge
  <2>2. CASE entry' = [entry EXCEPT ![j][w] = Absent]
    BY <1>1, <2>1, <2>2, PutEntry DEF EntryStep
  <2>3. ASSUME NEW part \in entry[j][w].files,
               entry' = [entry EXCEPT ![j][w] = [entry[j][w] EXCEPT !.files = @ \ {part}]]
        PROVE  EntryStep(k, v)
    <3>1. /\ [entry[j][w] EXCEPT !.files = @ \ {part}] \in Entries
          /\ [entry[j][w] EXCEPT !.files = @ \ {part}].there
          /\ [entry[j][w] EXCEPT !.files = @ \ {part}].bytes = entry[j][w].bytes
          /\ [entry[j][w] EXCEPT !.files = @ \ {part}].files \subseteq entry[j][w].files
      BY <2>1 DEF Entries
    <3>2. CASE k = j /\ v = w
      BY <1>1, <2>1, <2>3, <3>1, <3>2, PutEntry DEF EntryStep
    <3>3. CASE k # j \/ v # w
      BY <1>1, <2>3, <3>1, <3>3, PutEntry DEF EntryStep
    <3>4. QED
      BY <3>2, <3>3
  <2>4. QED
    BY <1>1, <1>3, <2>2, <2>3, PurgeEntry
<1>4. CASE UNCHANGED entry
  BY <1>4 DEF EntryStep
<1>5. QED
  BY <1>2, <1>3, <1>4 DEF PackageNext, packageVars, Inspect, Look, Extract, Extracted,
     Destination, Confirm, Load, Hash, Image, VerifyPackage, GiveUpPackage, ReplacePackage

\* So entries keep the bytes of their names, and an absent one stays empty.
LEMMA NextEntries ==
    PackageInv /\ [PackageNext]_packageVars => EntryNamesItsBytes' /\ AbsentIsEmpty'
<1> SUFFICES ASSUME PackageInv, [PackageNext]_packageVars, NEW k \in Kinds, NEW v \in Packages
             PROVE  /\ entry'[k][v].there => entry'[k][v].bytes = {v}
                    /\ ~entry'[k][v].there => entry'[k][v].files = {}
  BY DEF EntryNamesItsBytes, AbsentIsEmpty
<1>1. EntryStep(k, v)
  BY NextEntry
<1>2. /\ entry[k][v].there => entry[k][v].bytes = {v}
      /\ ~entry[k][v].there => entry[k][v].files = {}
  BY InvParts DEF EntryNamesItsBytes, AbsentIsEmpty
<1>3. QED
  BY <1>1, <1>2 DEF EntryStep

-----------------------------------------------------------------------------
(* The runs *)

\* What is read stays in the order in which it is read.
LEMMA NextReading == PackageInv /\ [PackageNext]_packageVars => \A r \in Runs : Reading(r)'
<1> SUFFICES ASSUME PackageInv, [PackageNext]_packageVars, NEW q \in Runs PROVE Reading(q)'
  OBVIOUS
<1>0. ControlOK /\ Reading(q)
  BY InvParts
<1> USE <1>0, PackageAssumption DEF ControlOK, Packages, Reading, Reach
<1>1. ASSUME NEW r \in Runs, Inspect(r) PROVE Reading(q)'
  BY <1>1, InvParts DEF Inspect
<1>2. ASSUME NEW r \in Runs,
             \/ Look(r) \/ Extracted(r) \/ Destination(r) \/ Rename(r) \/ Confirm(r) \/ Load(r)
             \/ Hash(r) \/ Image(r) \/ VerifyPackage(r) \/ GiveUpPackage(r)
      PROVE  Reading(q)'
  BY <1>2 DEF Look, Extracted, Destination, Rename, Confirm, Load, Hash, Image, VerifyPackage,
     GiveUpPackage
<1>3. ASSUME NEW r \in Runs, NEW m \in Members, Extract(r, m) PROVE Reading(q)'
  BY <1>3 DEF Extract
<1>4. CASE ReplacePackage
  BY <1>4 DEF ReplacePackage
<1>5. ASSUME NEW k \in Kinds, NEW v \in Packages, Purge(k, v) PROVE Reading(q)'
  BY <1>5 DEF Purge
<1>6. CASE UNCHANGED packageVars
  BY <1>6 DEF packageVars
<1>7. QED
  BY <1>1, <1>2, <1>3, <1>4, <1>5, <1>6 DEF PackageNext

\* A private directory keeps to the package it is named after.
LEMMA NextCopying == PackageInv /\ [PackageNext]_packageVars => \A r \in Runs : Copying(r)'
<1> SUFFICES ASSUME PackageInv, [PackageNext]_packageVars, NEW q \in Runs PROVE Copying(q)'
  OBVIOUS
<1>0. /\ ControlOK /\ Copying(q) /\ Reading(q)
      /\ staging \in [Runs -> Stagings]
  BY InvParts DEF FilesOK
<1> USE <1>0 DEF ControlOK, Copying, Reach
<1>1. ASSUME NEW r \in Runs, Inspect(r) PROVE Copying(q)'
  BY <1>1 DEF Inspect
<1>2. ASSUME NEW r \in Runs, Look(r) PROVE Copying(q)'
  BY <1>2 DEF Look
<1>3. ASSUME NEW r \in Runs, NEW m \in Members, Extract(r, m) PROVE Copying(q)'
  <2>1. CASE q # r
    BY <1>3, <2>1 DEF Extract
  <2>2. CASE q = r
    <3>1. /\ staging'[q].bytes = staging[q].bytes \cup {package}
          /\ staging[q].bytes \subseteq entryKey[q]..package
          /\ entryKey[q] # 0 /\ entryKey[q] <= package /\ package \in Nat
          /\ stage[q] = "extract" /\ UNCHANGED <<stage, package, entryKey>>
      BY <1>3, <2>2, PackageAssumption DEF Extract, Reading, Packages
    <3>2. entryKey[q] \in Nat
      BY PackageAssumption
    <3>3. QED
      BY <3>1, <3>2
  <2>3. QED
    BY <2>1, <2>2
<1>4. ASSUME NEW r \in Runs, Extracted(r) PROVE Copying(q)'
  <2>1. CASE q # r
    BY <1>4, <2>1 DEF Extracted
  <2>2. CASE q = r
    <3>1. /\ staging[q].bytes \subseteq package..package /\ staging[q].bytes # {}
          /\ package = entryKey[q] /\ stage'[q] = "publish"
          /\ UNCHANGED <<staging, package, entryKey>> /\ package \in Nat
      BY <1>4, <2>2, PackageAssumption DEF Extracted, Packages
    <3>2. QED
      BY <3>1
  <2>3. QED
    BY <2>1, <2>2
<1>5. ASSUME NEW r \in Runs, Destination(r) PROVE Copying(q)'
  BY <1>5 DEF Destination
<1>6. ASSUME NEW r \in Runs, Rename(r) \/ GiveUpPackage(r) PROVE Copying(q)'
  <2>1. /\ stage'[r] \in {"confirm", "failed"} /\ staging'[r] = Private
        /\ q # r => stage'[q] = stage[q] /\ staging'[q] = staging[q]
        /\ UNCHANGED <<package, entryKey>>
    BY <1>6 DEF Rename, GiveUpPackage
  <2>2. CASE q = r
    BY <2>1, <2>2
  <2>3. CASE q # r
    BY <2>1, <2>3
  <2>4. QED
    BY <2>2, <2>3
<1>7. ASSUME NEW r \in Runs, Confirm(r) \/ Load(r) PROVE Copying(q)'
  BY <1>7 DEF Confirm, Load
<1>8. ASSUME NEW r \in Runs, Hash(r) \/ Image(r) \/ VerifyPackage(r) PROVE Copying(q)'
  BY <1>8 DEF Hash, Image, VerifyPackage
<1>9. CASE ReplacePackage
  <2>1. package' = package + 1 /\ package \in Nat /\ entryKey[q] \in Nat
    BY <1>9, PackageAssumption DEF ReplacePackage, Packages
  <2>2. QED
    BY <1>9, <2>1 DEF ReplacePackage
<1>10. ASSUME NEW k \in Kinds, NEW v \in Packages, Purge(k, v) PROVE Copying(q)'
  BY <1>10 DEF Purge
<1>11. CASE UNCHANGED packageVars
  BY <1>11 DEF packageVars
<1>12. QED
  BY <1>1, <1>2, <1>3, <1>4, <1>5, <1>6, <1>7, <1>8, <1>9, <1>10, <1>11 DEF PackageNext

\* A valid directory of the worker has the bytes of the package that it saw, so it is the one
\* with that name, and the package's digests are right.
LEMMA ValidTrusted ==
    ASSUME PackageInv, NEW r \in Runs, entryKey[r] # 0, kind[r] = "worker", Valid(r)
    PROVE  entryKey[r] = seen[r] /\ seen[r] \notin Corrupt
<1>1. kind[r] \in Kinds /\ entryKey[r] \in Packages /\ Mine(r) = entry[kind[r]][entryKey[r]]
  BY InvParts, MineType
<1>2. Mine(r).bytes = {entryKey[r]}
  BY <1>1, InvParts DEF Valid, EntryNamesItsBytes
<1>3. QED
  BY <1>2 DEF Valid, Matches

\* An image is made from files that are there, so from the bytes of the directory's name.
LEMMA ImageBytes ==
    ASSUME PackageInv, NEW r \in Runs, entryKey[r] # 0, Members \subseteq Mine(r).files
    PROVE  Mine(r).bytes = {entryKey[r]}
<1>1. kind[r] \in Kinds /\ entryKey[r] \in Packages /\ Mine(r) = entry[kind[r]][entryKey[r]]
  BY InvParts, MineType
<1>2. Mine(r).files # {}
  BY PackageAssumption
<1>3. QED
  BY <1>1, <1>2, InvParts DEF EntryNamesItsBytes, AbsentIsEmpty

\* What a run trusts stays so.
LEMMA NextTrusted == PackageInv /\ [PackageNext]_packageVars => \A r \in Runs : Trusted(r)'
<1> SUFFICES ASSUME PackageInv, [PackageNext]_packageVars, NEW q \in Runs PROVE Trusted(q)'
  OBVIOUS
<1>0. /\ ControlOK /\ Trusted(q) /\ Reading(q)
      /\ used \in [Runs -> SUBSET Packages]
  BY InvParts DEF FilesOK
<1> USE <1>0 DEF ControlOK, Trusted, Reach
<1>1. ASSUME NEW r \in Runs, Inspect(r) PROVE Trusted(q)'
  BY <1>1 DEF Inspect
<1>2. ASSUME NEW r \in Runs, Look(r) PROVE Trusted(q)'
  BY <1>2, ValidTrusted DEF Look
<1>3. ASSUME NEW r \in Runs, NEW m \in Members, Extract(r, m) PROVE Trusted(q)'
  BY <1>3 DEF Extract
<1>4. ASSUME NEW r \in Runs, Extracted(r) \/ GiveUpPackage(r) PROVE Trusted(q)'
  BY <1>4 DEF Extracted, GiveUpPackage
<1>5. ASSUME NEW r \in Runs, Destination(r) PROVE Trusted(q)'
  BY <1>5, ValidTrusted DEF Destination
<1>6. ASSUME NEW r \in Runs, Rename(r) PROVE Trusted(q)'
  BY <1>6 DEF Rename
<1>7. ASSUME NEW r \in Runs, Confirm(r) PROVE Trusted(q)'
  BY <1>7, ValidTrusted DEF Confirm
<1>8. ASSUME NEW r \in Runs, Load(r) PROVE Trusted(q)'
  <2>1. CASE q # r
    BY <1>8, <2>1 DEF Load
  <2>2. CASE q = r /\ kind[q] = "worker"
    BY <1>8, <2>2 DEF Load
  <2>3. CASE q = r /\ kind[q] = "native"
    <3>1. entryKey[q] = seen[q]
      BY <1>8, <2>3, PackageAssumption DEF Load, Reading, Packages
    <3>2. QED
      BY <1>8, <2>3, <3>1 DEF Load
  <2>4. QED
    BY <2>1, <2>2, <2>3 DEF Kinds
<1>9. ASSUME NEW r \in Runs, Hash(r) PROVE Trusted(q)'
  <2>1. kind[r] = "worker"
    BY <1>9, InvParts DEF Hash
  <2>2. QED
    BY <1>9, <2>1 DEF Hash
<1>10. ASSUME NEW r \in Runs, Image(r) PROVE Trusted(q)'
  <2>1. Mine(r).bytes = {entryKey[r]} /\ entryKey[r] = seen[r]
    BY <1>10, ImageBytes, InvParts DEF Image
  <2>2. QED
    BY <1>10, <2>1 DEF Image
<1>11. ASSUME NEW r \in Runs, VerifyPackage(r) PROVE Trusted(q)'
  BY <1>11 DEF VerifyPackage
<1>12. CASE ReplacePackage
  BY <1>12 DEF ReplacePackage
<1>13. ASSUME NEW k \in Kinds, NEW v \in Packages, Purge(k, v) PROVE Trusted(q)'
  BY <1>13 DEF Purge
<1>14. CASE UNCHANGED packageVars
  BY <1>14 DEF packageVars
<1>15. QED
  BY <1>1, <1>2, <1>3, <1>4, <1>5, <1>6, <1>7, <1>8, <1>9, <1>10, <1>11, <1>12, <1>13, <1>14
  DEF PackageNext

\* The invariant is inductive.
LEMMA NextInv == PackageInv /\ [PackageNext]_packageVars => PackageInv'
BY InvParts, NextType, NextEntries, NextReading, NextCopying, NextTrusted DEF PackageInv

-----------------------------------------------------------------------------
(* What the run checks *)

\* An image that is returned was made from the package of the request, and the worker's from
\* one whose digests are right.
LEMMA InvFollows ==
    PackageInv => PackageTypeOK /\ EntryNamesItsBytes /\ ImageFromOnePackage /\ WorkerVerifiesDigests
<1> SUFFICES ASSUME PackageInv
             PROVE  PackageTypeOK /\ EntryNamesItsBytes /\ ImageFromOnePackage
                    /\ WorkerVerifiesDigests
  OBVIOUS
<1>1. ASSUME NEW r \in Runs, stage[r] = "done"
      PROVE  used[r] = {seen[r]} /\ (kind[r] = "worker" => seen[r] \notin Corrupt)
  BY <1>1, InvParts DEF Trusted
<1>2. QED
  BY <1>1, InvParts DEF ImageFromOnePackage, WorkerVerifiesDigests

\* A directory is published whole, where there was no file, and then only loses files.
LEMMA StepPublishesWhole ==
    ASSUME PackageInv, [PackageNext]_packageVars, NEW k \in Kinds, NEW v \in Packages
    PROVE  \/ entry'[k][v].files \subseteq entry[k][v].files
           \/ entry[k][v].files = {} /\ entry'[k][v].files = Parts
<1>1. EntryStep(k, v)
  BY NextEntry
<1>2. QED
  BY <1>1 DEF EntryStep

\* The library's last look at the package finds the one whose bytes it used.
LEMMA StepReturnsPresent ==
    ASSUME PackageInv, PackageNext, NEW r \in Runs, kind[r] = "native", stage'[r] = "done",
           stage[r] # "done"
    PROVE  used[r] = {package}
<1>0. stage \in [Runs -> Stages]
  BY InvParts DEF ControlOK
<1>1. PICK q \in Runs : VerifyPackage(q)
  BY <1>0 DEF PackageNext, Inspect, Look, Extract, Extracted, Destination, Rename, Confirm,
     Load, Hash, Image, GiveUpPackage, ReplacePackage, Purge, Reach
<1>2. q = r
  BY <1>0, <1>1 DEF VerifyPackage, Reach
<1>3. QED
  BY <1>1, <1>2, InvParts DEF VerifyPackage, Trusted

\* Whatever processes share the cache, whatever is replaced, purged or killed between any two
\* steps: a directory of the cache is whole and of its package, and an image is of the package
\* that was asked for, with digests that are right or, from the library, while it is present.
THEOREM CacheKept == PackageSpec => PackageKept
<1>1. PackageInv /\ [PackageNext]_packageVars =>
        /\ [\A k \in Kinds, v \in Packages :
              \/ entry'[k][v].files \subseteq entry[k][v].files
              \/ entry[k][v].files = {} /\ entry'[k][v].files = Parts]_packageVars
        /\ [\A r \in Runs : kind[r] = "native" /\ stage'[r] = "done" =>
              stage[r] = "done" \/ used[r] = {package}]_packageVars
  BY StepPublishesWhole, StepReturnsPresent
<1>2. QED
  BY <1>1, InitInv, NextInv, InvFollows, PTL
  DEF PackageSpec, PackageKept, EntryPublishedWhole, NativeImageIsPresent

-----------------------------------------------------------------------------
(* ImagePublication *)

Operations == {"render", "model", "vae", "picture", "digest", "report", "stage", "manifest", "publish"}
Ways == {"native", "diffusers", "pair", "folder"}

\* In the first l steps of a program image i was rendered, and weight file w verified after that.
ChecksBefore(P, way, w, i, l) == \E j, k \in 1..l :
    j < k /\ P[j] = <<"render", IF way = "diffusers" THEN 1 ELSE i>> /\ P[k][1] = w

StepBefore(P, s, l) == \E k \in 1..l : P[k] = s

\* What every program has in common.
Shape(P, way, n) ==
    /\ P \in Seq(Operations \X (1..n))
    /\ \A k, l \in 1..Len(P) : P[k][1] = "render" /\ P[l] = P[k] => k = l
    /\ way = "diffusers" => \A k \in 1..Len(P) : P[k][1] = "render" => P[k][2] = 1
    /\ \A l \in 1..Len(P), i \in 1..n : P[l] = <<"report", i>> =>
          /\ StepBefore(P, <<"digest", i>>, l - 1)
          /\ \A w \in WeightFiles : ChecksBefore(P, way, w, i, l - 1)
    /\ \A l \in 1..Len(P), i \in 1..n : P[l] = <<"digest", i>> /\ way # "pair" =>
          StepBefore(P, <<"picture", i>>, l - 1)
    /\ \A l \in 1..Len(P) : P[l][1] = "publish" =>
          /\ way = "folder" /\ l = Len(P) /\ StepBefore(P, <<"manifest", 1>>, l - 1)
          /\ \A i \in 1..n : /\ StepBefore(P, <<"stage", i>>, l - 1)
                             /\ \A w \in WeightFiles : ChecksBefore(P, way, w, i, l - 1)
    /\ \A l \in 1..Len(P) : P[l][1] = "manifest" => P[l][2] = 1
    /\ way = "folder" => Len(P) > 0 /\ P[Len(P)][1] = "publish"

-----------------------------------------------------------------------------
(* The programs. *)

\* Each() has each operation for each image at its place, and nothing else.
LEMMA EachSteps ==
    ASSUME NEW n \in Nat, NEW L \in {1, 2, 3, 4, 6}, NEW ops \in [1..L -> Operations], Len(ops) = L
    PROVE  /\ Each(ops, n) \in Seq(Operations \X (1..n)) /\ Len(Each(ops, n)) = n * L
           /\ \A i \in 1..n, c \in 1..L :
                 (i - 1) * L + c \in 1..n * L /\ Each(ops, n)[(i - 1) * L + c] = <<ops[c], i>>
           /\ \A k \in 1..n * L : \E i \in 1..n, c \in 1..L :
                 k = (i - 1) * L + c /\ Each(ops, n)[k] = <<ops[c], i>>
<1>1. /\ \A i \in 1..n, c \in 1..L :
            /\ (i - 1) * L + c \in 1..n * L
            /\ ((i - 1) * L + c - 1) % L = c - 1 /\ ((i - 1) * L + c - 1) \div L = i - 1
      /\ \A k \in 1..n * L : /\ k = ((k - 1) \div L) * L + ((k - 1) % L) + 1
                              /\ ((k - 1) \div L) + 1 \in 1..n /\ ((k - 1) % L) + 1 \in 1..L
      /\ n * L \in Nat
  <2>1. CASE L = 1
    BY <2>1
  <2>2. CASE L = 2
    BY <2>2
  <2>3. CASE L = 3
    BY <2>3
  <2>4. CASE L = 4
    BY <2>4
  <2>5. CASE L = 6
    BY <2>5
  <2>6. QED
    BY <2>1, <2>2, <2>3, <2>4, <2>5
<1>2. \A k \in 1..n * L : /\ Each(ops, n)[k] = <<ops[((k - 1) % L) + 1], ((k - 1) \div L) + 1>>
                         /\ Each(ops, n)[k] \in Operations \X (1..n)
  BY <1>1 DEF Each
<1>3. Each(ops, n) \in Seq(Operations \X (1..n)) /\ Len(Each(ops, n)) = n * L
  BY <1>1, <1>2 DEF Each
<1>4. ASSUME NEW i \in 1..n, NEW c \in 1..L
      PROVE  (i - 1) * L + c \in 1..n * L /\ Each(ops, n)[(i - 1) * L + c] = <<ops[c], i>>
  <2>1. PICK k \in 1..n * L : k = (i - 1) * L + c
    BY <1>1
  <2>2. (k - 1) % L = c - 1 /\ (k - 1) \div L = i - 1
    BY <1>1, <2>1
  <2>3. ((k - 1) % L) + 1 = c /\ ((k - 1) \div L) + 1 = i
    BY <2>2
  <2>4. QED
    BY <1>2, <2>1, <2>3
<1>5. ASSUME NEW k \in 1..n * L
      PROVE  \E i \in 1..n, c \in 1..L : k = (i - 1) * L + c /\ Each(ops, n)[k] = <<ops[c], i>>
  <2>1. PICK i \in 1..n, c \in 1..L : i = ((k - 1) \div L) + 1 /\ c = ((k - 1) % L) + 1
    BY <1>1
  <2>2. k = (i - 1) * L + c
    BY <1>1, <2>1
  <2>3. QED
    BY <1>4, <2>2
<1>6. QED
  BY <1>3, <1>4, <1>5

\* Each operation once.
LEMMA OnceSteps ==
    ASSUME NEW L \in {1, 2, 3, 4, 6}, NEW ops \in [1..L -> Operations], Len(ops) = L
    PROVE  /\ Once(ops) \in Seq(Operations \X {1}) /\ Len(Once(ops)) = L
           /\ \A c \in 1..L : Once(ops)[c] = <<ops[c], 1>>
<1>1. PICK n \in Nat : n = 1
  OBVIOUS
<1>2. /\ Each(ops, n) \in Seq(Operations \X (1..n)) /\ Len(Each(ops, n)) = n * L
      /\ \A i \in 1..n, c \in 1..L :
            (i - 1) * L + c \in 1..n * L /\ Each(ops, n)[(i - 1) * L + c] = <<ops[c], i>>
  BY ONLY EachSteps, n \in Nat, L \in {1, 2, 3, 4, 6}, ops \in [1..L -> Operations], Len(ops) = L
<1>3. 1..n = {1} /\ n * L = L /\ \A c \in 1..L : (1 - 1) * L + c = c
  BY <1>1
<1>4. Once(ops) = Each(ops, n)
  BY <1>1 DEF Once
<1>5. \A c \in 1..L : Each(ops, n)[c] = <<ops[c], 1>>
  BY <1>2, <1>3
<1>6. QED
  BY <1>2, <1>3, <1>4, <1>5

\* The steps of two parts.
LEMMA TwoParts ==
    ASSUME NEW S, NEW s \in Seq(S), NEW t \in Seq(S)
    PROVE  /\ s \o t \in Seq(S) /\ Len(s \o t) = Len(s) + Len(t) /\ Len(s) \in Nat /\ Len(t) \in Nat
           /\ \A k \in 1..Len(s) : (s \o t)[k] = s[k]
           /\ \A c \in 1..Len(t) : (s \o t)[Len(s) + c] = t[c]
<1>1. /\ s \o t \in Seq(S) /\ Len(s \o t) = Len(s) + Len(t)
      /\ \A k \in 1..Len(s) + Len(t) : (s \o t)[k] = IF k <= Len(s) THEN s[k] ELSE t[k - Len(s)]
  BY ConcatProperties
<1>2. Len(s) \in Nat /\ Len(t) \in Nat
  OBVIOUS
<1>3. ASSUME NEW c \in 1..Len(t)
      PROVE  (s \o t)[Len(s) + c] = t[c]
  <2>1. PICK k \in 1..Len(s) + Len(t) : k = Len(s) + c
    BY <1>2
  <2>2. ~(k <= Len(s)) /\ k - Len(s) = c
    BY <1>2, <2>1
  <2>3. QED
    BY <1>1, <2>1, <2>2
<1>4. ASSUME NEW k \in 1..Len(s)
      PROVE  (s \o t)[k] = s[k]
  <2>1. k \in 1..Len(s) + Len(t) /\ k <= Len(s)
    BY <1>2
  <2>2. QED
    BY <1>1, <2>1
<1>5. QED
  BY <1>1, <1>2, <1>3, <1>4

\* Each image is verified after it is rendered and before it is published and reported.
LEMMA NativeShape ==
    ASSUME NEW n \in Nat \ {0}
    PROVE  Shape(Way("native", n), "native", n)
<1> DEFINE ops == <<"render", "model", "vae", "picture", "digest", "report">>
           P == Each(ops, n)
<1>1. Way("native", n) = P
  BY DEF Way
<1>2. ops \in [1..6 -> Operations] /\ Len(ops) = 6
  BY DEF Operations
<1>3. /\ P \in Seq(Operations \X (1..n)) /\ Len(P) = n * 6
      /\ \A i \in 1..n, c \in 1..6 : (i - 1) * 6 + c \in 1..n * 6 /\ P[(i - 1) * 6 + c] = <<ops[c], i>>
      /\ \A k \in 1..n * 6 : \E i \in 1..n, c \in 1..6 : k = (i - 1) * 6 + c /\ P[k] = <<ops[c], i>>
  BY <1>2, EachSteps
<1>4. /\ ops[1] = "render" /\ ops[2] = "model" /\ ops[3] = "vae" /\ ops[4] = "picture"
      /\ ops[5] = "digest" /\ ops[6] = "report"
  OBVIOUS
<1> HIDE DEF P, ops
<1>5. ASSUME NEW i \in 1..n
      PROVE  \E b \in 0..(n - 1) * 6 :
                /\ b = (i - 1) * 6 /\ b + 6 <= n * 6
                /\ P[b + 1] = <<"render", i>> /\ P[b + 2] = <<"model", i>> /\ P[b + 3] = <<"vae", i>>
                /\ P[b + 4] = <<"picture", i>> /\ P[b + 5] = <<"digest", i>>
  <2>1. PICK b \in 0..(n - 1) * 6 : b = (i - 1) * 6 /\ b + 6 <= n * 6
    OBVIOUS
  <2>2. \A c \in 1..6 : P[b + c] = <<ops[c], i>>
    BY <1>3, <2>1
  <2>3. QED
    BY <1>4, <2>1, <2>2
<1>6. ASSUME NEW k \in 1..Len(P)
      PROVE  /\ \A i \in 1..n : P[k] = <<"render", i>> => k = (i - 1) * 6 + 1
             /\ \A i \in 1..n : P[k] = <<"digest", i>> => k = (i - 1) * 6 + 5
             /\ \A i \in 1..n : P[k] = <<"report", i>> => k = (i - 1) * 6 + 6
             /\ P[k][1] \notin {"publish", "manifest"} /\ P[k][2] \in 1..n /\ P[k] = <<P[k][1], P[k][2]>>
  <2>1. PICK i \in 1..n, c \in 1..6 : k = (i - 1) * 6 + c /\ P[k] = <<ops[c], i>>
    BY <1>3
  <2>2. QED
    BY <1>4, <2>1
<1>7. ASSUME NEW k \in 1..Len(P), NEW l \in 1..Len(P), P[k][1] = "render", P[l] = P[k]
      PROVE  k = l
  BY <1>6, <1>7
<1>8. ASSUME NEW l \in 1..Len(P), NEW i \in 1..n, P[l] = <<"report", i>>
      PROVE  /\ StepBefore(P, <<"digest", i>>, l - 1)
             /\ \A w \in WeightFiles : ChecksBefore(P, "native", w, i, l - 1)
  <2>1. PICK b \in 0..(n - 1) * 6 :
                /\ b = (i - 1) * 6 /\ b + 6 <= n * 6
                /\ P[b + 1] = <<"render", i>> /\ P[b + 2] = <<"model", i>> /\ P[b + 3] = <<"vae", i>>
                /\ P[b + 4] = <<"picture", i>> /\ P[b + 5] = <<"digest", i>>
    BY <1>5
  <2>2. l = b + 6
    BY <1>6, <1>8, <2>1
  <2>3. /\ b + 1 \in 1..l - 1 /\ b + 2 \in 1..l - 1 /\ b + 3 \in 1..l - 1 /\ b + 5 \in 1..l - 1
        /\ b + 1 < b + 2 /\ b + 1 < b + 3
    BY <2>2
  <2>4. QED
    BY <2>1, <2>3 DEF StepBefore, ChecksBefore, WeightFiles
<1>9. ASSUME NEW l \in 1..Len(P), NEW i \in 1..n, P[l] = <<"digest", i>>
      PROVE  StepBefore(P, <<"picture", i>>, l - 1)
  <2>1. PICK b \in 0..(n - 1) * 6 : b = (i - 1) * 6 /\ P[b + 4] = <<"picture", i>>
    BY <1>5
  <2>2. b + 4 \in 1..l - 1
    BY <1>6, <1>9, <2>1
  <2>3. QED
    BY <2>1, <2>2 DEF StepBefore
<1>10. QED
  BY <1>1, <1>3, <1>6, <1>7, <1>8, <1>9 DEF Shape

\* A pair is of one image, and its report is linked first.
LEMMA PairShape ==
    /\ Shape(Way("pair", 1), "pair", 1) /\ Len(Way("pair", 1)) = 6
    /\ \A k \in 1..6 : Way("pair", 1)[k] = <<PairWay[k], 1>>
<1> DEFINE P == Way("pair", 1)
<1>1. PairWay \in [1..6 -> Operations] /\ Len(PairWay) = 6
  BY DEF PairWay, Operations
<1>2. P = Once(PairWay)
  BY DEF Way
<1>3. /\ P \in Seq(Operations \X (1..1)) /\ Len(P) = 6
      /\ \A k \in 1..6 : P[k] = <<PairWay[k], 1>>
  <2>1. 1..1 = {1}
    OBVIOUS
  <2>2. QED
    BY ONLY <1>1, <1>2, <2>1, OnceSteps
<1> HIDE DEF P
<1>4. /\ P[1] = <<"render", 1>> /\ P[2] = <<"model", 1>> /\ P[3] = <<"vae", 1>>
      /\ P[4] = <<"digest", 1>> /\ P[5] = <<"report", 1>> /\ P[6] = <<"picture", 1>>
  BY <1>3 DEF PairWay
<1>5. \A l \in 1..6 : l = 1 \/ l = 2 \/ l = 3 \/ l = 4 \/ l = 5 \/ l = 6
  OBVIOUS
<1>6. \A l \in 1..6 : /\ P[l][1] = "render" => l = 1
                      /\ P[l][1] = "report" => l = 5
                      /\ P[l][1] \notin {"publish", "manifest"}
  BY <1>4, <1>5
<1>7. ASSUME NEW l \in 1..6, NEW i \in 1..1, P[l] = <<"report", i>>
      PROVE  /\ StepBefore(P, <<"digest", i>>, l - 1)
             /\ \A w \in WeightFiles : ChecksBefore(P, "pair", w, i, l - 1)
  <2>1. l = 5 /\ i = 1 /\ l - 1 = 4
    BY <1>6, <1>7
  <2>2. 1 \in 1..4 /\ 2 \in 1..4 /\ 3 \in 1..4 /\ 4 \in 1..4 /\ 1 < 2 /\ 1 < 3
    OBVIOUS
  <2>3. QED
    BY <1>4, <2>1, <2>2 DEF StepBefore, ChecksBefore, WeightFiles
<1>8. Shape(P, "pair", 1)
  BY <1>3, <1>6, <1>7 DEF Shape
<1>9. QED
  BY <1>3, <1>8 DEF P

\* A directory is published last, when all its images have been staged and their weights verified.
LEMMA FolderShape ==
    ASSUME NEW n \in Nat \ {0}
    PROVE  Shape(Way("folder", n), "folder", n)
<1> DEFINE each == <<"render", "model", "stage">>
           last == <<"model", "vae", "manifest", "publish">>
           A == Each(each, n)
           B == Once(last)
           P == A \o B
           m == n * 3
<1>1. Way("folder", n) = P
  BY DEF Way, FolderWay
<1>2. /\ each \in [1..3 -> Operations] /\ Len(each) = 3
      /\ last \in [1..4 -> Operations] /\ Len(last) = 4
  BY DEF Operations
<1>3. /\ A \in Seq(Operations \X (1..n)) /\ Len(A) = n * 3
      /\ \A i \in 1..n, c \in 1..3 : (i - 1) * 3 + c \in 1..n * 3 /\ A[(i - 1) * 3 + c] = <<each[c], i>>
      /\ \A k \in 1..n * 3 : \E i \in 1..n, c \in 1..3 : k = (i - 1) * 3 + c /\ A[k] = <<each[c], i>>
  BY <1>2, EachSteps
<1>4. /\ B \in Seq(Operations \X {1}) /\ Len(B) = 4
      /\ \A c \in 1..4 : B[c] = <<last[c], 1>>
  BY <1>2, OnceSteps
<1>5. /\ each[1] = "render" /\ each[2] = "model" /\ each[3] = "stage"
      /\ last[1] = "model" /\ last[2] = "vae" /\ last[3] = "manifest" /\ last[4] = "publish"
  OBVIOUS
<1> HIDE DEF A, B, each, last
<1>6. /\ P \in Seq(Operations \X (1..n)) /\ Len(P) = m + 4 /\ m \in Nat /\ m >= 3
      /\ \A k \in 1..m : P[k] = A[k]
      /\ \A c \in 1..4 : P[m + c] = B[c]
  <2>1. B \in Seq(Operations \X (1..n)) /\ m \in Nat /\ m >= 3
    BY <1>4
  <2>2. /\ P \in Seq(Operations \X (1..n)) /\ Len(P) = Len(A) + Len(B)
        /\ \A k \in 1..Len(A) : P[k] = A[k]
        /\ \A c \in 1..Len(B) : P[Len(A) + c] = B[c]
    <3>1. PICK S : S = Operations \X (1..n)
      OBVIOUS
    <3>2. A \in Seq(S) /\ B \in Seq(S)
      BY <1>3, <2>1, <3>1
    <3>3. QED
      BY ONLY <3>1, <3>2, TwoParts
  <2>3. QED
    BY <1>3, <1>4, <2>1, <2>2
<1> HIDE DEF P
<1>7. ASSUME NEW i \in 1..n
      PROVE  \E b \in 0..m - 3 : b = (i - 1) * 3 /\ P[b + 1] = <<"render", i>> /\ P[b + 3] = <<"stage", i>>
  <2>1. PICK b \in 0..m - 3 : b = (i - 1) * 3
    OBVIOUS
  <2>2. \A c \in 1..3 : P[b + c] = <<each[c], i>>
    BY <1>3, <1>6, <2>1
  <2>3. QED
    BY <1>5, <2>1, <2>2
<1>8. /\ P[m + 1] = B[1] /\ P[m + 2] = B[2] /\ P[m + 3] = B[3] /\ P[m + 4] = B[4]
      /\ P[m + 1] = <<"model", 1>> /\ P[m + 2] = <<"vae", 1>> /\ P[m + 3] = <<"manifest", 1>>
      /\ P[m + 4] = <<"publish", 1>>
  BY <1>4, <1>5, <1>6
<1>9. ASSUME NEW k \in 1..Len(P)
      PROVE  /\ \A i \in 1..n : P[k] = <<"render", i>> => k = (i - 1) * 3 + 1
             /\ P[k][1] = "publish" => k = m + 4
             /\ P[k][1] = "manifest" => P[k][2] = 1
             /\ P[k][1] \notin {"report", "digest"} /\ P[k][2] \in 1..n /\ P[k] = <<P[k][1], P[k][2]>>
  <2>1. CASE k \in 1..m
    <3>1. PICK i \in 1..n, c \in 1..3 : k = (i - 1) * 3 + c /\ A[k] = <<each[c], i>>
      BY <1>3, <2>1
    <3>2. P[k] = <<each[c], i>>
      BY <1>6, <2>1, <3>1
    <3>3. CASE c = 1
      <4>1. k = (i - 1) * 3 + 1 /\ P[k] = <<"render", i>>
        BY <1>5, <3>1, <3>2, <3>3
      <4>2. QED
        BY <4>1
    <3>4. CASE c # 1
      <4>1. P[k] = <<"model", i>> \/ P[k] = <<"stage", i>>
        BY <1>5, <3>2, <3>4
      <4>2. QED
        BY <4>1
    <3>5. QED
      BY <3>3, <3>4
  <2>2. CASE k \notin 1..m
    <3>1. k = m + 1 \/ k = m + 2 \/ k = m + 3 \/ k = m + 4
      <4>1. PICK l \in Nat : l = m /\ Len(P) = l + 4
        BY <1>6
      <4>2. k \in 1..l + 4 /\ k \notin 1..l
        BY <2>2, <4>1
      <4>3. k = l + 1 \/ k = l + 2 \/ k = l + 3 \/ k = l + 4
        BY ONLY <4>1, <4>2
      <4>4. QED
        BY <4>1, <4>3
    <3>2. QED
      BY <1>8, <3>1
  <2>3. QED
    BY <2>1, <2>2
<1> HIDE DEF m
<1>10. ASSUME NEW k \in 1..Len(P), NEW l \in 1..Len(P), P[k][1] = "render", P[l] = P[k]
       PROVE  k = l
  BY <1>9, <1>10
<1>11. ASSUME NEW i \in 1..n
       PROVE  /\ StepBefore(P, <<"stage", i>>, m + 3)
              /\ \A w \in WeightFiles : ChecksBefore(P, "folder", w, i, m + 3)
  <2>1. PICK b \in 0..m - 3 : P[b + 1] = <<"render", i>> /\ P[b + 3] = <<"stage", i>>
    BY <1>7
  <2>2. /\ b + 1 \in 1..m + 3 /\ b + 3 \in 1..m + 3 /\ m + 1 \in 1..m + 3 /\ m + 2 \in 1..m + 3
        /\ b + 1 < m + 1 /\ b + 1 < m + 2
    BY <1>6
  <2>3. QED
    BY <1>8, <2>1, <2>2 DEF StepBefore, ChecksBefore, WeightFiles
<1>12. ASSUME NEW l \in 1..Len(P), P[l][1] = "publish"
       PROVE  l = Len(P) /\ l - 1 = m + 3 /\ StepBefore(P, <<"manifest", 1>>, l - 1)
  <2>1. l = Len(P) /\ l - 1 = m + 3 /\ m + 3 \in 1..l - 1
    BY <1>6, <1>9, <1>12
  <2>2. QED
    BY <1>8, <2>1 DEF StepBefore
<1>13. P \in Seq(Operations \X (1..n)) /\ \A k, l \in 1..Len(P) : P[k][1] = "render" /\ P[l] = P[k] => k = l
  BY <1>6, <1>10
<1>14. \A l \in 1..Len(P), i \in 1..n : P[l] # <<"report", i>> /\ P[l] # <<"digest", i>>
  BY <1>9
<1>15. \A l \in 1..Len(P) : P[l][1] = "publish" =>
          /\ l = Len(P) /\ StepBefore(P, <<"manifest", 1>>, l - 1)
          /\ \A i \in 1..n : /\ StepBefore(P, <<"stage", i>>, l - 1)
                             /\ \A w \in WeightFiles : ChecksBefore(P, "folder", w, i, l - 1)
  BY <1>11, <1>12
<1>16. Len(P) > 0 /\ P[Len(P)][1] = "publish"
  BY <1>6, <1>8
<1>17. QED
  BY <1>1, <1>9, <1>13, <1>14, <1>15, <1>16 DEF Shape

\* All images are rendered at once, published, verified again and then reported.
LEMMA DiffusersShape ==
    ASSUME NEW n \in Nat \ {0}
    PROVE  Shape(Way("diffusers", n), "diffusers", n)
<1> DEFINE first == <<"render", "model">>
           each  == <<"picture", "digest">>
           A == Once(first)
           B == Each(each, n)
           C == Once(<<"vae">>)
           R == Each(<<"report">>, n)
           P == A \o B \o C \o R
           m == n * 2
<1>1. Way("diffusers", n) = P
  BY DEF Way
<1>2. PICK S : S = Operations \X (1..n)
  OBVIOUS
<1>3. A \in Seq(S) /\ Len(A) = 2 /\ A[1] = <<"render", 1>> /\ A[2] = <<"model", 1>>
  <2>1. first \in [1..2 -> Operations] /\ Len(first) = 2 /\ first[1] = "render" /\ first[2] = "model"
    BY DEF Operations
  <2> HIDE DEF first
  <2>2. A \in Seq(Operations \X {1}) /\ Len(A) = 2 /\ \A c \in 1..2 : A[c] = <<first[c], 1>>
    BY <2>1, OnceSteps
  <2> HIDE DEF A
  <2>3. A \in Seq(S)
    BY <1>2, <2>2
  <2>4. QED
    BY <2>1, <2>2, <2>3
<1>4. /\ B \in Seq(S) /\ Len(B) = m
      /\ \A i \in 1..n, c \in 1..2 : (i - 1) * 2 + c \in 1..m /\ B[(i - 1) * 2 + c] = <<each[c], i>>
      /\ \A k \in 1..m : \E i \in 1..n, c \in 1..2 : k = (i - 1) * 2 + c /\ B[k] = <<each[c], i>>
  <2>1. each \in [1..2 -> Operations] /\ Len(each) = 2
    BY DEF Operations
  <2> HIDE DEF each
  <2>2. QED
    BY <1>2, <2>1, EachSteps
<1>5. C \in Seq(S) /\ Len(C) = 1 /\ C[1] = <<"vae", 1>>
  <2>1. /\ <<"vae">> \in [1..1 -> Operations] /\ Len(<<"vae">>) = 1 /\ <<"vae">>[1] = "vae"
    BY DEF Operations
  <2>2. PICK ops \in [1..1 -> Operations] : ops = <<"vae">> /\ Len(ops) = 1 /\ ops[1] = "vae"
    BY <2>1
  <2>3. Once(ops) \in Seq(Operations \X {1}) /\ Len(Once(ops)) = 1 /\ \A c \in 1..1 : Once(ops)[c] = <<ops[c], 1>>
    BY <2>2, OnceSteps
  <2>4. C = Once(ops)
    BY <2>2
  <2> HIDE DEF C
  <2>5. C \in Seq(S)
    BY <1>2, <2>3, <2>4
  <2>6. QED
    BY <2>2, <2>3, <2>4, <2>5
<1>6. R \in Seq(S) /\ Len(R) = n /\ \A i \in 1..n : R[i] = <<"report", i>>
  <2>1. /\ <<"report">> \in [1..1 -> Operations] /\ Len(<<"report">>) = 1 /\ <<"report">>[1] = "report"
    BY DEF Operations
  <2>2. PICK ops \in [1..1 -> Operations] : ops = <<"report">> /\ Len(ops) = 1 /\ ops[1] = "report"
    BY <2>1
  <2>3. /\ Each(ops, n) \in Seq(Operations \X (1..n)) /\ Len(Each(ops, n)) = n * 1
        /\ \A i \in 1..n, c \in 1..1 : (i - 1) * 1 + c \in 1..n * 1 /\ Each(ops, n)[(i - 1) * 1 + c] = <<ops[c], i>>
    BY <2>2, EachSteps
  <2>4. R = Each(ops, n)
    BY <2>2
  <2> HIDE DEF R
  <2>5. ASSUME NEW i \in 1..n PROVE R[i] = <<"report", i>>
    <3>1. (i - 1) * 1 + 1 = i
      OBVIOUS
    <3>2. R[(i - 1) * 1 + 1] = <<ops[1], i>>
      BY <2>3, <2>4
    <3>3. QED
      BY <2>2, <3>1, <3>2
  <2>6. QED
    BY <1>2, <2>3, <2>4, <2>5
<1>7. each[1] = "picture" /\ each[2] = "digest"
  OBVIOUS
<1> HIDE DEF A, B, C, R, each
<1>8. /\ P \in Seq(S) /\ Len(P) = m + 3 + n /\ m \in Nat /\ m >= 2
      /\ P[1] = <<"render", 1>> /\ P[2] = <<"model", 1>> /\ P[m + 3] = <<"vae", 1>>
      /\ \A k \in 1..m : P[2 + k] = B[k]
      /\ \A i \in 1..n : P[m + 3 + i] = <<"report", i>>
  <2> DEFINE X == A \o B
             Y == X \o C
  <2>1. A \in Seq(S) /\ B \in Seq(S) /\ C \in Seq(S) /\ R \in Seq(S)
    BY <1>3, <1>4, <1>5, <1>6
  <2>2. /\ X \in Seq(S) /\ Len(X) = Len(A) + Len(B)
        /\ \A k \in 1..Len(A) : X[k] = A[k]
        /\ \A c \in 1..Len(B) : X[Len(A) + c] = B[c]
    BY ONLY <2>1, TwoParts
  <2> HIDE DEF X
  <2>3. /\ Y \in Seq(S) /\ Len(Y) = Len(X) + Len(C)
        /\ \A k \in 1..Len(X) : Y[k] = X[k]
        /\ \A c \in 1..Len(C) : Y[Len(X) + c] = C[c]
    <3>1. X \in Seq(S)
      BY <2>2
    <3>2. QED
      BY ONLY <2>1, <3>1, TwoParts
  <2> HIDE DEF Y
  <2>4. /\ Y \o R \in Seq(S) /\ Len(Y \o R) = Len(Y) + Len(R)
        /\ \A k \in 1..Len(Y) : (Y \o R)[k] = Y[k]
        /\ \A c \in 1..Len(R) : (Y \o R)[Len(Y) + c] = R[c]
    <3>1. Y \in Seq(S)
      BY <2>3
    <3>2. QED
      BY ONLY <2>1, <3>1, TwoParts
  <2>5. P = Y \o R
    BY DEF X, Y
  <2> HIDE DEF P
  <2>6. m \in Nat /\ m >= 2 /\ Len(X) = m + 2 /\ Len(Y) = m + 3
    BY <1>3, <1>4, <1>5, <2>2, <2>3
  <2>7. P \in Seq(S) /\ Len(P) = m + 3 + n
    BY <1>6, <2>4, <2>5, <2>6
  <2>8. P[1] = <<"render", 1>> /\ P[2] = <<"model", 1>>
    BY <1>3, <2>2, <2>3, <2>4, <2>5, <2>6
  <2>9. P[m + 3] = <<"vae", 1>>
    BY <1>5, <2>3, <2>4, <2>5, <2>6
  <2>10. ASSUME NEW k \in 1..m PROVE P[2 + k] = B[k]
    <3>1. 2 + k \in 1..m + 2 /\ 2 + k \in 1..m + 3
      BY <2>6
    <3>2. X[2 + k] = B[k]
      BY <1>3, <1>4, <2>2
    <3>3. QED
      BY <2>3, <2>4, <2>5, <2>6, <3>1, <3>2
  <2>11. \A i \in 1..n : P[m + 3 + i] = <<"report", i>>
    BY <1>6, <2>4, <2>5, <2>6
  <2>12. QED
    BY <2>6, <2>7, <2>8, <2>9, <2>10, <2>11
<1> HIDE DEF P
<1>9. ASSUME NEW i \in 1..n
      PROVE  \E b \in 2..m : b = 2 + (i - 1) * 2 /\ P[b + 1] = <<"picture", i>> /\ P[b + 2] = <<"digest", i>>
  <2>1. PICK b \in 2..m : b = 2 + (i - 1) * 2
    OBVIOUS
  <2>2. \A c \in 1..2 : P[b + c] = <<each[c], i>>
    <3>1. ASSUME NEW c \in 1..2 PROVE P[b + c] = <<each[c], i>>
      <4>1. PICK k \in 1..m : k = (i - 1) * 2 + c /\ B[k] = <<each[c], i>>
        BY <1>4
      <4>2. b + c = 2 + k
        BY <2>1, <4>1
      <4>3. QED
        BY <1>8, <4>1, <4>2
    <3>2. QED
      BY <3>1
  <2>3. QED
    BY <1>7, <2>1, <2>2
<1>10. ASSUME NEW k \in 1..Len(P)
       PROVE  /\ P[k][1] = "render" => k = 1
              /\ \A i \in 1..n : P[k] = <<"digest", i>> => k = 2 + (i - 1) * 2 + 2
              /\ \A i \in 1..n : P[k] = <<"report", i>> => k = m + 3 + i
              /\ P[k][1] \notin {"publish", "manifest"}
  <2>1. CASE k = 1 \/ k = 2 \/ k = m + 3
    <3>1. k = 1 => P[k] = <<"render", 1>>
      BY <1>8
    <3>2. k # 1 => P[k] \in {<<"model", 1>>, <<"vae", 1>>}
      BY <1>8, <2>1
    <3>3. QED
      BY <3>1, <3>2
  <2>2. CASE k \in 3..m + 2
    <3>1. PICK h \in 1..m : k = 2 + h
      <4>1. m \in Nat /\ k \in Nat
        BY <1>8
      <4>2. k - 2 \in 1..m /\ k = 2 + (k - 2)
        BY <2>2, <4>1
      <4>3. QED
        BY <4>2
    <3>2. PICK i \in 1..n, c \in 1..2 : h = (i - 1) * 2 + c /\ B[h] = <<each[c], i>>
      BY <1>4
    <3>3. P[k] = <<each[c], i>> /\ k = 2 + (i - 1) * 2 + c
      BY <1>8, <3>1, <3>2
    <3>4. QED
      BY <1>7, <3>3
  <2>3. CASE k \in m + 4 .. m + 3 + n
    <3>1. PICK i \in 1..n : k = m + 3 + i
      BY <1>8, <2>3
    <3>2. P[k] = <<"report", i>>
      BY <1>8, <3>1
    <3>3. QED
      BY <3>1, <3>2
  <2>4. QED
    BY <1>8, <2>1, <2>2, <2>3
<1>11. ASSUME NEW l \in 1..Len(P), NEW i \in 1..n, P[l] = <<"report", i>>
       PROVE  /\ StepBefore(P, <<"digest", i>>, l - 1)
              /\ \A w \in WeightFiles : ChecksBefore(P, "diffusers", w, i, l - 1)
  <2>1. PICK b \in 2..m : P[b + 2] = <<"digest", i>>
    BY <1>9
  <2>2. l = m + 3 + i
    BY <1>10, <1>11
  <2>3. /\ b + 2 \in 1..l - 1 /\ 1 \in 1..l - 1 /\ 2 \in 1..l - 1 /\ m + 3 \in 1..l - 1
        /\ 1 < 2 /\ 1 < m + 3
    BY <1>8, <2>2
  <2>4. StepBefore(P, <<"digest", i>>, l - 1)
    BY <2>1, <2>3 DEF StepBefore
  <2>5. P[1] = <<"render", 1>> /\ P[2][1] = "model" /\ P[m + 3][1] = "vae"
    BY <1>8
  <2> HIDE DEF m
  <2>6. ASSUME NEW w \in WeightFiles PROVE ChecksBefore(P, "diffusers", w, i, l - 1)
    BY <2>3, <2>5 DEF ChecksBefore, WeightFiles
  <2>7. QED
    BY <2>4, <2>6
<1>12. ASSUME NEW l \in 1..Len(P), NEW i \in 1..n, P[l] = <<"digest", i>>
       PROVE  StepBefore(P, <<"picture", i>>, l - 1)
  <2>1. PICK b \in 2..m : b = 2 + (i - 1) * 2 /\ P[b + 1] = <<"picture", i>>
    BY <1>9
  <2>2. l = 2 + (i - 1) * 2 + 2
    BY <1>10, <1>12
  <2>3. b + 1 \in 1..l - 1
    BY <2>1, <2>2
  <2>4. QED
    BY <2>1, <2>3 DEF StepBefore
<1>13. /\ \A k, l \in 1..Len(P) : P[k][1] = "render" /\ P[l] = P[k] => k = l
       /\ \A k \in 1..Len(P) : P[k][1] = "render" => P[k][2] = 1
  <2>1. \A k \in 1..Len(P) : P[k][1] = "render" => k = 1
    BY <1>10
  <2>2. P[1][2] = 1
    BY <1>8
  <2>3. QED
    BY <2>1, <2>2
<1>14. QED
  BY <1>1, <1>2, <1>8, <1>10, <1>11, <1>12, <1>13 DEF Shape

\* Every program has this shape.
LEMMA ProgramShape ==
    ASSUME NEW m \in Makers, job \in [Makers -> ImageJobs]
    PROVE  /\ Shape(Program(m), job[m].way, Len(job[m].names)) /\ Len(job[m].names) \in Nat \ {0}
           /\ job[m].way = "pair" => /\ Len(job[m].names) = 1 /\ ~job[m].overwrite /\ Len(Program(m)) = 6
                                     /\ \A k \in 1..6 : Program(m)[k] = <<PairWay[k], 1>>
<1>1. /\ job[m].way \in Ways /\ Len(job[m].names) \in Nat \ {0}
      /\ job[m].way = "pair" => Len(job[m].names) = 1 /\ ~job[m].overwrite
  BY ImageAssumption DEF Ways
<1>2. CASE job[m].way = "native"
  BY <1>1, <1>2, NativeShape DEF Program
<1>3. CASE job[m].way = "diffusers"
  BY <1>1, <1>3, DiffusersShape DEF Program
<1>4. CASE job[m].way = "folder"
  BY <1>1, <1>4, FolderShape DEF Program
<1>5. CASE job[m].way = "pair"
  BY <1>1, <1>5, PairShape DEF Program
<1>6. QED
  BY <1>1, <1>2, <1>3, <1>4, <1>5 DEF Ways

-----------------------------------------------------------------------------
(* The inductive invariant *)

ImagesOf(m)      == 1..Len(job[m].names)
Did(m, op, i)    == StepBefore(Program(m), <<op, i>>, at[m])
Checked(m, w, i) == ChecksBefore(Program(m), job[m].way, w, i, at[m])

\* Who may have put what a run without --overwrite finds at its names.
Entitled(m) == {m} \cup {q \in Makers : job[q].overwrite}

ImageTypes ==
    /\ ImageTypeOK /\ private \in [Makers -> SUBSET Nat] /\ at \in [Makers -> Nat]
    /\ folder \in [by : Owners, holds : SUBSET Nat]

\* The weights a run was resolved with are past or present ones, and it has done nothing before.
ResolvedOK(m) ==
    /\ \A w \in WeightFiles : resolved[m][w] <= weights[w]
    /\ fate[m] = "resolve" => at[m] = 0

\* An image that was made with other weights has one that was not verified since.
StrangeOK(m) ==
    /\ strange[m] \subseteq {job[m].names[i] : i \in ImagesOf(m)}
    /\ fate[m] = "resolve" => strange[m] = {}
    /\ \A i \in ImagesOf(m) : job[m].names[i] \in strange[m] =>
          \E w \in WeightFiles : resolved[m][w] < weights[w] /\ ~Checked(m, w, i)

\* Without --overwrite: what a run finds at a name it has used.
FoundOK(m) == ~job[m].overwrite => \A i \in ImagesOf(m) :
    /\ Did(m, "picture", i) => pictures[job[m].names[i]] \in Entitled(m)
    /\ Did(m, "digest", i) => digest[m][job[m].names[i]] \in Entitled(m)

PrivateOK(m) == private[m] =
    {i \in 0..Len(job[m].names) : IF i = 0 THEN Did(m, "manifest", 1) ELSE Did(m, "stage", i)}

ReportOK(f) == LET m == reports[f].by IN m \in Makers =>
    /\ \E i \in ImagesOf(m) : job[m].names[i] = f /\ Did(m, "report", i)
    /\ ~job[m].overwrite => reports[f].of \in Entitled(m)

FolderOK == folder.by \in Makers =>
    /\ job[folder.by].way = "folder" /\ at[folder.by] = Len(Program(folder.by))
    /\ folder.holds = private[folder.by]

\* A pair has linked its report and not failed since.
Linked(m) == job[m].way = "pair" /\ ((fate[m] = "run" /\ at[m] = 5) \/ at[m] = 6)

PairOK(m) ==
    /\ Linked(m) => reports[job[m].names[1]].by \in Entitled(m)
    /\ job[m].way = "pair" => \A f \in Names : pictures[f] = m => f = job[m].names[1] /\ at[m] = 6
    /\ \A q \in Makers : Linked(m) /\ Linked(q) /\ job[q].names[1] = job[m].names[1] => q = m

ImageInv ==
    /\ ImageTypes /\ FolderOK
    /\ \A m \in Makers : ResolvedOK(m) /\ StrangeOK(m) /\ FoundOK(m) /\ PrivateOK(m) /\ PairOK(m)
    /\ \A f \in Names : ReportOK(f)

-----------------------------------------------------------------------------
(* A step of a program. *)

\* What a run has done when it has taken its next step.
LEMMA Advance ==
    ASSUME ImageTypes, NEW m \in Makers, NEW op, Doing(m, op), Step(m), job' = job
    PROVE  /\ fate[m] = "run" /\ at' \in [Makers -> Nat]
           /\ at'[m] = at[m] + 1 /\ at[m] \in Nat /\ at'[m] \in 1..Len(Program(m))
           /\ \A q \in Makers \ {m} : at'[q] = at[q]
           /\ op \in Operations
           /\ \E i \in ImagesOf(m) :
                 /\ NextStep(m) = <<op, i>> /\ NextStep(m)[2] = i
                 /\ NameOf(m) = job[m].names[i] /\ NameOf(m) \in Names
                 /\ Program(m)[at[m] + 1] = <<op, i>>
                 /\ \A o, j : Did(m, o, j)' <=> (Did(m, o, j) \/ (o = op /\ j = i))
<1> DEFINE P == Program(m)
           a == at[m]
<1>1. fate[m] = "run" /\ a < Len(P) /\ NextStep(m)[1] = op /\ at' = [at EXCEPT ![m] = @ + 1]
  BY DEF Doing, Step
<1>2. at \in [Makers -> Nat] /\ job \in [Makers -> ImageJobs]
  BY DEF ImageTypes, ImageTypeOK
<1>3. Shape(P, job[m].way, Len(job[m].names))
  BY <1>2, ProgramShape
<1>4. P \in Seq(Operations \X ImagesOf(m))
  BY <1>3 DEF Shape, ImagesOf
<1>5. P' = P
  BY DEF Program
<1> HIDE DEF P
<1>6. a + 1 \in 1..Len(P) /\ a \in Nat /\ at'[m] = a + 1 /\ at' \in [Makers -> Nat]
      /\ \A q \in Makers \ {m} : at'[q] = at[q]
  BY <1>1, <1>2, <1>4
<1>7. P[a + 1] \in Operations \X ImagesOf(m)
  BY <1>4, <1>6
<1>8. PICK i \in ImagesOf(m) : P[a + 1] = <<op, i>> /\ op \in Operations
  BY <1>1, <1>7 DEF NextStep, P
<1>9. NextStep(m) = <<op, i>> /\ NextStep(m)[2] = i
  BY <1>8 DEF NextStep, P
<1>10. NameOf(m) = job[m].names[i] /\ NameOf(m) \in Names
  BY <1>2, <1>9, ImageAssumption DEF NameOf, ImagesOf
<1>11. ASSUME NEW o, NEW j
       PROVE  Did(m, o, j)' <=> (Did(m, o, j) \/ (o = op /\ j = i))
  <2>1. Did(m, o, j) <=> \E k \in 1..a : P[k] = <<o, j>>
    BY DEF Did, StepBefore, P
  <2>2. Did(m, o, j)' <=> \E k \in 1..a + 1 : P[k] = <<o, j>>
    BY <1>5, <1>6 DEF Did, StepBefore, P
  <2>3. 1..a + 1 = (1..a) \cup {a + 1}
    BY <1>6
  <2>4. P[a + 1] = <<o, j>> <=> o = op /\ j = i
    BY <1>8
  <2>5. QED
    BY <2>1, <2>2, <2>3, <2>4
<1>12. QED
  BY <1>1, <1>6, <1>8, <1>9, <1>10, <1>11 DEF P

\* A verification counts for the images rendered before it, and rendering an image again would need another.
LEMMA CheckedAfter ==
    ASSUME ImageTypes, NEW m \in Makers, NEW op, Doing(m, op), Step(m), job' = job,
           NEW w \in WeightFiles, NEW j
    PROVE  /\ Checked(m, w, j) => Checked(m, w, j)'
           /\ Checked(m, w, j)' => Checked(m, w, j) \/ op = w
           /\ op = "render" /\ NextStep(m)[2] = (IF job[m].way = "diffusers" THEN 1 ELSE j) =>
                 ~Checked(m, w, j)'
<1> DEFINE P == Program(m)
           a == at[m]
           r == IF job[m].way = "diffusers" THEN 1 ELSE j
<1>1. /\ a \in Nat /\ at'[m] = a + 1 /\ a + 1 \in 1..Len(P)
      /\ \E i \in ImagesOf(m) : NextStep(m)[2] = i /\ P[a + 1] = <<op, i>>
  BY Advance
<1>2. \A k, l \in 1..Len(P) : P[k][1] = "render" /\ P[l] = P[k] => k = l
  BY ProgramShape DEF Shape, ImageTypes, ImageTypeOK
<1>3. P' = P /\ job'[m].way = job[m].way
  BY DEF Program
<1> HIDE DEF P
<1>4. Checked(m, w, j) <=> \E k, l \in 1..a : k < l /\ P[k] = <<"render", r>> /\ P[l][1] = w
  BY DEF Checked, ChecksBefore, P
<1>5. Checked(m, w, j)' <=> \E k, l \in 1..a + 1 : k < l /\ P[k] = <<"render", r>> /\ P[l][1] = w
  BY <1>1, <1>3 DEF Checked, ChecksBefore, P
<1>6. P[a + 1][1] = op
  BY <1>1
<1>7. ASSUME op = "render", NextStep(m)[2] = r, Checked(m, w, j)'
      PROVE  FALSE
  <2>1. PICK k \in 1..a + 1, l \in 1..a + 1 : k < l /\ P[k] = <<"render", r>>
    BY <1>5, <1>7
  <2>2. P[a + 1] = <<"render", r>>
    BY <1>1, <1>7
  <2>3. k \in 1..Len(P) /\ k # a + 1 /\ P[k][1] = "render"
    BY <1>1, <2>1
  <2>4. QED
    BY <1>1, <1>2, <2>1, <2>2, <2>3
<1>8. ASSUME Checked(m, w, j)', op # w
      PROVE  Checked(m, w, j)
  <2>1. PICK k \in 1..a + 1, l \in 1..a + 1 : k < l /\ P[k] = <<"render", r>> /\ P[l][1] = w
    BY <1>5, <1>8
  <2>2. l # a + 1
    BY <1>6, <1>8, <2>1
  <2>3. l \in 1..a /\ k \in 1..a
    BY <1>1, <2>1, <2>2
  <2>4. QED
    BY <1>4, <2>1, <2>3
<1>9. ASSUME Checked(m, w, j)
      PROVE  Checked(m, w, j)'
  <2>1. PICK k \in 1..a, l \in 1..a : k < l /\ P[k] = <<"render", r>> /\ P[l][1] = w
    BY <1>4, <1>9
  <2>2. k \in 1..a + 1 /\ l \in 1..a + 1
    BY <1>1
  <2>3. QED
    BY <1>5, <2>1, <2>2
<1>10. QED
  BY <1>7, <1>8, <1>9

\* What a program has done before a digest, a report and a publication.
LEMMA DoneBefore ==
    ASSUME ImageTypes, NEW m \in Makers, NEW op, Doing(m, op), Step(m), job' = job,
           NEW i \in ImagesOf(m), NextStep(m) = <<op, i>>
    PROVE  /\ op = "report" => Did(m, "digest", i) /\ \A w \in WeightFiles : Checked(m, w, i)
           /\ op = "digest" /\ job[m].way # "pair" => Did(m, "picture", i)
           /\ op = "publish" => /\ job[m].way = "folder" /\ at'[m] = Len(Program(m))
           /\ op = "manifest" => i = 1
           /\ op = "render" /\ job[m].way = "diffusers" => i = 1
<1>1. at[m] \in Nat /\ at'[m] = at[m] + 1 /\ at[m] + 1 \in 1..Len(Program(m))
  BY Advance
<1>2. Program(m)[at[m] + 1] = <<op, i>> /\ at[m] + 1 - 1 = at[m]
  BY <1>1 DEF NextStep
<1>3. Shape(Program(m), job[m].way, Len(job[m].names)) /\ i \in 1..Len(job[m].names)
  BY ProgramShape DEF ImageTypes, ImageTypeOK, ImagesOf
<1>4. PICK l \in 1..Len(Program(m)) : l = at[m] + 1 /\ l - 1 = at[m] /\ Program(m)[l] = <<op, i>>
  BY <1>1, <1>2
<1>5. ASSUME op = "report"
      PROVE  Did(m, "digest", i) /\ \A w \in WeightFiles : Checked(m, w, i)
  BY <1>3, <1>4, <1>5 DEF Shape, Did, Checked
<1>6. ASSUME op = "digest", job[m].way # "pair"
      PROVE  Did(m, "picture", i)
  BY <1>3, <1>4, <1>6 DEF Shape, Did
<1>7. ASSUME op = "publish"
      PROVE  job[m].way = "folder" /\ at'[m] = Len(Program(m))
  <2>1. Program(m)[l][1] = "publish"
    BY <1>4, <1>7
  <2>2. QED
    BY <1>1, <1>3, <1>4, <2>1 DEF Shape
<1>8. ASSUME op = "manifest"
      PROVE  i = 1
  <2>1. Program(m)[l][1] = "manifest" /\ Program(m)[l][2] = i
    BY <1>4, <1>8
  <2>2. QED
    BY <1>3, <2>1 DEF Shape
<1>9. ASSUME op = "render", job[m].way = "diffusers"
      PROVE  i = 1
  <2>1. Program(m)[l][1] = "render" /\ Program(m)[l][2] = i
    BY <1>4, <1>9
  <2>2. QED
    BY <1>3, <1>9, <2>1 DEF Shape
<1>10. QED
  BY <1>5, <1>6, <1>7, <1>8, <1>9

\* A run that has reached the end of its program has done all of it.
LEMMA DoneAtEnd ==
    ASSUME ImageTypes, NEW m \in Makers, at[m] = Len(Program(m)), job[m].way = "folder",
           NEW i \in ImagesOf(m)
    PROVE  Did(m, "manifest", 1) /\ Did(m, "stage", i) /\ \A w \in WeightFiles : Checked(m, w, i)
<1> DEFINE P == Program(m)
<1>1. Shape(P, "folder", Len(job[m].names)) /\ i \in 1..Len(job[m].names)
  BY ProgramShape DEF ImageTypes, ImageTypeOK, ImagesOf
<1> HIDE DEF P
<1>2. PICK l \in 1..Len(P) : l = Len(P) /\ l \in Nat /\ P[l][1] = "publish"
  BY <1>1 DEF Shape
<1>3. /\ StepBefore(P, <<"manifest", 1>>, l - 1) /\ StepBefore(P, <<"stage", i>>, l - 1)
      /\ \A w \in WeightFiles : ChecksBefore(P, "folder", w, i, l - 1)
  BY <1>1, <1>2 DEF Shape
<1>4. \A k \in 1..l - 1 : k \in 1..l
  BY <1>2
<1>5. /\ StepBefore(P, <<"manifest", 1>>, l) /\ StepBefore(P, <<"stage", i>>, l)
      /\ \A w \in WeightFiles : ChecksBefore(P, "folder", w, i, l)
  BY <1>3, <1>4 DEF StepBefore, ChecksBefore
<1>6. QED
  BY <1>2, <1>5 DEF P, Did, Checked

-----------------------------------------------------------------------------
(* What a step leaves as it is. *)

\* What a run has done does not depend on the others.
LEMMA StandsStill ==
    ASSUME NEW q \in Makers, job' = job, at'[q] = at[q]
    PROVE  /\ \A o, j : Did(q, o, j)' <=> Did(q, o, j)
           /\ \A w, j : Checked(q, w, j)' <=> Checked(q, w, j)
           /\ Entitled(q)' = Entitled(q) /\ ImagesOf(q)' = ImagesOf(q)
           /\ Program(q)' = Program(q)
BY DEF Did, Checked, Entitled, ImagesOf, Program

\* A run that rests keeps what is true of it, unless somebody takes what it has found.
LEMMA OtherKeeps ==
    ASSUME ImageTypes, ImageTypes', NEW q \in Makers, job' = job, at'[q] = at[q],
           ResolvedOK(q), StrangeOK(q), FoundOK(q), PrivateOK(q),
           resolved'[q] = resolved[q], strange'[q] = strange[q], fate'[q] = fate[q] \/ fate'[q] # "resolve",
           private'[q] = private[q], digest'[q] = digest[q],
           \A w \in WeightFiles : weights[w] <= weights'[w],
           \A f \in Names : pictures'[f] = pictures[f] \/ pictures'[f] \in Entitled(q) \/ pictures[f] \notin Entitled(q)
    PROVE  ResolvedOK(q)' /\ StrangeOK(q)' /\ FoundOK(q)' /\ PrivateOK(q)'
<1>1. /\ \A o, j : Did(q, o, j)' <=> Did(q, o, j)
      /\ \A w, j : Checked(q, w, j)' <=> Checked(q, w, j)
      /\ Entitled(q)' = Entitled(q) /\ ImagesOf(q)' = ImagesOf(q)
  BY StandsStill
<1>2. \A w \in WeightFiles : resolved[q][w] \in Nat /\ weights[w] \in Nat /\ weights'[w] \in Nat
  BY ImageAssumption DEF ImageTypes, ImageTypeOK
<1>3. \A i \in ImagesOf(q) : job[q].names[i] \in Names
  BY ImageAssumption DEF ImageTypes, ImageTypeOK, ImagesOf
<1>4. ResolvedOK(q)'
  BY <1>2 DEF ResolvedOK
<1>5. StrangeOK(q)'
  BY <1>1, <1>2 DEF StrangeOK
<1>6. FoundOK(q)'
  BY <1>1, <1>3 DEF FoundOK
<1>7. PrivateOK(q)'
  BY <1>1 DEF PrivateOK
<1>8. QED
  BY <1>4, <1>5, <1>6, <1>7

\* What a step of a program keeps of its own run, of the reports and of the directory.
LEMMA StepKeeps ==
    ASSUME ImageInv, NEW m \in Makers, NEW op, Doing(m, op), Step(m), UNCHANGED <<weights, job, resolved, fate>>
    PROVE  /\ ResolvedOK(m)'
           /\ op \notin WeightFiles /\ strange'[m] = strange[m] => StrangeOK(m)'
           /\ op \notin {"picture", "digest"} /\ digest'[m] = digest[m] /\ pictures' = pictures => FoundOK(m)'
           /\ op \notin {"stage", "manifest"} /\ private'[m] = private[m] => PrivateOK(m)'
           /\ \A f \in Names : reports'[f] = reports[f] => ReportOK(f)'
           /\ folder' = folder /\ (\A q \in Makers \ {m} : private'[q] = private[q]) => FolderOK'
           /\ folder.by # m
<1>1. ImageTypes /\ ResolvedOK(m) /\ StrangeOK(m) /\ FoundOK(m) /\ PrivateOK(m) /\ FolderOK
  BY DEF ImageInv
<1>2. /\ fate[m] = "run" /\ at'[m] = at[m] + 1 /\ at[m] \in Nat /\ at'[m] \in 1..Len(Program(m))
      /\ \A q \in Makers \ {m} : at'[q] = at[q]
      /\ \E i \in ImagesOf(m) : \A o, j : Did(m, o, j)' <=> (Did(m, o, j) \/ (o = op /\ j = i))
  BY <1>1, Advance
<1>3. Entitled(m)' = Entitled(m) /\ ImagesOf(m)' = ImagesOf(m)
  BY DEF Entitled, ImagesOf
<1>4. \A o, j : /\ Did(m, o, j) => Did(m, o, j)'
                /\ Did(m, o, j)' /\ o # op => Did(m, o, j)
  BY <1>2
<1>5. ResolvedOK(m)'
  BY <1>1, <1>2 DEF ResolvedOK
<1>6. ASSUME op \notin WeightFiles, strange'[m] = strange[m]
      PROVE  StrangeOK(m)'
  <2>1. \A w \in WeightFiles : \A j : Checked(m, w, j)' => Checked(m, w, j)
    BY <1>1, <1>6, CheckedAfter
  <2>2. QED
    BY <1>1, <1>2, <1>3, <1>6, <2>1 DEF StrangeOK
<1>7. ASSUME op \notin {"picture", "digest"}, digest'[m] = digest[m], pictures' = pictures
      PROVE  FoundOK(m)'
  BY <1>1, <1>3, <1>4, <1>7 DEF FoundOK
<1>8. ASSUME op \notin {"stage", "manifest"}, private'[m] = private[m]
      PROVE  PrivateOK(m)'
  <2>1. \A j : /\ Did(m, "stage", j)' <=> Did(m, "stage", j)
               /\ Did(m, "manifest", j)' <=> Did(m, "manifest", j)
    BY <1>4, <1>8
  <2>2. QED
    BY <1>1, <1>8, <2>1 DEF PrivateOK
<1>9. ASSUME NEW f \in Names, reports'[f] = reports[f]
      PROVE  ReportOK(f)'
  <2>1. SUFFICES ASSUME reports[f].by \in Makers
                 PROVE  ReportOK(f)'
    BY <1>9 DEF ReportOK
  <2>2. PICK q \in Makers : q = reports[f].by
    BY <2>1
  <2>3. \A j : Did(q, "report", j) => Did(q, "report", j)'
    BY <1>2, <1>4, StandsStill
  <2>4. Entitled(q)' = Entitled(q) /\ ImagesOf(q)' = ImagesOf(q)
    BY DEF Entitled, ImagesOf
  <2>5. ReportOK(f)
    BY DEF ImageInv
  <2>6. QED
    BY <1>9, <2>2, <2>3, <2>4, <2>5 DEF ReportOK
<1>10. folder.by # m
  <2>1. at[m] < Len(Program(m))
    BY <1>2
  <2>2. QED
    BY <1>1, <2>1 DEF FolderOK
<1>11. ASSUME folder' = folder, \A q \in Makers \ {m} : private'[q] = private[q]
       PROVE  FolderOK'
  <2>1. SUFFICES ASSUME folder.by \in Makers
                 PROVE  FolderOK'
    BY <1>11 DEF FolderOK
  <2>2. PICK q \in Makers \ {m} : q = folder.by
    BY <1>10, <2>1
  <2>3. Program(q)' = Program(q) /\ at'[q] = at[q] /\ private'[q] = private[q]
    BY <1>2, <1>11 DEF Program
  <2>4. QED
    BY <1>1, <1>11, <2>2, <2>3 DEF FolderOK
<1>12. QED
  BY <1>5, <1>6, <1>7, <1>8, <1>9, <1>10, <1>11

-----------------------------------------------------------------------------
(* Pairs. *)

\* A pair links its report with its last step but one, and its image with the last.
LEMMA PairStep ==
    ASSUME ImageTypes, NEW m \in Makers, NEW op, Doing(m, op), Step(m), UNCHANGED <<job, fate>>,
           job[m].way = "pair"
    PROVE  /\ at[m] < 6 /\ (Linked(m)' => op = "report" \/ Linked(m))
           /\ op = "picture" => at'[m] = 6 /\ Linked(m)
           /\ NextStep(m)[2] = 1 /\ NameOf(m) = job[m].names[1]
<1>1. /\ Len(Program(m)) = 6 /\ Len(job[m].names) = 1
      /\ \A k \in 1..6 : Program(m)[k] = <<PairWay[k], 1>>
  BY ProgramShape DEF ImageTypes, ImageTypeOK
<1>2. /\ fate[m] = "run" /\ at'[m] = at[m] + 1 /\ at[m] \in Nat /\ at'[m] \in 1..Len(Program(m))
      /\ \E i \in ImagesOf(m) : NextStep(m)[2] = i /\ NameOf(m) = job[m].names[i] /\ Program(m)[at[m] + 1] = <<op, i>>
  BY Advance
<1>3. at[m] < 6 /\ at[m] + 1 \in 1..6
  BY <1>1, <1>2
<1>4. PairWay[at[m] + 1] = op /\ NextStep(m)[2] = 1 /\ NameOf(m) = job[m].names[1]
  BY <1>1, <1>2, <1>3
<1>5. at[m] = 0 \/ at[m] = 1 \/ at[m] = 2 \/ at[m] = 3 \/ at[m] = 4 \/ at[m] = 5
  BY <1>2, <1>3
<1>6. /\ PairWay[1] = "render" /\ PairWay[2] = "model" /\ PairWay[3] = "vae"
      /\ PairWay[4] = "digest" /\ PairWay[5] = "report" /\ PairWay[6] = "picture"
  BY DEF PairWay
<1>7. op = "picture" => at[m] = 5
  BY <1>4, <1>5, <1>6
<1>8. at[m] = 4 => op = "report"
  BY <1>4, <1>6
<1>9. QED
  BY <1>2, <1>3, <1>4, <1>5, <1>7, <1>8 DEF Linked

\* Pairs stay what they are while nothing is linked that was not, and nothing they have linked is taken.
LEMMA PairsKeep ==
    ASSUME ImageTypes, job' = job, \A q \in Makers : PairOK(q),
           \A q \in Makers : Linked(q)' => Linked(q),
           \A q \in Makers : Linked(q)' =>
              \/ reports'[job[q].names[1]] = reports[job[q].names[1]]
              \/ reports'[job[q].names[1]].by \in Entitled(q),
           \A q \in Makers : job[q].way = "pair" =>
              \A f \in Names : pictures'[f] = q => \/ pictures[f] = q /\ (at[q] = 6 => at'[q] = 6)
                                                   \/ f = job[q].names[1] /\ at'[q] = 6
    PROVE  \A q \in Makers : PairOK(q)'
<1>1. \A q \in Makers : Entitled(q)' = Entitled(q)
  BY DEF Entitled
<1>2. QED
  BY <1>1 DEF PairOK

-----------------------------------------------------------------------------
(* The steps of a program, one lemma each. *)

\* The invariant after a step of one run, but for what the step changes.
LEMMA StepInv ==
    ASSUME ImageInv, ImageTypes', NEW m \in Makers, NEW op, Doing(m, op), Step(m),
           UNCHANGED <<weights, job, resolved, fate>>,
           \A q \in Makers \ {m} :
              /\ strange'[q] = strange[q] /\ private'[q] = private[q] /\ digest'[q] = digest[q]
              /\ \A f \in Names : pictures'[f] = pictures[f] \/ pictures'[f] \in Entitled(q) \/ pictures[f] \notin Entitled(q),
           StrangeOK(m)', FoundOK(m)', PrivateOK(m)', FolderOK',
           \A f \in Names : ReportOK(f)', \A q \in Makers : PairOK(q)'
    PROVE  ImageInv'
<1>1. ImageTypes /\ ResolvedOK(m)' /\ \A q \in Makers \ {m} : at'[q] = at[q]
  BY Advance, StepKeeps DEF ImageInv
<1>2. ASSUME NEW q \in Makers \ {m}
      PROVE  ResolvedOK(q)' /\ StrangeOK(q)' /\ FoundOK(q)' /\ PrivateOK(q)'
  <2>1. ResolvedOK(q) /\ StrangeOK(q) /\ FoundOK(q) /\ PrivateOK(q)
    BY DEF ImageInv
  <2>2. /\ job' = job /\ at'[q] = at[q] /\ fate'[q] = fate[q] /\ resolved'[q] = resolved[q]
        /\ strange'[q] = strange[q] /\ private'[q] = private[q] /\ digest'[q] = digest[q]
        /\ \A f \in Names : pictures'[f] = pictures[f] \/ pictures'[f] \in Entitled(q) \/ pictures[f] \notin Entitled(q)
    BY <1>1
  <2>3. \A w \in WeightFiles : weights[w] <= weights'[w]
    BY <1>1 DEF ImageTypes, ImageTypeOK
  <2>4. QED
    BY <1>1, <2>1, <2>2, <2>3, OtherKeeps
<1>3. QED
  BY <1>1, <1>2 DEF ImageInv

\* The types after a step of a program that leaves the rest of them to be shown.
LEMMA StepTypes ==
    ASSUME ImageTypes, NEW m \in Makers, NEW op, Doing(m, op), Step(m), UNCHANGED <<weights, job, resolved, fate>>,
           pictures' \in [Names -> Owners], reports' \in [Names -> [by : Owners, of : Owners]],
           folder' \in [by : Owners, holds : SUBSET Nat],
           folder'.by \in Makers => job[folder'.by].way = "folder",
           strange' \in [Makers -> SUBSET Names], private' \in [Makers -> SUBSET Nat],
           digest' \in [Makers -> [Names -> Owners]]
    PROVE  ImageTypes'
<1>1. /\ at' \in [Makers -> Nat] /\ at'[m] \in 1..Len(Program(m))
      /\ \A q \in Makers \ {m} : at'[q] = at[q]
  BY Advance
<1>2. \A q \in Makers : at'[q] \in 0..Len(Program(q)')
  <2>1. \A q \in Makers : Program(q)' = Program(q) /\ at[q] \in 0..Len(Program(q))
    BY DEF Program, ImageTypes, ImageTypeOK
  <2>2. at'[m] \in 0..Len(Program(m)')
    BY <1>1, <2>1
  <2>3. \A q \in Makers \ {m} : at'[q] \in 0..Len(Program(q)')
    BY <1>1, <2>1
  <2>4. QED
    BY <2>2, <2>3
<1>3. QED
  BY <1>1, <1>2 DEF ImageTypes, ImageTypeOK

\* The pairs after a step that links nothing.
LEMMA StepPairs ==
    ASSUME ImageInv, NEW m \in Makers, NEW op, Doing(m, op), Step(m), UNCHANGED <<job, fate, reports>>,
           op # "report",
           \/ pictures' = pictures
           \/ op = "picture" /\ \A f \in Names : pictures'[f] = pictures[f] \/ (f = NameOf(m) /\ pictures'[f] = m)
    PROVE  \A q \in Makers : PairOK(q)'
<1>1. ImageTypes /\ \A q \in Makers : PairOK(q)
  BY DEF ImageInv
<1>2. /\ at'[m] = at[m] + 1 /\ at[m] \in Nat
      /\ \A q \in Makers \ {m} : at'[q] = at[q]
  BY <1>1, Advance
<1>3. job[m].way = "pair" =>
        /\ at[m] < 6 /\ (Linked(m)' => Linked(m)) /\ NameOf(m) = job[m].names[1]
        /\ op = "picture" => at'[m] = 6
  BY <1>1, PairStep
<1>4. ASSUME NEW q \in Makers, Linked(q)'
      PROVE  Linked(q)
  <2>1. CASE q = m
    BY <1>3, <1>4, <2>1 DEF Linked
  <2>2. CASE q # m
    BY <1>2, <1>4, <2>2 DEF Linked
  <2>3. QED
    BY <2>1, <2>2
<1>5. ASSUME NEW q \in Makers, job[q].way = "pair", NEW f \in Names, pictures'[f] = q
      PROVE  \/ pictures[f] = q /\ (at[q] = 6 => at'[q] = 6)
             \/ f = job[q].names[1] /\ at'[q] = 6
  <2>1. CASE q = m
    BY <1>2, <1>3, <1>5, <2>1
  <2>2. CASE q # m
    BY <1>2, <1>5, <2>2
  <2>3. QED
    BY <2>1, <2>2
<1>6. /\ job' = job /\ reports' = reports
      /\ \A q \in Makers : Linked(q)' => Linked(q)
      /\ \A q \in Makers : Linked(q)' =>
            \/ reports'[job[q].names[1]] = reports[job[q].names[1]]
            \/ reports'[job[q].names[1]].by \in Entitled(q)
      /\ \A q \in Makers : job[q].way = "pair" =>
            \A f \in Names : pictures'[f] = q => \/ pictures[f] = q /\ (at[q] = 6 => at'[q] = 6)
                                                 \/ f = job[q].names[1] /\ at'[q] = 6
  BY <1>4, <1>5
<1>7. QED
  BY <1>1, <1>6, PairsKeep

\* Rendering: what it reads is true, or it is recorded as strange and none of it is verified.
LEMMA RenderKeeps ==
    ASSUME ImageInv, NEW m \in Makers, Render(m)
    PROVE  ImageInv'
<1>1. /\ ImageTypes /\ StrangeOK(m) /\ ResolvedOK(m) /\ Doing(m, "render") /\ Step(m)
      /\ UNCHANGED <<pictures, reports, folder, weights, job, resolved, fate, private, digest>>
  BY DEF ImageInv, Render
<1>2. PICK i \in ImagesOf(m) :
          /\ NextStep(m) = <<"render", i>> /\ NextStep(m)[2] = i
          /\ NameOf(m) = job[m].names[i] /\ NameOf(m) \in Names
  BY <1>1, Advance
<1>3. \A j \in ImagesOf(m) : job[m].names[j] \in Names
  BY <1>1, ImageAssumption DEF ImageTypes, ImageTypeOK, ImagesOf
<1>4. \A j, k \in ImagesOf(m) : job[m].names[j] = job[m].names[k] => j = k
  BY <1>1, ImageAssumption DEF ImageTypes, ImageTypeOK, ImagesOf, IsInjective
<1>5. ToSet(job[m].names) = {job[m].names[j] : j \in ImagesOf(m)}
  BY DEF ToSet, ImagesOf
<1>6. PICK S \in SUBSET Names :
          /\ S = IF job[m].way = "diffusers" THEN ToSet(job[m].names) ELSE {NameOf(m)}
          /\ strange' = strange \/ (weights # resolved[m] /\ strange' = [strange EXCEPT ![m] = @ \cup S])
  <2> DEFINE T == IF job[m].way = "diffusers" THEN ToSet(job[m].names) ELSE {NameOf(m)}
  <2>1. T \in SUBSET Names
    BY <1>2, <1>3, <1>5
  <2>2. strange' = strange \/ (weights # resolved[m] /\ strange' = [strange EXCEPT ![m] = @ \cup T])
    BY DEF Render
  <2> HIDE DEF T
  <2>3. \E S \in SUBSET Names : S = T
    BY <2>1
  <2>4. QED
    BY <2>2, <2>3 DEF T
<1>7. /\ strange \in [Makers -> SUBSET Names] /\ strange' \in [Makers -> SUBSET Names]
      /\ \A q \in Makers \ {m} : strange'[q] = strange[q]
      /\ \/ strange'[m] = strange[m]
         \/ weights # resolved[m] /\ strange'[m] = strange[m] \cup S
  BY <1>1, <1>6 DEF ImageTypes, ImageTypeOK
<1>8. ImageTypes'
  BY <1>1, <1>7, StepTypes DEF ImageTypes, ImageTypeOK
<1>9. StrangeOK(m)'
  <2>1. CASE strange'[m] = strange[m]
    BY <1>1, <2>1, StepKeeps DEF WeightFiles
  <2>2. CASE weights # resolved[m] /\ strange'[m] = strange[m] \cup S
    <3>1. ImagesOf(m)' = ImagesOf(m) /\ fate[m] = "run"
      BY <1>1 DEF ImagesOf, Doing
    <3>2. S \subseteq {job[m].names[j] : j \in ImagesOf(m)}
      BY <1>2, <1>5, <1>6
    <3>3. PICK v \in WeightFiles : resolved[m][v] < weights[v]
      <4>1. weights \in [WeightFiles -> Nat] /\ resolved[m] \in [WeightFiles -> Nat]
        BY <1>1, ImageAssumption DEF ImageTypes, ImageTypeOK
      <4>2. PICK v \in WeightFiles : resolved[m][v] # weights[v]
        BY <2>2, <4>1
      <4>3. QED
        BY <1>1, <4>1, <4>2 DEF ResolvedOK
    <3>4. ASSUME NEW j \in ImagesOf(m), job[m].names[j] \in strange'[m]
          PROVE  \E w \in WeightFiles : resolved[m][w] < weights[w] /\ ~Checked(m, w, j)'
      <4>1. CASE job[m].names[j] \in strange[m]
        <5>1. PICK w \in WeightFiles : resolved[m][w] < weights[w] /\ ~Checked(m, w, j)
          BY <1>1, <4>1 DEF StrangeOK
        <5>2. Checked(m, w, j)' => Checked(m, w, j) \/ "render" = w
          BY <1>1, CheckedAfter
        <5>3. QED
          BY <5>1, <5>2 DEF WeightFiles
      <4>2. CASE job[m].names[j] \in S
        <5>1. i = IF job[m].way = "diffusers" THEN 1 ELSE j
          BY <1>1, <1>2, <1>4, <1>6, <4>2, DoneBefore
        <5>2. ~Checked(m, v, j)'
          BY <1>1, <1>2, <5>1, CheckedAfter
        <5>3. QED
          BY <3>3, <5>2
      <4>3. QED
        BY <2>2, <3>4, <4>1, <4>2
    <3>5. strange'[m] \subseteq {job[m].names[j] : j \in ImagesOf(m)}
      BY <1>1, <2>2, <3>2 DEF StrangeOK
    <3>6. QED
      BY <1>1, <3>1, <3>4, <3>5 DEF StrangeOK
  <2>3. QED
    BY <1>7, <2>1, <2>2
<1>10. FoundOK(m)' /\ PrivateOK(m)' /\ FolderOK' /\ \A f \in Names : ReportOK(f)'
  BY <1>1, StepKeeps
<1>11. \A q \in Makers : PairOK(q)'
  BY <1>1, StepPairs
<1>12. QED
  BY <1>1, <1>7, <1>8, <1>9, <1>10, <1>11, StepInv

\* Verifying a file: what was made with another state of it stays known to be unverified.
LEMMA VerifyKeeps ==
    ASSUME ImageInv, NEW m \in Makers, NEW w \in WeightFiles, Verify(m, w)
    PROVE  ImageInv'
<1>1. /\ ImageTypes /\ StrangeOK(m) /\ Doing(m, w) /\ Step(m) /\ weights[w] = resolved[m][w]
      /\ UNCHANGED <<pictures, reports, folder, weights, job, resolved, strange, fate, private, digest>>
      /\ w \notin {"picture", "digest", "stage", "manifest", "report"}
  BY DEF ImageInv, Verify, WeightFiles
<1>2. ImageTypes'
  BY <1>1, StepTypes DEF ImageTypes, ImageTypeOK
<1>3. StrangeOK(m)'
  <2>1. ImagesOf(m)' = ImagesOf(m) /\ fate[m] = "run"
    BY <1>1 DEF ImagesOf, Doing
  <2>2. ASSUME NEW j \in ImagesOf(m), job[m].names[j] \in strange[m]
        PROVE  \E v \in WeightFiles : resolved[m][v] < weights[v] /\ ~Checked(m, v, j)'
    <3>1. PICK v \in WeightFiles : resolved[m][v] < weights[v] /\ ~Checked(m, v, j)
      BY <1>1, <2>2 DEF StrangeOK
    <3>2. Checked(m, v, j)' => Checked(m, v, j) \/ w = v
      BY <1>1, CheckedAfter
    <3>3. v # w
      <4>1. weights[v] \in Nat /\ resolved[m][v] \in Nat
        BY <1>1, ImageAssumption DEF ImageTypes, ImageTypeOK
      <4>2. QED
        BY <1>1, <3>1, <4>1
    <3>4. QED
      BY <3>1, <3>2, <3>3
  <2>3. QED
    BY <1>1, <2>1, <2>2 DEF StrangeOK
<1>4. FoundOK(m)' /\ PrivateOK(m)' /\ FolderOK' /\ \A f \in Names : ReportOK(f)'
  BY <1>1, StepKeeps
<1>5. \A q \in Makers : PairOK(q)'
  BY <1>1, StepPairs
<1>6. QED
  BY <1>1, <1>2, <1>3, <1>4, <1>5, StepInv

\* Publishing an image: only a run with --overwrite takes a name that is taken.
LEMMA PictureKeeps ==
    ASSUME ImageInv, NEW m \in Makers, Picture(m)
    PROVE  ImageInv'
<1>1. /\ ImageTypes /\ FoundOK(m) /\ Doing(m, "picture") /\ Step(m)
      /\ job[m].overwrite \/ pictures[NameOf(m)] = Blank
      /\ pictures' = [pictures EXCEPT ![NameOf(m)] = m]
      /\ UNCHANGED <<reports, folder, weights, job, resolved, strange, fate, private, digest>>
  BY DEF ImageInv, Picture
<1>2. PICK i \in ImagesOf(m) :
          /\ NameOf(m) = job[m].names[i] /\ NameOf(m) \in Names
          /\ \A o, j : Did(m, o, j)' <=> (Did(m, o, j) \/ (o = "picture" /\ j = i))
  BY <1>1, Advance
<1>3. /\ pictures \in [Names -> Owners] /\ pictures' \in [Names -> Owners]
      /\ \A f \in Names : pictures'[f] = IF f = NameOf(m) THEN m ELSE pictures[f]
  BY <1>1, <1>2 DEF ImageTypes, ImageTypeOK, Owners
<1>4. ImageTypes'
  BY <1>1, <1>3, StepTypes DEF ImageTypes, ImageTypeOK
<1>5. ASSUME NEW q \in Makers \ {m}, NEW f \in Names
      PROVE  pictures'[f] = pictures[f] \/ pictures'[f] \in Entitled(q) \/ pictures[f] \notin Entitled(q)
  BY <1>1, <1>3, ImageAssumption DEF Entitled
<1>6. FoundOK(m)'
  <2>1. Entitled(m)' = Entitled(m) /\ ImagesOf(m)' = ImagesOf(m) /\ m \in Entitled(m)
    BY <1>1 DEF Entitled, ImagesOf
  <2>2. \A j \in ImagesOf(m) : job[m].names[j] \in Names
    BY <1>1, ImageAssumption DEF ImageTypes, ImageTypeOK, ImagesOf
  <2>3. QED
    BY <1>1, <1>2, <1>3, <2>1, <2>2 DEF FoundOK
<1>7. StrangeOK(m)' /\ PrivateOK(m)' /\ FolderOK' /\ \A f \in Names : ReportOK(f)'
  BY <1>1, StepKeeps DEF WeightFiles
<1>8. \A q \in Makers : PairOK(q)'
  BY <1>1, <1>3, StepPairs
<1>9. QED
  BY <1>1, <1>4, <1>5, <1>6, <1>7, <1>8, StepInv

\* The digest is of what is at the run's name, which it has published before.
LEMMA DigestKeeps ==
    ASSUME ImageInv, NEW m \in Makers, Digest(m)
    PROVE  ImageInv'
<1>1. /\ ImageTypes /\ FoundOK(m) /\ Doing(m, "digest") /\ Step(m)
      /\ UNCHANGED <<pictures, reports, folder, weights, job, resolved, strange, fate, private>>
  BY DEF ImageInv, Digest
<1>2. PICK i \in ImagesOf(m) :
          /\ NextStep(m) = <<"digest", i>>
          /\ NameOf(m) = job[m].names[i] /\ NameOf(m) \in Names
          /\ \A o, j : Did(m, o, j)' <=> (Did(m, o, j) \/ (o = "digest" /\ j = i))
  BY <1>1, Advance
<1>3. PICK v \in Owners :
          /\ v = IF job[m].way = "pair" THEN m ELSE pictures[NameOf(m)]
          /\ digest' = [digest EXCEPT ![m][NameOf(m)] = v]
  BY <1>1, <1>2 DEF Digest, ImageTypes, ImageTypeOK, Owners
<1>4. /\ digest \in [Makers -> [Names -> Owners]] /\ digest' \in [Makers -> [Names -> Owners]]
      /\ \A q \in Makers \ {m} : digest'[q] = digest[q]
      /\ \A f \in Names : digest'[m][f] = IF f = NameOf(m) THEN v ELSE digest[m][f]
  BY <1>1, <1>2, <1>3 DEF ImageTypes, ImageTypeOK
<1>5. ImageTypes'
  BY <1>1, <1>4, StepTypes DEF ImageTypes, ImageTypeOK
<1>6. FoundOK(m)'
  <2>1. Entitled(m)' = Entitled(m) /\ ImagesOf(m)' = ImagesOf(m) /\ m \in Entitled(m)
    BY <1>1 DEF Entitled, ImagesOf
  <2>2. \A j \in ImagesOf(m) : job[m].names[j] \in Names
    BY <1>1, ImageAssumption DEF ImageTypes, ImageTypeOK, ImagesOf
  <2>3. ~job[m].overwrite => v \in Entitled(m)
    <3>1. job[m].way # "pair" => Did(m, "picture", i)
      BY <1>1, <1>2, DoneBefore
    <3>2. QED
      BY <1>1, <1>2, <1>3, <2>1, <3>1 DEF FoundOK
  <2>4. QED
    BY <1>1, <1>2, <1>4, <2>1, <2>2, <2>3 DEF FoundOK
<1>7. StrangeOK(m)' /\ PrivateOK(m)' /\ FolderOK' /\ \A f \in Names : ReportOK(f)'
  BY <1>1, StepKeeps DEF WeightFiles
<1>8. \A q \in Makers : PairOK(q)'
  BY <1>1, StepPairs
<1>9. QED
  BY <1>1, <1>4, <1>5, <1>6, <1>7, <1>8, StepInv

\* A report names the digest its run has taken, and no pair has linked one of that name.
LEMMA ReportKeeps ==
    ASSUME ImageInv, NEW m \in Makers, Report(m)
    PROVE  ImageInv'
<1>1. /\ ImageTypes /\ FoundOK(m) /\ Doing(m, "report") /\ Step(m)
      /\ job[m].overwrite \/ reports[NameOf(m)] = NoReport
      /\ reports' = [reports EXCEPT ![NameOf(m)] = [by |-> m, of |-> digest[m][NameOf(m)]]]
      /\ UNCHANGED <<pictures, folder, weights, job, resolved, strange, fate, private, digest>>
      /\ \A q \in Makers : PairOK(q)
  BY DEF ImageInv, Report
<1>2. PICK i \in ImagesOf(m) :
          /\ NextStep(m) = <<"report", i>>
          /\ NameOf(m) = job[m].names[i] /\ NameOf(m) \in Names
          /\ \A o, j : Did(m, o, j)' <=> (Did(m, o, j) \/ (o = "report" /\ j = i))
  BY <1>1, Advance
<1>3. digest[m][NameOf(m)] \in Owners /\ m \in Owners
  BY <1>1, <1>2 DEF ImageTypes, ImageTypeOK, Owners
<1>4. /\ reports \in [Names -> [by : Owners, of : Owners]] /\ reports' \in [Names -> [by : Owners, of : Owners]]
      /\ reports'[NameOf(m)].by = m /\ reports'[NameOf(m)].of = digest[m][NameOf(m)]
      /\ \A f \in Names \ {NameOf(m)} : reports'[f] = reports[f]
  BY <1>1, <1>2, <1>3 DEF ImageTypes, ImageTypeOK
<1>5. ImageTypes'
  BY <1>1, <1>4, StepTypes DEF ImageTypes, ImageTypeOK
<1>6. StrangeOK(m)' /\ FoundOK(m)' /\ PrivateOK(m)' /\ FolderOK'
  BY <1>1, StepKeeps DEF WeightFiles
<1>7. ASSUME NEW f \in Names
      PROVE  ReportOK(f)'
  <2>1. CASE f = NameOf(m)
    <3>1. Entitled(m)' = Entitled(m) /\ ImagesOf(m)' = ImagesOf(m)
      BY <1>1 DEF Entitled, ImagesOf
    <3>2. Did(m, "digest", i) /\ Did(m, "report", i)'
      BY <1>1, <1>2, DoneBefore
    <3>3. ~job[m].overwrite => digest[m][NameOf(m)] \in Entitled(m)
      BY <1>1, <1>2, <3>2 DEF FoundOK
    <3>4. PICK r : r = reports'[f] /\ r.by = m /\ r.of = digest[m][NameOf(m)]
      BY <1>4, <2>1
    <3>5. /\ i \in ImagesOf(m)' /\ job'[m].names[i] = f /\ Did(m, "report", i)'
          /\ ~job'[m].overwrite => r.of \in Entitled(m)'
      BY <1>1, <1>2, <2>1, <3>1, <3>2, <3>3, <3>4
    <3>6. QED
      BY <3>4, <3>5 DEF ReportOK
  <2>2. CASE f # NameOf(m)
    BY <1>1, <1>4, <2>2, StepKeeps
  <2>3. QED
    BY <2>1, <2>2
<1>8. \A q \in Makers : PairOK(q)'
  <2>1. /\ at'[m] = at[m] + 1 /\ at[m] \in Nat /\ fate[m] = "run"
        /\ \A q \in Makers \ {m} : at'[q] = at[q]
    BY <1>1, Advance
  <2>2. \A q \in Makers \ {m} : Linked(q)' => Linked(q)
    BY <1>1, <2>1 DEF Linked
  <2>3. \A q \in Makers : Entitled(q)' = Entitled(q) /\ q \in Entitled(q) /\ Blank \notin Entitled(q)
    BY <1>1, ImageAssumption DEF Entitled
  <2>4. job[m].way = "pair" => NameOf(m) = job[m].names[1] /\ ~job[m].overwrite /\ at[m] < 6
    BY <1>1, PairStep, ProgramShape DEF ImageTypes, ImageTypeOK
  <2>5. ASSUME NEW q \in Makers \ {m}, Linked(q), job[q].names[1] = NameOf(m)
        PROVE  job[m].overwrite /\ m \in Entitled(q)
    <3>1. reports[NameOf(m)].by # Blank
      BY <1>1, <2>3, <2>5 DEF PairOK
    <3>2. job[m].overwrite
      BY <1>1, <3>1 DEF NoReport
    <3>3. QED
      BY <3>2 DEF Entitled
  <2>6. ASSUME NEW q \in Makers
        PROVE  /\ Linked(q)' => reports'[job[q].names[1]].by \in Entitled(q)
               /\ job[q].way = "pair" => \A f \in Names : pictures[f] = q => f = job[q].names[1] /\ at'[q] = 6
               /\ \A p \in Makers : Linked(q)' /\ Linked(p)' /\ job[p].names[1] = job[q].names[1] => p = q
    <3>1. PairOK(q)
      BY <1>1
    <3>2. job[q].way = "pair" => job[q].names[1] \in Names
      BY <1>1, ProgramShape, ImageAssumption DEF ImageTypes, ImageTypeOK
    <3>3. ASSUME Linked(q)'
          PROVE  reports'[job[q].names[1]].by \in Entitled(q)
      <4>1. job[q].way = "pair"
        BY <1>1, <3>3 DEF Linked
      <4>2. CASE job[q].names[1] = NameOf(m)
        <5>1. q = m \/ Linked(q)
          BY <2>2, <3>3
        <5>2. QED
          BY <1>4, <2>3, <2>5, <4>2, <5>1
      <4>3. CASE job[q].names[1] # NameOf(m)
        <5>1. q # m /\ Linked(q)
          BY <2>2, <2>4, <3>3, <4>1, <4>3
        <5>2. QED
          BY <1>4, <3>1, <3>2, <4>1, <4>3, <5>1 DEF PairOK
      <4>4. QED
        BY <4>2, <4>3
    <3>4. ASSUME job[q].way = "pair", NEW f \in Names, pictures[f] = q
          PROVE  f = job[q].names[1] /\ at'[q] = 6
      <4>1. f = job[q].names[1] /\ at[q] = 6
        BY <3>1, <3>4 DEF PairOK
      <4>2. q # m
        BY <2>4, <3>4, <4>1
      <4>3. QED
        BY <2>1, <4>1, <4>2
    <3>5. ASSUME NEW p \in Makers, Linked(q)', Linked(p)', job[p].names[1] = job[q].names[1]
          PROVE  p = q
      <4>1. CASE p # m /\ q # m
        BY <2>2, <3>1, <3>5, <4>1 DEF PairOK
      <4>2. CASE p = m /\ q # m
        <5>1. job[m].way = "pair"
          BY <1>1, <3>5, <4>2 DEF Linked
        <5>2. Linked(q) /\ job[q].names[1] = NameOf(m)
          BY <2>2, <2>4, <3>5, <4>2, <5>1
        <5>3. QED
          BY <2>4, <2>5, <4>2, <5>1, <5>2
      <4>3. CASE q = m /\ p # m
        <5>1. job[m].way = "pair"
          BY <1>1, <3>5, <4>3 DEF Linked
        <5>2. Linked(p) /\ job[p].names[1] = NameOf(m)
          BY <2>2, <2>4, <3>5, <4>3, <5>1
        <5>3. QED
          BY <2>4, <2>5, <4>3, <5>1, <5>2
      <4>4. QED
        BY <4>1, <4>2, <4>3
    <3>6. QED
      BY <3>3, <3>4, <3>5
  <2>7. QED
    BY <1>1, <2>3, <2>6 DEF PairOK
<1>9. QED
  BY <1>1, <1>5, <1>6, <1>7, <1>8, StepInv

\* Staging puts the image, or the manifest, into the run's private directory.
LEMMA StageKeeps ==
    ASSUME ImageInv, NEW m \in Makers, Stage(m)
    PROVE  ImageInv'
<1>1. PICK op \in {"stage", "manifest"} : Doing(m, op)
  BY DEF Stage
<1>2. /\ ImageTypes /\ PrivateOK(m) /\ FolderOK /\ Step(m)
      /\ UNCHANGED <<pictures, reports, weights, job, resolved, strange, fate, digest>>
  BY DEF ImageInv, Stage
<1>3. folder.by # m
  BY <1>1, <1>2, StepKeeps
<1>4. folder' = folder
  BY <1>3 DEF Stage
<1>5. PICK i \in ImagesOf(m) :
          /\ NextStep(m) = <<op, i>> /\ NextStep(m)[2] = i
          /\ \A o, j : Did(m, o, j)' <=> (Did(m, o, j) \/ (o = op /\ j = i))
  BY <1>1, <1>2, Advance
<1>6. (op = "manifest" => i = 1) /\ (Doing(m, "stage") <=> op = "stage")
  BY <1>1, <1>2, <1>5, DoneBefore DEF Doing
<1>7. PICK e \in Nat : e = IF op = "stage" THEN i ELSE 0
  BY DEF ImagesOf
<1>8. private' = [private EXCEPT ![m] = @ \cup {e}]
  BY <1>5, <1>6, <1>7 DEF Stage
<1>9. /\ private \in [Makers -> SUBSET Nat] /\ private' \in [Makers -> SUBSET Nat]
      /\ private'[m] = private[m] \cup {e}
      /\ \A q \in Makers \ {m} : private'[q] = private[q]
  BY <1>2, <1>8 DEF ImageTypes
<1>10. ImageTypes'
  BY <1>1, <1>2, <1>4, <1>9, StepTypes DEF ImageTypes, ImageTypeOK
<1>11. PrivateOK(m)'
  <2>1. Len(job[m].names) \in Nat /\ job' = job /\ i \in 1..Len(job[m].names)
    BY <1>2, ProgramShape DEF ImageTypes, ImageTypeOK, ImagesOf
  <2>2. \A j \in 0..Len(job[m].names) :
           (IF j = 0 THEN Did(m, "manifest", 1)' ELSE Did(m, "stage", j)')
              <=> (IF j = 0 THEN Did(m, "manifest", 1) ELSE Did(m, "stage", j)) \/ j = e
    BY <1>5, <1>6, <1>7, <2>1
  <2>3. e \in 0..Len(job[m].names)
    BY <1>7, <2>1
  <2>4. QED
    BY <1>2, <1>9, <2>1, <2>2, <2>3 DEF PrivateOK
<1>12. StrangeOK(m)' /\ FoundOK(m)' /\ FolderOK' /\ \A f \in Names : ReportOK(f)'
  BY <1>1, <1>2, <1>4, <1>9, StepKeeps DEF WeightFiles
<1>13. \A q \in Makers : PairOK(q)'
  BY <1>1, <1>2, StepPairs
<1>14. QED
  BY <1>1, <1>2, <1>9, <1>10, <1>11, <1>12, <1>13, StepInv

\* The directory is published with the last step of its run, as the private one is.
LEMMA PublishFolderKeeps ==
    ASSUME ImageInv, NEW m \in Makers, PublishFolder(m)
    PROVE  ImageInv'
<1>1. /\ ImageTypes /\ Doing(m, "publish") /\ Step(m)
      /\ folder' = [by |-> m, holds |-> private[m]]
      /\ UNCHANGED <<pictures, reports, weights, job, resolved, strange, fate, private, digest>>
  BY DEF ImageInv, PublishFolder
<1>2. PICK i \in ImagesOf(m) : NextStep(m) = <<"publish", i>>
  BY <1>1, Advance
<1>3. job[m].way = "folder" /\ at'[m] = Len(Program(m))
  BY <1>1, <1>2, DoneBefore
<1>4. folder' \in [by : Owners, holds : SUBSET Nat] /\ folder'.by = m /\ folder'.holds = private[m]
  BY <1>1 DEF ImageTypes, Owners
<1>5. ImageTypes'
  BY <1>1, <1>3, <1>4, StepTypes DEF ImageTypes, ImageTypeOK
<1>6. FolderOK'
  <2>1. Program(m)' = Program(m) /\ job' = job /\ private' = private
    BY <1>1 DEF Program
  <2>2. QED
    BY <1>3, <1>4, <2>1 DEF FolderOK
<1>7. StrangeOK(m)' /\ FoundOK(m)' /\ PrivateOK(m)' /\ \A f \in Names : ReportOK(f)'
  BY <1>1, StepKeeps DEF WeightFiles
<1>8. \A q \in Makers : PairOK(q)'
  BY <1>1, StepPairs
<1>9. QED
  BY <1>1, <1>5, <1>6, <1>7, <1>8, StepInv

-----------------------------------------------------------------------------
(* What is no step of a program. *)

\* The invariant after a step in which no program goes on, no run starts and reports are only taken back.
LEMMA RestInv ==
    ASSUME ImageInv, UNCHANGED <<pictures, job, resolved, strange, at, private, digest>>,
           folder' = folder \/ (folder' = Foreign),
           reports' \in [Names -> [by : Owners, of : Owners]],
           weights' \in [WeightFiles -> 1..MaxWeights], \A w \in WeightFiles : weights[w] <= weights'[w],
           fate' \in [Makers -> Fates], \A q \in Makers : fate'[q] = fate[q] \/ fate'[q] \in {"complete", "failed"},
           \A f \in Names : reports'[f] = reports[f] \/ reports'[f] = NoReport,
           \A q \in Makers : Linked(q)' => reports'[job[q].names[1]] = reports[job[q].names[1]]
    PROVE  ImageInv'
<1>1. ImageTypes /\ \A q \in Makers : PairOK(q)
  BY DEF ImageInv
<1>2. \A q \in Makers : Program(q)' = Program(q)
  BY DEF Program
<1>3. ImageTypes' /\ FolderOK'
  <2>1. folder' \in [by : Owners, holds : SUBSET Nat] /\ (folder'.by \in Makers => folder' = folder)
    BY <1>1, ImageAssumption DEF ImageTypes, Foreign, Owners
  <2>2. QED
    BY <1>1, <1>2, <2>1 DEF ImageInv, ImageTypes, ImageTypeOK, FolderOK
<1>4. ASSUME NEW q \in Makers
      PROVE  ResolvedOK(q)' /\ StrangeOK(q)' /\ FoundOK(q)' /\ PrivateOK(q)'
  <2>1. /\ ResolvedOK(q) /\ StrangeOK(q) /\ FoundOK(q) /\ PrivateOK(q)
        /\ fate'[q] = fate[q] \/ fate'[q] # "resolve"
    BY DEF ImageInv
  <2>2. QED
    BY <1>1, <1>3, <2>1, OtherKeeps
<1>5. \A f \in Names : ReportOK(f)'
  <2>1. ASSUME NEW f \in Names
        PROVE  ReportOK(f)'
    <3>1. CASE reports'[f] = NoReport
      BY <3>1, ImageAssumption DEF ReportOK, NoReport
    <3>2. CASE reports'[f] = reports[f] /\ reports[f].by \in Makers
      <4>1. PICK q \in Makers : q = reports[f].by
        BY <3>2
      <4>2. /\ \A o, j : Did(q, o, j)' <=> Did(q, o, j)
            /\ Entitled(q)' = Entitled(q) /\ ImagesOf(q)' = ImagesOf(q)
        BY StandsStill
      <4>3. ReportOK(f)
        BY DEF ImageInv
      <4>4. QED
        BY <3>2, <4>1, <4>2, <4>3 DEF ReportOK
    <3>3. CASE reports'[f] = reports[f] /\ reports[f].by \notin Makers
      BY <3>3 DEF ReportOK
    <3>4. QED
      BY <3>1, <3>2, <3>3
  <2>2. QED
    BY <2>1
<1>6. \A q \in Makers : PairOK(q)'
  <2>1. \A q \in Makers : Linked(q)' => Linked(q)
    BY DEF Linked
  <2>2. \A q \in Makers : job[q].way = "pair" =>
           \A f \in Names : pictures'[f] = q => pictures[f] = q /\ (at[q] = 6 => at'[q] = 6)
    OBVIOUS
  <2>3. QED
    BY <1>1, <2>1, <2>2, PairsKeep
<1>7. QED
  BY <1>3, <1>4, <1>5, <1>6 DEF ImageInv

\* A run that completes, is killed or fails; a pair takes only its own report back.
LEMMA EndKeeps ==
    ASSUME ImageInv, NEW m \in Makers, Complete(m) \/ Fail(m) \/ Kill(m)
    PROVE  ImageInv'
<1>1. ImageTypes /\ \A q \in Makers : PairOK(q)
  BY DEF ImageInv
<1>2. PICK v \in {"complete", "failed"} : fate' = [fate EXCEPT ![m] = v]
  BY DEF Complete, Fail, Kill
<1>3. /\ UNCHANGED <<pictures, folder, weights, job, resolved, strange, at, private, digest>>
      /\ fate[m] = "run"
  BY DEF Complete, Fail, Kill
<1>4. /\ fate' \in [Makers -> Fates] /\ fate'[m] = v
      /\ \A q \in Makers \ {m} : fate'[q] = fate[q]
  BY <1>1, <1>2 DEF ImageTypes, ImageTypeOK, Fates
<1>5. \/ reports' = reports
      \/ /\ job[m].way = "pair" /\ at[m] = Len(Program(m)) - 1
         /\ reports' = [reports EXCEPT ![job[m].names[1]] = NoReport]
  BY DEF Complete, Fail, Kill
<1>6. reports \in [Names -> [by : Owners, of : Owners]] /\ NoReport \in [by : Owners, of : Owners]
  BY <1>1 DEF ImageTypes, ImageTypeOK, NoReport, Owners
<1>7. /\ reports' \in [Names -> [by : Owners, of : Owners]]
      /\ \A f \in Names : reports'[f] = reports[f] \/ reports'[f] = NoReport
      /\ \A q \in Makers : Linked(q)' => reports'[job[q].names[1]] = reports[job[q].names[1]]
  <2>1. CASE reports' = reports
    BY <1>6, <2>1
  <2>2. CASE /\ job[m].way = "pair" /\ at[m] = Len(Program(m)) - 1
             /\ reports' = [reports EXCEPT ![job[m].names[1]] = NoReport]
    <3>1. Len(Program(m)) = 6 /\ at[m] = 5 /\ Linked(m)
      <4>1. Len(Program(m)) = 6
        BY <1>1, <2>2, ProgramShape DEF ImageTypes, ImageTypeOK
      <4>2. at[m] = 5
        BY <2>2, <4>1
      <4>3. QED
        BY <1>3, <2>2, <4>1, <4>2 DEF Linked
    <3>2. ASSUME NEW q \in Makers, Linked(q)'
          PROVE  reports'[job[q].names[1]] = reports[job[q].names[1]]
      <4>1. q # m
        BY <1>3, <1>4, <3>1, <3>2 DEF Linked
      <4>2. Linked(q)
        BY <1>3, <1>4, <3>2, <4>1 DEF Linked
      <4>3. job[q].names[1] # job[m].names[1]
        BY <1>1, <3>1, <4>1, <4>2 DEF PairOK
      <4>4. job[q].names[1] \in Names
        BY <1>1, <4>2, ProgramShape, ImageAssumption DEF ImageTypes, ImageTypeOK, Linked
      <4>5. QED
        BY <1>6, <2>2, <4>3, <4>4
    <3>3. QED
      BY <1>6, <2>2, <3>2
  <2>3. QED
    BY <1>5, <2>1, <2>2
<1>8. weights' \in [WeightFiles -> 1..MaxWeights] /\ \A w \in WeightFiles : weights[w] <= weights'[w]
  BY <1>1, <1>3, ImageAssumption DEF ImageTypes, ImageTypeOK
<1>9. \A q \in Makers : fate'[q] = fate[q] \/ fate'[q] \in {"complete", "failed"}
  BY <1>4
<1>10. QED
  BY <1>3, <1>4, <1>7, <1>8, <1>9, RestInv

\* Somebody else changes a weight file or puts something into the directory.
LEMMA OthersKeep ==
    ASSUME ImageInv, Intrude \/ \E w \in WeightFiles : EditWeights(w)
    PROVE  ImageInv'
<1>1. ImageTypes
  BY DEF ImageInv
<1>2. /\ UNCHANGED <<pictures, reports, job, resolved, strange, at, fate, private, digest>>
      /\ folder' = folder \/ folder' = Foreign
  BY DEF Intrude, EditWeights
<1>3. weights' \in [WeightFiles -> 1..MaxWeights] /\ \A w \in WeightFiles : weights[w] <= weights'[w]
  <2>1. weights \in [WeightFiles -> 1..MaxWeights] /\ MaxWeights \in Nat
    BY <1>1, ImageAssumption DEF ImageTypes, ImageTypeOK
  <2>2. CASE weights' = weights
    BY <2>1, <2>2
  <2>3. CASE \E w \in WeightFiles : weights[w] < MaxWeights /\ weights' = [weights EXCEPT ![w] = @ + 1]
    BY <2>1, <2>3
  <2>4. QED
    BY <2>2, <2>3 DEF Intrude, EditWeights
<1>4. reports' \in [Names -> [by : Owners, of : Owners]] /\ fate' \in [Makers -> Fates]
  BY <1>1, <1>2 DEF ImageTypes, ImageTypeOK
<1>5. QED
  BY <1>2, <1>3, <1>4, RestInv

\* A run is resolved with the weights as they are; it has done nothing yet.
LEMMA ResolveKeeps ==
    ASSUME ImageInv, NEW m \in Makers, Resolve(m)
    PROVE  ImageInv'
<1>1. /\ ImageTypes /\ FolderOK /\ \A f \in Names : ReportOK(f)
      /\ \A q \in Makers : ResolvedOK(q) /\ StrangeOK(q) /\ FoundOK(q) /\ PrivateOK(q) /\ PairOK(q)
      /\ fate[m] = "resolve" /\ resolved' = [resolved EXCEPT ![m] = weights]
      /\ UNCHANGED <<pictures, reports, folder, weights, job, strange, at, private, digest>>
  BY DEF ImageInv, Resolve
<1>2. PICK v \in {"run", "failed"} : fate' = [fate EXCEPT ![m] = v]
  BY DEF Resolve
<1>3. /\ fate' \in [Makers -> Fates] /\ fate'[m] = v
      /\ \A q \in Makers \ {m} : fate'[q] = fate[q] /\ resolved'[q] = resolved[q]
      /\ resolved' \in [Makers -> [WeightFiles -> 1..MaxWeights]] /\ resolved'[m] = weights
      /\ weights \in [WeightFiles -> Nat]
  BY <1>1, <1>2, ImageAssumption DEF ImageTypes, ImageTypeOK, Fates
<1>4. \A q \in Makers : /\ \A o, j : Did(q, o, j)' <=> Did(q, o, j)
                        /\ Entitled(q)' = Entitled(q) /\ ImagesOf(q)' = ImagesOf(q)
                        /\ Program(q)' = Program(q)
  BY <1>1, StandsStill
<1>5. ImageTypes'
  BY <1>1, <1>3, <1>4 DEF ImageTypes, ImageTypeOK
<1>6. FolderOK' /\ \A f \in Names : ReportOK(f)'
  <2>1. FolderOK'
    BY <1>1, <1>4 DEF FolderOK
  <2>2. ASSUME NEW f \in Names
        PROVE  ReportOK(f)'
    <3>1. CASE reports[f].by \in Makers
      <4>1. PICK q \in Makers : q = reports[f].by
        BY <3>1
      <4>2. QED
        BY <1>1, <1>4, <4>1 DEF ReportOK
    <3>2. CASE reports[f].by \notin Makers
      BY <1>1, <3>2 DEF ReportOK
    <3>3. QED
      BY <3>1, <3>2
  <2>3. QED
    BY <2>1, <2>2
<1>7. ASSUME NEW q \in Makers
      PROVE  ResolvedOK(q)' /\ StrangeOK(q)' /\ FoundOK(q)' /\ PrivateOK(q)'
  <2>1. CASE q # m
    <3>1. \A w \in WeightFiles : weights[w] <= weights'[w]
      BY <1>1, <1>3
    <3>2. QED
      BY <1>1, <1>3, <1>5, <2>1, <3>1, OtherKeeps
  <2>2. CASE q = m
    <3>1. ResolvedOK(m)'
      BY <1>1, <1>3 DEF ResolvedOK
    <3>2. StrangeOK(m)'
      BY <1>1, <1>3, <1>4 DEF StrangeOK
    <3>3. FoundOK(m)'
      BY <1>1, <1>4 DEF FoundOK
    <3>4. PrivateOK(m)'
      BY <1>1, <1>4 DEF PrivateOK
    <3>5. QED
      BY <2>2, <3>1, <3>2, <3>3, <3>4
  <2>3. QED
    BY <2>1, <2>2
<1>8. \A q \in Makers : PairOK(q)'
  <2>1. at[m] = 0
    BY <1>1 DEF ResolvedOK
  <2>2. \A q \in Makers : Linked(q)' => Linked(q)
    BY <1>1, <1>3, <2>1 DEF Linked
  <2>3. \A q \in Makers : job[q].way = "pair" =>
           \A f \in Names : pictures'[f] = q => pictures[f] = q /\ (at[q] = 6 => at'[q] = 6)
    BY <1>1
  <2>4. QED
    BY <1>1, <2>2, <2>3, PairsKeep
<1>9. QED
  BY <1>5, <1>6, <1>7, <1>8 DEF ImageInv

-----------------------------------------------------------------------------
(* The theorem *)

\* The invariant holds at first.
LEMMA ImageInitInv == ImageInit => ImageInv
<1> SUFFICES ASSUME ImageInit
             PROVE  ImageInv
  OBVIOUS
<1>1. /\ pictures \in [Names -> {Blank, Stranger}] /\ reports = [f \in Names |-> NoReport]
      /\ folder \in {EmptyFolder, Foreign} /\ weights = [w \in WeightFiles |-> 1]
      /\ job \in [Makers -> ImageJobs] /\ resolved = [m \in Makers |-> weights]
      /\ strange = [m \in Makers |-> {}] /\ at = [m \in Makers |-> 0]
      /\ fate = [m \in Makers |-> "resolve"] /\ private = [m \in Makers |-> {}]
      /\ digest = [m \in Makers |-> [f \in Names |-> Blank]]
  BY ImageAssumption DEF ImageInit
<1>2. \A m \in Makers : Len(Program(m)) \in Nat
  BY <1>1, ProgramShape DEF Shape
<1>3. weights \in [WeightFiles -> 1..MaxWeights] /\ \A w \in WeightFiles : weights[w] = 1
  BY <1>1, ImageAssumption
<1>4. /\ folder \in [by : {Blank, Stranger}, holds : SUBSET Nat] /\ folder.by \notin Makers
      /\ pictures \in [Names -> Owners] /\ \A f \in Names : pictures[f] \notin Makers
      /\ reports \in [Names -> [by : Owners, of : Owners]] /\ \A f \in Names : reports[f].by \notin Makers
  <2>1. folder \in [by : {Blank, Stranger}, holds : SUBSET Nat] /\ folder.by \notin Makers
    BY <1>1, ImageAssumption DEF EmptyFolder, Foreign
  <2>2. pictures \in [Names -> Owners] /\ \A f \in Names : pictures[f] \notin Makers
    BY <1>1, ImageAssumption DEF Owners
  <2>3. NoReport \in [by : Owners, of : Owners] /\ NoReport.by = Blank
    BY DEF NoReport, Owners
  <2>4. /\ reports \in [Names -> [by : Owners, of : Owners]]
        /\ \A f \in Names : reports[f].by \notin Makers
    BY <1>1, <2>3, ImageAssumption
  <2>5. QED
    BY <2>1, <2>2, <2>4
<1>5. ImageTypes
  BY <1>1, <1>2, <1>3, <1>4 DEF ImageTypes, ImageTypeOK, Owners, Fates
<1>6. FolderOK /\ \A f \in Names : ReportOK(f)
  BY <1>4 DEF FolderOK, ReportOK
<1>7. ASSUME NEW m \in Makers
      PROVE  ResolvedOK(m) /\ StrangeOK(m) /\ FoundOK(m) /\ PrivateOK(m) /\ PairOK(m)
  <2>1. at[m] = 0 /\ strange[m] = {} /\ private[m] = {} /\ resolved[m] = weights /\ fate[m] = "resolve"
    BY <1>1
  <2>2. \A o, j : ~Did(m, o, j)
    BY <2>1 DEF Did, StepBefore
  <2>3. ResolvedOK(m) /\ StrangeOK(m)
    BY <1>3, <2>1 DEF ResolvedOK, StrangeOK
  <2>4. FoundOK(m) /\ PrivateOK(m)
    BY <2>1, <2>2 DEF FoundOK, PrivateOK
  <2>5. PairOK(m)
    BY <1>4, <2>1 DEF PairOK, Linked
  <2>6. QED
    BY <2>3, <2>4, <2>5
<1>8. QED
  BY <1>5, <1>6, <1>7 DEF ImageInv

\* Every step keeps it.
LEMMA ImageNextInv == ImageInv /\ [ImageNext]_imageVars => ImageInv'
<1> SUFFICES ASSUME ImageInv, [ImageNext]_imageVars
             PROVE  ImageInv'
  OBVIOUS
<1>1. CASE \E m \in Makers : Resolve(m)
  BY <1>1, ResolveKeeps
<1>2. CASE \E m \in Makers : Render(m)
  BY <1>2, RenderKeeps
<1>3. CASE \E m \in Makers, w \in WeightFiles : Verify(m, w)
  BY <1>3, VerifyKeeps
<1>4. CASE \E m \in Makers : Picture(m)
  BY <1>4, PictureKeeps
<1>5. CASE \E m \in Makers : Digest(m)
  BY <1>5, DigestKeeps
<1>6. CASE \E m \in Makers : Report(m)
  BY <1>6, ReportKeeps
<1>7. CASE \E m \in Makers : Stage(m)
  BY <1>7, StageKeeps
<1>8. CASE \E m \in Makers : PublishFolder(m)
  BY <1>8, PublishFolderKeeps
<1>9. CASE \E m \in Makers : Complete(m) \/ Fail(m) \/ Kill(m)
  BY <1>9, EndKeeps
<1>10. CASE Intrude \/ \E w \in WeightFiles : EditWeights(w)
  BY <1>10, OthersKeep
<1>11. CASE UNCHANGED imageVars
  <2>1. ImageTypes /\ ImageTypes'
    BY <1>11 DEF ImageInv, imageVars, ImageTypes, ImageTypeOK, Program
  <2>2. /\ \A w \in WeightFiles : weights[w] <= weights'[w]
        /\ weights' \in [WeightFiles -> 1..MaxWeights] /\ fate' \in [Makers -> Fates]
        /\ reports' \in [Names -> [by : Owners, of : Owners]]
    BY <1>11, <2>1, ImageAssumption DEF imageVars, ImageTypes, ImageTypeOK
  <2>3. UNCHANGED <<pictures, reports, folder, job, resolved, strange, at, fate, private, digest>>
    BY <1>11 DEF imageVars
  <2>4. QED
    BY <2>2, <2>3, RestInv
<1>12. QED
  BY <1>1, <1>2, <1>3, <1>4, <1>5, <1>6, <1>7, <1>8, <1>9, <1>10, <1>11 DEF ImageNext

\* An image is reported after it has been verified.
LEMMA ReportedChecked ==
    ASSUME ImageTypes, NEW m \in Makers, NEW i \in ImagesOf(m), Did(m, "report", i), NEW w \in WeightFiles
    PROVE  Checked(m, w, i)
<1> DEFINE P == Program(m)
           a == at[m]
<1>1. a \in Nat /\ a <= Len(P) /\ Len(P) \in Nat
  BY ProgramShape DEF Shape, ImageTypes, ImageTypeOK
<1>2. Shape(P, job[m].way, Len(job[m].names)) /\ i \in 1..Len(job[m].names)
  BY ProgramShape DEF ImageTypes, ImageTypeOK, ImagesOf
<1>3. PICK k \in 1..a : P[k] = <<"report", i>>
  BY DEF Did, StepBefore
<1> HIDE DEF P, a
<1>4. k \in 1..Len(P)
  BY <1>1
<1>5. ChecksBefore(P, job[m].way, w, i, k - 1)
  BY <1>2, <1>3, <1>4 DEF Shape
<1>6. \A j \in 1..k - 1 : j \in 1..a
  BY <1>1
<1>7. ChecksBefore(P, job[m].way, w, i, a)
  BY <1>5, <1>6 DEF ChecksBefore
<1>8. QED
  BY <1>7 DEF P, a, Checked

\* The invariant says what the runs check.
LEMMA ImageInvFollows ==
    ImageInv => /\ ImageTypeOK /\ ReportMeansVerified /\ ReportOfItsImage
                /\ FolderIsComplete /\ PairHasReport
<1> SUFFICES ASSUME ImageInv
             PROVE  /\ ImageTypeOK /\ ReportMeansVerified /\ ReportOfItsImage
                    /\ FolderIsComplete /\ PairHasReport
  OBVIOUS
<1>1. /\ ImageTypes /\ FolderOK /\ \A f \in Names : ReportOK(f)
      /\ \A m \in Makers : StrangeOK(m) /\ PrivateOK(m) /\ PairOK(m)
  BY DEF ImageInv
<1>2. ReportMeansVerified
  <2>1. ASSUME NEW f \in Names, NEW m \in Makers, reports[f].by = m, f \in strange[m]
        PROVE  FALSE
    <3>1. PICK i \in ImagesOf(m) : job[m].names[i] = f /\ Did(m, "report", i)
      BY <1>1, <2>1 DEF ReportOK
    <3>2. \E w \in WeightFiles : ~Checked(m, w, i)
      BY <1>1, <2>1, <3>1 DEF StrangeOK
    <3>3. QED
      BY <1>1, <3>1, <3>2, ReportedChecked
  <2>2. QED
    BY <2>1 DEF ReportMeansVerified
<1>3. ReportOfItsImage
  <2>1. ASSUME NEW f \in Names, NEW m \in Makers, reports[f].by = m, reports[f].of = pictures[f], ~job[m].overwrite
        PROVE  pictures[f] = m \/ (pictures[f] \in Makers /\ job[pictures[f]].overwrite)
    BY <1>1, <2>1 DEF ReportOK, Entitled
  <2>2. QED
    BY <2>1 DEF ReportOfItsImage
<1>4. FolderIsComplete
  <2>1. ASSUME NEW m \in Makers, folder.by = m
        PROVE  folder.holds = 0..Len(job[m].names) /\ strange[m] = {}
    <3>1. job[m].way = "folder" /\ at[m] = Len(Program(m)) /\ folder.holds = private[m]
      BY <1>1, <2>1 DEF FolderOK
    <3>2. \A i \in ImagesOf(m) : Did(m, "manifest", 1) /\ Did(m, "stage", i) /\ \A w \in WeightFiles : Checked(m, w, i)
      BY <1>1, <3>1, DoneAtEnd
    <3>3. strange[m] = {}
      BY <1>1, <3>2 DEF StrangeOK
    <3>4. Len(job[m].names) \in Nat \ {0}
      BY <1>1, ProgramShape DEF ImageTypes, ImageTypeOK
    <3>5. \A i \in 0..Len(job[m].names) : IF i = 0 THEN Did(m, "manifest", 1) ELSE Did(m, "stage", i)
      BY <3>2, <3>4 DEF ImagesOf
    <3>6. QED
      BY <1>1, <3>1, <3>3, <3>5 DEF PrivateOK
  <2>2. QED
    BY <2>1 DEF FolderIsComplete
<1>5. PairHasReport
  <2>1. ASSUME NEW m \in Makers, NEW f \in Names, job[m].way = "pair", pictures[f] = m
        PROVE  reports[f].by = m \/ (reports[f].by \in Makers /\ job[reports[f].by].overwrite)
    BY <1>1, <2>1 DEF PairOK, Linked, Entitled
  <2>2. QED
    BY <2>1 DEF PairHasReport
<1>6. QED
  BY <1>1, <1>2, <1>3, <1>4, <1>5 DEF ImageTypes

\* A step replaces what is there only for a run with --overwrite.
LEMMA StepReplacesNothing ==
    ASSUME ImageInv, [ImageNext]_imageVars
    PROVE  /\ \A f \in Names : pictures[f] # Blank /\ pictures'[f] # pictures[f] =>
                pictures'[f] \in Makers /\ job[pictures'[f]].overwrite
           /\ \A f \in Names : reports[f] # NoReport /\ reports'[f] # reports[f] =>
                \/ reports'[f].by \in Makers /\ job[reports'[f].by].overwrite
                \/ reports'[f] = NoReport
           /\ folder.by # Blank => folder'.by = folder.by
<1>1. /\ pictures \in [Names -> Owners] /\ reports \in [Names -> [by : Owners, of : Owners]]
      /\ folder \in [by : Owners, holds : SUBSET Nat]
  BY DEF ImageInv, ImageTypes, ImageTypeOK
<1>2. ASSUME NEW m \in Makers, Picture(m)
      PROVE  /\ \A f \in Names : pictures[f] # Blank /\ pictures'[f] # pictures[f] => pictures'[f] = m /\ job[m].overwrite
             /\ reports' = reports /\ folder' = folder
  BY <1>1, <1>2 DEF Picture
<1>3. ASSUME NEW m \in Makers, Report(m)
      PROVE  /\ \A f \in Names : reports[f] # NoReport /\ reports'[f] # reports[f] => reports'[f].by = m /\ job[m].overwrite
             /\ pictures' = pictures /\ folder' = folder
  <2>1. PICK g : g = NameOf(m)
    OBVIOUS
  <2>2. PICK r : r.by = m /\ r = [by |-> m, of |-> digest[m][NameOf(m)]]
    OBVIOUS
  <2>3. reports' = [reports EXCEPT ![g] = r] /\ (job[m].overwrite \/ reports[g] = NoReport)
    BY <1>3, <2>1, <2>2 DEF Report
  <2>4. QED
    BY <1>1, <1>3, <2>2, <2>3 DEF Report
<1>4. ASSUME NEW m \in Makers, Complete(m) \/ Fail(m) \/ Kill(m)
      PROVE  /\ \A f \in Names : reports'[f] = reports[f] \/ reports'[f] = NoReport
             /\ pictures' = pictures /\ folder' = folder
  BY <1>1, <1>4 DEF Complete, Fail, Kill
<1>5. ASSUME NEW m \in Makers, Stage(m)
      PROVE  pictures' = pictures /\ reports' = reports /\ folder'.by = folder.by
  <2>1. PICK h : h = private'[m]
    OBVIOUS
  <2>2. folder' = IF folder.by = m THEN [folder EXCEPT !.holds = h] ELSE folder
    BY <1>5, <2>1 DEF Stage
  <2>3. QED
    BY <1>1, <1>5, <2>2 DEF Stage
<1>6. ASSUME NEW m \in Makers, PublishFolder(m)
      PROVE  pictures' = pictures /\ reports' = reports /\ folder.by = Blank
  BY <1>6 DEF PublishFolder
<1>7. Intrude => pictures' = pictures /\ reports' = reports /\ folder.by = Blank
  BY DEF Intrude
<1>8. ASSUME NEW m \in Makers, Resolve(m) \/ Render(m) \/ Digest(m) \/ \E w \in WeightFiles : Verify(m, w)
      PROVE  pictures' = pictures /\ reports' = reports /\ folder' = folder
  BY <1>8 DEF Resolve, Render, Digest, Verify
<1>9. (\E w \in WeightFiles : EditWeights(w)) \/ UNCHANGED imageVars =>
          pictures' = pictures /\ reports' = reports /\ folder' = folder
  BY DEF EditWeights, imageVars
<1>10. QED
  BY <1>2, <1>3, <1>4, <1>5, <1>6, <1>7, <1>8, <1>9 DEF ImageNext

\* What is published is true and whole, in whatever way and between whatever steps a run ends,
\* and is not replaced without --overwrite: for any runs, names, jobs and states of the weights.
THEOREM ImagesTrue == ImageSpec => PublishedImagesAreTrue
<1>1. ImageInv /\ [ImageNext]_imageVars =>
        [/\ \A f \in Names : pictures[f] # Blank /\ pictures'[f] # pictures[f] =>
                pictures'[f] \in Makers /\ job[pictures'[f]].overwrite
         /\ \A f \in Names : reports[f] # NoReport /\ reports'[f] # reports[f] =>
                \/ reports'[f].by \in Makers /\ job[reports'[f].by].overwrite
                \/ reports'[f] = NoReport
         /\ folder.by # Blank => folder'.by = folder.by]_imageVars
  BY StepReplacesNothing
<1>2. QED
  BY <1>1, ImageInitInv, ImageNextInv, ImageInvFollows, PTL
  DEF ImageSpec, PublishedImagesAreTrue, NothingReplaced

-----------------------------------------------------------------------------
(* ConvertedWeights *)

KeysApart == \A s, t \in Sources : Key(s) = Key(t) => s = t

USE DEF Nowhere, NoManifest

-----------------------------------------------------------------------------
(* The inductive invariant *)

CacheFiles == [of : SUBSET Sources, by : SUBSET (Converters \cup {"damaged"})]
CacheKeys  == {Key(s) : s \in Sources}

\* What is in the caches, the target and the private directories are files.
CopyFilesOK ==
    /\ copies \in [CacheKeys -> CacheFiles]
    /\ manifests \in [CacheKeys -> [names : 0..MaxSource, copy : CacheFiles]]
    /\ folders \in [Sources -> CacheFiles]
    /\ target \in CacheFiles
    /\ made \in [Converters -> CacheFiles]
    /\ described \in [Converters -> CacheFiles]

ConvertersOK ==
    /\ source \in Sources /\ losses \in 0..MaxLosses /\ hashed \in BOOLEAN
    /\ product \in [Converters -> Products] /\ stepOf \in [Converters -> ConverterSpots]
    /\ wanted \in [Converters -> 0..MaxSource]

\* Where a converter is says what it makes and what it has read so far: of the input it
\* identified and of those that replaced it, and of no other.
Progress(c) ==
    /\ stepOf[c] = "start" => made[c].of = {}
    /\ stepOf[c] \notin {"start", "failed"} => wanted[c] \in 1..source
    /\ stepOf[c] = "look" => made[c].of = {} /\ product[c] # "dit"
    /\ stepOf[c] \in {"convert", "verify"} => made[c].of \subseteq wanted[c]..source
    /\ stepOf[c] = "verify" => made[c].of # {}
    /\ stepOf[c] \in {"publish", "manifest", "rename"} => made[c].of = {wanted[c]}
    /\ stepOf[c] \in {"manifest", "rename"} => product[c] = "q8"
    /\ stepOf[c] = "rename" => described[c].of # {}
    /\ stepOf[c] = "confirm" => product[c] = "checkpoint"

\* A copy was made from the source whose key it has; a directory from that of its name, unless
\* it was damaged.
CopyOfItsKey  == \A s \in Sources : copies[Key(s)] = Nowhere \/ copies[Key(s)].of = {s}
FolderOfItsId == \A s \in Sources :
    \/ folders[s] = Nowhere
    \/ folders[s].of = {s}
    \/ folders[s].by = {"damaged"}

ConversionInv ==
    /\ ConvertersOK /\ CopyFilesOK
    /\ \A c \in Converters : Progress(c)
    /\ CopyOfItsKey /\ FolderOfItsId

-----------------------------------------------------------------------------
(* Every step keeps it *)

\* The type that the run checks follows.
LEMMA TypeFollows == ConversionInv => ConversionTypeOK
<1> SUFFICES ASSUME ConversionInv PROVE ConversionTypeOK
  OBVIOUS
<1>1. ASSUME NEW c \in Converters
      PROVE  /\ made[c].of \subseteq Sources /\ described[c].of \subseteq Sources
             /\ stepOf[c] \in {"publish", "manifest", "rename"} => made[c].of # {}
             /\ stepOf[c] = "rename" => described[c].of # {}
  BY DEF ConversionInv, CopyFilesOK, CacheFiles, Progress
<1>2. QED
  BY <1>1 DEF ConversionInv, ConvertersOK, ConversionTypeOK

\* The invariant holds at first.
LEMMA InitConversion == ConversionInit => ConversionInv
<1> SUFFICES ASSUME ConversionInit PROVE ConversionInv
  OBVIOUS
<1>1. ConvertersOK
  BY ConversionAssumption DEF ConversionInit, ConvertersOK, Sources, ConverterSpots
<1>2. CopyFilesOK
  <2>1. Nowhere \in CacheFiles
    BY DEF CacheFiles
  <2>2. NoManifest \in [names : 0..MaxSource, copy : CacheFiles]
    BY <2>1, ConversionAssumption
  <2>3. QED
    BY <2>1, <2>2 DEF ConversionInit, CopyFilesOK, CacheKeys
<1>3. \A c \in Converters : Progress(c)
  BY DEF ConversionInit, Progress
<1>4. CopyOfItsKey /\ FolderOfItsId
  BY DEF ConversionInit, CopyOfItsKey, FolderOfItsId
<1>5. QED
  BY <1>1, <1>2, <1>3, <1>4 DEF ConversionInv

\* A converter past its first step identified a state of the input that has been, and the
\* key of that state is one of the cache's.
LEMMA WantedType ==
    ASSUME ConvertersOK, NEW c \in Converters, Progress(c), stepOf[c] \notin {"start", "failed"}
    PROVE  wanted[c] \in Sources /\ Key(wanted[c]) \in CacheKeys
BY DEF ConvertersOK, Progress, Sources, CacheKeys

\* Every step keeps the types.
LEMMA NextConverters == ConversionInv /\ [ConversionNext]_conversionVars => ConvertersOK'
<1> SUFFICES ASSUME ConversionInv, [ConversionNext]_conversionVars PROVE ConvertersOK'
  OBVIOUS
<1> USE ConversionAssumption DEF ConversionInv, ConvertersOK, ConverterSpots, Sources, Go
<1>1. ASSUME NEW c \in Converters, Identify(c) PROVE ConvertersOK'
  BY <1>1 DEF Identify
<1>2. ASSUME NEW c \in Converters, Lookup(c) PROVE ConvertersOK'
  BY <1>2 DEF Lookup, CachedResult
<1>3. ASSUME NEW c \in Converters, Convert(c) PROVE ConvertersOK'
  BY <1>3 DEF Convert
<1>4. ASSUME NEW c \in Converters, VerifyInputs(c) PROVE ConvertersOK'
  BY <1>4 DEF VerifyInputs
<1>5. ASSUME NEW c \in Converters, RenameCopy(c) \/ DescribeCopy(c) \/ RenameManifest(c)
      PROVE  ConvertersOK'
  BY <1>5 DEF RenameCopy, DescribeCopy, RenameManifest
<1>6. ASSUME NEW c \in Converters, RenameFolder(c) \/ ConfirmFolder(c) PROVE ConvertersOK'
  BY <1>6 DEF RenameFolder, ConfirmFolder, CachedResult
<1>7. ASSUME NEW c \in Converters, LinkTarget(c) \/ Die(c) PROVE ConvertersOK'
  BY <1>7 DEF LinkTarget, Die
<1>8. ASSUME EditSource \/ Lose PROVE ConvertersOK'
  BY <1>8 DEF EditSource, Lose
<1>9. CASE UNCHANGED conversionVars
  BY <1>9 DEF conversionVars
<1>10. QED
  BY <1>1, <1>2, <1>3, <1>4, <1>5, <1>6, <1>7, <1>8, <1>9 DEF ConversionNext

\* Every step leaves files where there were files.
LEMMA NextCopyFiles == ConversionInv /\ [ConversionNext]_conversionVars => CopyFilesOK'
<1> SUFFICES ASSUME ConversionInv, [ConversionNext]_conversionVars PROVE CopyFilesOK'
  OBVIOUS
<1> USE ConversionAssumption DEF ConversionInv, ConvertersOK, CopyFilesOK, Sources
<1>1. ASSUME NEW c \in Converters,
             Identify(c) \/ Lookup(c) \/ VerifyInputs(c) \/ ConfirmFolder(c) \/ Die(c)
      PROVE  CopyFilesOK'
  BY <1>1 DEF Identify, Lookup, VerifyInputs, ConfirmFolder, Die
<1>2. ASSUME NEW c \in Converters, Convert(c) PROVE CopyFilesOK'
  <2>1. [of |-> made[c].of \cup {source}, by |-> {c}] \in CacheFiles
    BY DEF CacheFiles
  <2>2. QED
    BY <1>2, <2>1 DEF Convert
<1>3. ASSUME NEW c \in Converters, RenameCopy(c) PROVE CopyFilesOK'
  BY <1>3 DEF RenameCopy
<1>4. ASSUME NEW c \in Converters, DescribeCopy(c) PROVE CopyFilesOK'
  <2>1. Key(wanted[c]) \in CacheKeys
    BY <1>4, WantedType DEF DescribeCopy
  <2>2. QED
    BY <1>4, <2>1 DEF DescribeCopy
<1>5. ASSUME NEW c \in Converters, RenameManifest(c) PROVE CopyFilesOK'
  <2>1. [names |-> wanted[c], copy |-> described[c]] \in [names : 0..MaxSource, copy : CacheFiles]
    OBVIOUS
  <2>2. QED
    BY <1>5, <2>1 DEF RenameManifest
<1>6. ASSUME NEW c \in Converters, RenameFolder(c) \/ LinkTarget(c) PROVE CopyFilesOK'
  BY <1>6 DEF RenameFolder, LinkTarget
<1>7. CASE EditSource
  BY <1>7 DEF EditSource
<1>8. CASE Lose
  <2>1. /\ Nowhere \in CacheFiles
        /\ [of |-> {}, by |-> {"damaged"}] \in CacheFiles
        /\ NoManifest \in [names : 0..MaxSource, copy : CacheFiles]
    BY DEF CacheFiles
  <2>2. QED
    BY <1>8, <2>1 DEF Lose
<1>9. CASE UNCHANGED conversionVars
  BY <1>9 DEF conversionVars
<1>10. QED
  BY <1>1, <1>2, <1>3, <1>4, <1>5, <1>6, <1>7, <1>8, <1>9 DEF ConversionNext

\* Every converter's progress stays true.
LEMMA NextProgress ==
    ConversionInv /\ [ConversionNext]_conversionVars => \A c \in Converters : Progress(c)'
<1> SUFFICES ASSUME ConversionInv, [ConversionNext]_conversionVars, NEW d \in Converters
             PROVE  Progress(d)'
  OBVIOUS
<1> USE ConversionAssumption DEF ConversionInv, ConvertersOK, Sources, ConverterSpots, Go, Progress
<1>1. ASSUME NEW c \in Converters, Identify(c) PROVE Progress(d)'
  BY <1>1 DEF Identify, Products
<1>2. ASSUME NEW c \in Converters, Lookup(c) PROVE Progress(d)'
  BY <1>2 DEF Lookup, CachedResult
<1>3. ASSUME NEW c \in Converters, Convert(c) PROVE Progress(d)'
  <2>1. CASE d # c
    BY <1>3, <2>1 DEF Convert, CopyFilesOK
  <2>2. CASE d = c
    <3>1. /\ made[c].of \subseteq wanted[c]..source /\ wanted[c] \in 1..source
          /\ made'[c].of = made[c].of \cup {source}
          /\ stepOf'[c] \in {"convert", "verify"}
          /\ wanted' = wanted /\ source' = source
      BY <1>3 DEF Convert, CopyFilesOK
    <3>2. QED
      BY <2>2, <3>1
  <2>3. QED
    BY <2>1, <2>2
<1>4. ASSUME NEW c \in Converters, VerifyInputs(c) PROVE Progress(d)'
  BY <1>4 DEF VerifyInputs
<1>5. ASSUME NEW c \in Converters, RenameCopy(c) PROVE Progress(d)'
  BY <1>5 DEF RenameCopy
<1>6. ASSUME NEW c \in Converters, DescribeCopy(c) PROVE Progress(d)'
  <2>1. copies[Key(wanted[c])] = Nowhere \/ copies[Key(wanted[c])].of = {wanted[c]}
    BY <1>6, WantedType DEF DescribeCopy, CopyOfItsKey
  <2>2. QED
    BY <1>6, <2>1 DEF DescribeCopy, CopyFilesOK
<1>7. ASSUME NEW c \in Converters, RenameManifest(c) PROVE Progress(d)'
  BY <1>7 DEF RenameManifest
<1>8. ASSUME NEW c \in Converters, RenameFolder(c) PROVE Progress(d)'
  BY <1>8 DEF RenameFolder
<1>9. ASSUME NEW c \in Converters, ConfirmFolder(c) PROVE Progress(d)'
  BY <1>9 DEF ConfirmFolder, CachedResult
<1>10. ASSUME NEW c \in Converters, LinkTarget(c) \/ Die(c) PROVE Progress(d)'
  BY <1>10 DEF LinkTarget, Die
<1>11. CASE EditSource
  BY <1>11 DEF EditSource
<1>12. CASE Lose
  BY <1>12 DEF Lose
<1>13. CASE UNCHANGED conversionVars
  BY <1>13 DEF conversionVars
<1>14. QED
  BY <1>1, <1>2, <1>3, <1>4, <1>5, <1>6, <1>7, <1>8, <1>9, <1>10, <1>11, <1>12, <1>13
  DEF ConversionNext

\* The copies stay what their keys say: only a rename puts one there, of the source that was
\* identified and verified.
LEMMA NextCopies ==
    ASSUME KeysApart
    PROVE  ConversionInv /\ [ConversionNext]_conversionVars => CopyOfItsKey'
<1> SUFFICES ASSUME ConversionInv, [ConversionNext]_conversionVars PROVE CopyOfItsKey'
  OBVIOUS
<1> USE DEF ConversionInv, CopyOfItsKey
<1>1. ASSUME NEW c \in Converters, RenameCopy(c) PROVE CopyOfItsKey'
  <2> SUFFICES ASSUME NEW s \in Sources
               PROVE  copies'[Key(s)] = Nowhere \/ copies'[Key(s)].of = {s}
    OBVIOUS
  <2>1. made[c].of = {wanted[c]} /\ wanted[c] \in Sources /\ Key(s) \in CacheKeys
    BY <1>1, WantedType DEF RenameCopy, Progress, CacheKeys
  <2>2. CASE Key(s) = Key(wanted[c])
    BY <1>1, <2>1, <2>2 DEF RenameCopy, KeysApart, CopyFilesOK
  <2>3. CASE Key(s) # Key(wanted[c])
    BY <1>1, <2>1, <2>3 DEF RenameCopy, CopyFilesOK
  <2>4. QED
    BY <2>2, <2>3
<1>2. CASE Lose
  <2>1. copies' = copies \/ \E k \in CacheKeys : copies' = [copies EXCEPT ![k] = Nowhere]
    BY <1>2 DEF Lose, CopyFilesOK
  <2>2. \A k \in CacheKeys : copies'[k] = copies[k] \/ copies'[k] = Nowhere
    BY <2>1 DEF CopyFilesOK
  <2>3. \A s \in Sources : Key(s) \in CacheKeys
    BY DEF CacheKeys
  <2>4. QED
    BY <2>2, <2>3
<1>3. CASE UNCHANGED copies
  BY <1>3
<1>4. QED
  BY <1>1, <1>2, <1>3 DEF ConversionNext, conversionVars, Identify, Lookup, Convert,
     VerifyInputs, DescribeCopy, RenameManifest, RenameFolder, ConfirmFolder, LinkTarget, Die,
     EditSource

\* The directories stay what their names say, or damaged.
LEMMA NextFolders == ConversionInv /\ [ConversionNext]_conversionVars => FolderOfItsId'
<1> SUFFICES ASSUME ConversionInv, [ConversionNext]_conversionVars PROVE FolderOfItsId'
  OBVIOUS
<1> USE DEF ConversionInv, FolderOfItsId
<1>1. ASSUME NEW c \in Converters, RenameFolder(c) PROVE FolderOfItsId'
  <2>1. made[c].of = {wanted[c]} /\ wanted[c] \in Sources
    BY <1>1, WantedType DEF RenameFolder, Progress
  <2>2. QED
    BY <1>1, <2>1 DEF RenameFolder, CopyFilesOK
<1>2. CASE Lose
  <2>1. folders' = folders
        \/ \E s \in Sources : folders' = [folders EXCEPT ![s] = [of |-> {}, by |-> {"damaged"}]]
    BY <1>2 DEF Lose
  <2>2. \A s \in Sources : folders'[s] = folders[s] \/ folders'[s].by = {"damaged"}
    BY <2>1 DEF CopyFilesOK
  <2>3. QED
    BY <2>2
<1>3. CASE UNCHANGED folders
  BY <1>3
<1>4. QED
  BY <1>1, <1>2, <1>3 DEF ConversionNext, conversionVars, Identify, Lookup, Convert,
     VerifyInputs, RenameCopy, DescribeCopy, RenameManifest, ConfirmFolder, LinkTarget, Die,
     EditSource

\* The invariant is inductive.
LEMMA NextConversion ==
    ASSUME KeysApart
    PROVE  ConversionInv /\ [ConversionNext]_conversionVars => ConversionInv'
BY NextConverters, NextCopyFiles, NextProgress, NextCopies, NextFolders DEF ConversionInv

-----------------------------------------------------------------------------
(* What the run checks *)

\* A valid copy is of the source its manifest names.
LEMMA ManifestFollows == ConversionInv => ManifestNamesItsSource
BY DEF ConversionInv, CopyOfItsKey, ManifestNamesItsSource, ValidCopy

\* What CachedResult accepts is the conversion of the identity, or damaged where no digest is
\* compared.
LEMMA CachedFollows ==
    ASSUME ConversionInv, NEW c \in Converters, wanted[c] \in Sources, CachedResult(c) = "done"
    PROVE  /\ folders[wanted[c]].of = {wanted[c]} \/ (~hashed /\ folders[wanted[c]].by = {"damaged"})
           /\ wanted[c] = source
BY DEF ConversionInv, FolderOfItsId, CachedResult, ValidFolder

\* A step of a converter to "done" returns the conversion of what it identified, and a
\* checkpoint's only while it is the present one.
LEMMA StepReturns ==
    ASSUME KeysApart, ConversionInv, ConversionInv', ConversionNext,
           NEW c \in Converters, stepOf[c] # "done", stepOf'[c] = "done"
    PROVE  /\ Result(c)'.of = {wanted[c]} \/ (~hashed /\ Result(c)'.by = {"damaged"})
           /\ product[c] = "checkpoint" => wanted[c] = source
<1> USE DEF ConversionInv, ConvertersOK, Go
<1>1. PICK d \in Converters :
        \/ Lookup(d) \/ VerifyInputs(d) \/ RenameManifest(d) \/ ConfirmFolder(d) \/ LinkTarget(d)
  BY DEF ConversionNext, Identify, Convert, RenameCopy, DescribeCopy, RenameFolder, Die,
     EditSource, Lose
<1>2. d = c
  BY <1>1 DEF Lookup, VerifyInputs, RenameManifest, ConfirmFolder, LinkTarget
<1>3. /\ wanted' = wanted /\ product' = product /\ hashed' = hashed /\ source' = source
      /\ stepOf[c] \notin {"start", "failed"}
  BY <1>1, <1>2 DEF Lookup, VerifyInputs, RenameManifest, ConfirmFolder, LinkTarget
<1>4. wanted[c] \in Sources
  BY <1>3, WantedType
<1>5. /\ copies'[Key(wanted[c])] = Nowhere \/ copies'[Key(wanted[c])].of = {wanted[c]}
  BY <1>4 DEF CopyOfItsKey
<1>6. CASE Lookup(c)
  <2>1. CASE product[c] = "q8"
    BY <1>3, <1>5, <1>6, <2>1 DEF Lookup, Result, ValidCopy
  <2>2. CASE product[c] = "checkpoint"
    BY <1>3, <1>4, <1>6, <2>2, CachedFollows DEF Lookup, Result
  <2>3. CASE product[c] = "dit"
    BY <1>6, <2>3 DEF Lookup, Progress
  <2>4. QED
    BY <2>1, <2>2, <2>3 DEF Products
<1>7. CASE VerifyInputs(c)
  BY <1>3, <1>4, <1>5, <1>7 DEF VerifyInputs, Result, ValidCopy
<1>8. CASE RenameManifest(c)
  BY <1>3, <1>4, <1>5, <1>8 DEF RenameManifest, Result, Progress
<1>9. CASE ConfirmFolder(c)
  BY <1>3, <1>4, <1>9, CachedFollows DEF ConfirmFolder, Result, Progress
<1>10. CASE LinkTarget(c)
  BY <1>3, <1>4, <1>10 DEF LinkTarget, Result, Progress
<1>11. QED
  BY <1>1, <1>2, <1>6, <1>7, <1>8, <1>9, <1>10

\* No step replaces the output of a DiT conversion that is there.
LEMMA StepKeepsTarget == ConversionNext /\ target # Nowhere => target' = target
BY DEF ConversionNext, Identify, Lookup, Convert, VerifyInputs, RenameCopy, DescribeCopy,
   RenameManifest, RenameFolder, ConfirmFolder, LinkTarget, Die, EditSource, Lose

\* While no two states of a source have one key, a manifest that names a source vouches for copies
\* made from it only (NativeDiskCache.hpp, prepareQ8Cache).
THEOREM ManifestsTrue == ASSUME KeysApart PROVE ConversionSpec => []ManifestNamesItsSource
BY InitConversion, NextConversion, ManifestFollows, PTL DEF ConversionSpec

\* What is returned from the caches is the conversion of what it is taken for, and the output of
\* a conversion on request is never replaced, whatever is edited, lost, damaged or killed between
\* any two steps of any number of processes.
THEOREM ConversionsTrue == ASSUME KeysApart PROVE ConversionSpec => ConversionsAreTrue
<1>1. ConversionInv /\ ConversionInv' /\ [ConversionNext]_conversionVars =>
        /\ [\A c \in Converters : stepOf[c] # "done" /\ stepOf'[c] = "done" =>
              \/ Result(c)'.of = {wanted[c]}
              \/ ~hashed /\ Result(c)'.by = {"damaged"}]_conversionVars
        /\ [\A c \in Converters :
              product[c] = "checkpoint" /\ stepOf[c] # "done" /\ stepOf'[c] = "done" =>
                wanted[c] = source]_conversionVars
        /\ [target # Nowhere => target' = target]_conversionVars
  BY StepReturns, StepKeepsTarget
<1>2. QED
  BY <1>1, InitConversion, NextConversion, TypeFollows, PTL
  DEF ConversionSpec, ConversionsAreTrue, ReturnsConversion, CheckpointOfPresentSource,
      TargetNeverReplaced
=============================================================================
