----------------------------- MODULE RemoteBatch -----------------------------
(***************************************************************************)
(* A batch of images from a remote model                                   *)
(* (src/reference/diffusers/remote_generation.py, generation_output.py):   *)
(* every image is decoded into a private directory, then the images and    *)
(* their reports are linked into place one by one, with a lock file named  *)
(* after --output.  A client is one run of the command; it may fail at any *)
(* call or be killed.  The content of a file is the client that made it.   *)
(***************************************************************************)
EXTENDS Sequences, SequencesExt, Naturals

CONSTANTS
    Clients,        \* runs of the command
    Someone,        \* whoever put other files into the directory
    Redirect,       \* a symlink or directory in the place of a file
    NoFile,         \* nothing there
    Bases,          \* values of --output
    TargetsOf,      \* base -> images and reports of the batch, in publication order
    Numbered,       \* the default base and its -run-0002, ... alternatives
    BatchRequests,  \* arguments: base, default, overwrite, config
    BatchRemains    \* bound: what may be in the directory before

BatchFiles == UNION {ToSet(TargetsOf[b]) : b \in Bases}

ASSUME BatchAssumption ==
    /\ NoFile \notin Clients \cup {Someone, Redirect}
    /\ {Someone, Redirect} \cap Clients = {}
    /\ TargetsOf \in [Bases -> Seq(BatchFiles)]
    /\ \A b \in Bases : Len(TargetsOf[b]) > 0
    /\ \A b \in Bases : IsInjective(TargetsOf[b])
    /\ Numbered \in Seq(Bases)
    /\ BatchRequests \subseteq [base : Bases, default : BOOLEAN, overwrite : BOOLEAN,
                                config : BatchFiles \cup {NoFile}]
    /\ BatchRemains \subseteq [BatchFiles -> {NoFile, Someone, Redirect}]

VARIABLES
    outputs,    \* file -> what is there
    batchLock,  \* base -> the client whose lock file is there
    ask,        \* client -> its arguments
    base,       \* client -> args.output
    step,       \* client -> where generate_image() is
    position,   \* client -> files staged (infer) or published (publish, undo)
    backups     \* client -> file -> what its temporary directory keeps of it

batchVars == <<outputs, batchLock, ask, base, step, position, backups>>

Files(c)     == TargetsOf[base[c]]
Existing(b)  == {f \in ToSet(TargetsOf[b]) : outputs[f] # NoFile}
Steps        == {"resolve", "lock", "infer", "publish", "undo", "restore", "unlock", "complete",
                 "refused", "failed", "abandoned", "killed"}
Ended        == {"complete", "refused", "failed", "abandoned", "killed"}
\* The file that publish, or undo, is at.
Current(c)   == Files(c)[position[c] + 1]
Published(c) == {Files(c)[i] : i \in 1..position[c]}
Retired(c)   == {f \in BatchFiles : backups[c][f] # NoFile}

BatchInit ==
    /\ outputs \in BatchRemains
    /\ batchLock = [b \in Bases |-> NoFile]
    /\ ask \in [Clients -> BatchRequests]
    /\ base = [c \in Clients |-> ask[c].base]
    /\ step = [c \in Clients |-> "resolve"]
    /\ position = [c \in Clients |-> 0]
    /\ backups = [c \in Clients |-> [f \in BatchFiles |-> NoFile]]

GoOn(c, next) == step' = [step EXCEPT ![c] = next]

\* Mutant: the explicit paths only.
AcceptedMutant(c, b) == ask[c].overwrite \/ Existing(b) = {}

\* Nothing that may not be replaced, no directory of that name, not the request's own file.
Accepted(c, b) ==
    /\ ask[c].overwrite \/ Existing(b) = {}
    /\ ask[c].config \notin ToSet(TargetsOf[b])

\* resolve_output_paths(): the default name takes the first free number.
ResolveOutputPaths(c) ==
    /\ step[c] = "resolve"
    /\ \E b \in Bases :
        /\ IF ask[c].default /\ ~ask[c].overwrite
           THEN \E n \in DOMAIN Numbered :
                    /\ b = Numbered[n] /\ Existing(b) = {}
                    /\ \A k \in 1..(n - 1) : Existing(Numbered[k]) # {}
           ELSE b = ask[c].base
        /\ base' = [base EXCEPT ![c] = b]
        /\ \/ Accepted(c, b) /\ GoOn(c, "lock")
           \/ GoOn(c, "refused")        \* refused here, or RemoteInference is
    /\ UNCHANGED <<outputs, batchLock, ask, position, backups>>

\* provider.open(lock, "x"), outside the try statement.
TakeLock(c) ==
    /\ step[c] = "lock"
    /\ IF batchLock[base[c]] = NoFile
       THEN batchLock' = [batchLock EXCEPT ![base[c]] = c] /\ GoOn(c, "infer")
       ELSE GoOn(c, "refused") /\ UNCHANGED batchLock
    /\ UNCHANGED <<outputs, ask, base, position, backups>>

\* One response decoded, checked and staged with its report; then publication starts.
Infer(c) ==
    /\ step[c] = "infer"
    /\ IF position[c] < Len(Files(c))
       THEN position' = [position EXCEPT ![c] = @ + 1] /\ UNCHANGED step
       ELSE position' = [position EXCEPT ![c] = 0] /\ GoOn(c, "publish")
    /\ UNCHANGED <<outputs, batchLock, ask, base, backups>>

\* target.exists() and args.overwrite: the old file moves into the temporary directory.
Retire(c) ==
    /\ step[c] = "publish" /\ position[c] < Len(Files(c))
    /\ outputs[Current(c)] \notin {NoFile, Redirect}
    /\ ask[c].overwrite /\ backups[c][Current(c)] = NoFile
    /\ backups' = [backups EXCEPT ![c][Current(c)] = outputs[Current(c)]]
    /\ outputs' = [outputs EXCEPT ![Current(c)] = NoFile]
    /\ UNCHANGED <<batchLock, ask, base, step, position>>

\* Mutant: publish_file(overwrite=args.overwrite).
LinkOutputMutant(c) ==
    /\ step[c] = "publish" /\ position[c] < Len(Files(c))
    /\ outputs[Current(c)] # Redirect
    /\ outputs' = [outputs EXCEPT ![Current(c)] = c]
    /\ position' = [position EXCEPT ![c] = @ + 1]
    /\ UNCHANGED <<batchLock, ask, base, step, backups>>

\* publish_file(overwrite=False): a hard link, which fails if the target exists.
LinkOutput(c) ==
    /\ step[c] = "publish" /\ position[c] < Len(Files(c))
    /\ outputs[Current(c)] = NoFile
    /\ outputs' = [outputs EXCEPT ![Current(c)] = c]
    /\ position' = [position EXCEPT ![c] = @ + 1]
    /\ UNCHANGED <<batchLock, ask, base, step, backups>>

\* A redirected target, a link that fails, a response or a write that does.
Interrupt(c) ==
    /\ \/ step[c] = "infer" /\ GoOn(c, "unlock")
          /\ position' = [position EXCEPT ![c] = 0]
       \/ step[c] = "publish" /\ position[c] < Len(Files(c)) /\ GoOn(c, "undo")
          /\ UNCHANGED position
       \/ step[c] \in {"undo", "restore"} /\ GoOn(c, "abandoned") /\ UNCHANGED position
    /\ IF step[c] \in {"undo", "restore"}   \* the temporary directory and the lock go too
       THEN /\ backups' = [backups EXCEPT ![c] = [f \in BatchFiles |-> NoFile]]
            /\ batchLock' = [batchLock EXCEPT ![base[c]] = NoFile]
       ELSE UNCHANGED <<backups, batchLock>>
    /\ UNCHANGED <<outputs, ask, base>>

\* for target in reversed(published): target.unlink()
Undo(c) ==
    /\ step[c] = "undo"
    /\ IF position[c] = 0
       THEN GoOn(c, "restore") /\ UNCHANGED <<outputs, position>>
       ELSE /\ outputs' = [outputs EXCEPT ![Files(c)[position[c]]] = NoFile]
            /\ position' = [position EXCEPT ![c] = @ - 1]
            /\ UNCHANGED step
    /\ UNCHANGED <<batchLock, ask, base, backups>>

\* Mutant: the backups are left to the temporary directory.
RestoreMutant(c) ==
    /\ step[c] = "restore"
    /\ GoOn(c, "unlock")
    /\ backups' = [backups EXCEPT ![c] = [f \in BatchFiles |-> NoFile]]
    /\ UNCHANGED <<outputs, batchLock, ask, base, position>>

\* for backup, target in reversed(backups): provider.rename(backup, target)
Restore(c) ==
    /\ step[c] = "restore"
    /\ IF Retired(c) = {}
       THEN GoOn(c, "unlock") /\ UNCHANGED <<outputs, backups>>
       ELSE \E i \in DOMAIN Files(c) : LET f == Files(c)[i] IN
                /\ f \in Retired(c)
                /\ \A j \in (i + 1)..Len(Files(c)) : Files(c)[j] \notin Retired(c)
                /\ outputs' = [outputs EXCEPT ![f] = backups[c][f]]
                /\ backups' = [backups EXCEPT ![c][f] = NoFile]
                /\ UNCHANGED step
    /\ UNCHANGED <<batchLock, ask, base, position>>

\* The temporary directory is removed with the backups, then the lock.
Finish(c) ==
    /\ \/ step[c] = "publish" /\ position[c] = Len(Files(c)) /\ GoOn(c, "complete")
       \/ step[c] = "unlock" /\ GoOn(c, "failed")
    /\ backups' = [backups EXCEPT ![c] = [f \in BatchFiles |-> NoFile]]
    /\ batchLock' = [batchLock EXCEPT ![base[c]] = NoFile]
    /\ UNCHANGED <<outputs, ask, base, position>>

\* A killed client leaves its lock, its staged files and its backups.
KillClient(c) ==
    /\ step[c] \notin Ended
    /\ GoOn(c, "killed")
    /\ UNCHANGED <<outputs, batchLock, ask, base, position, backups>>

BatchNext == \E c \in Clients :
    \/ ResolveOutputPaths(c) \/ TakeLock(c) \/ Infer(c) \/ Retire(c) \/ LinkOutput(c)
    \/ Interrupt(c) \/ Undo(c) \/ Restore(c) \/ Finish(c) \/ KillClient(c)

BatchSpec == BatchInit /\ [][BatchNext]_batchVars

-----------------------------------------------------------------------------
Contents == Clients \cup {Someone, Redirect, NoFile}

\* Every variable keeps its type (generate_image, remote_generation.py:66).
BatchTypeOK ==
    /\ outputs \in [BatchFiles -> Contents]
    /\ batchLock \in [Bases -> Clients \cup {NoFile}]
    /\ ask \in [Clients -> BatchRequests]
    /\ base \in [Clients -> Bases]
    /\ step \in [Clients -> Steps]
    /\ position \in [Clients -> Nat] /\ \A c \in Clients : position[c] <= Len(Files(c))
    /\ backups \in [Clients -> [BatchFiles -> Contents]]

\* No two clients are past the lock of one --output, unless one was killed there
\* (lines 75-79, 119): a refused one must not take the other's lock away.
OnePublisher == \A c, d \in Clients :
    /\ c # d /\ base[c] = base[d]
    /\ {step[c], step[d]} \subseteq {"infer", "publish", "undo", "restore", "unlock"}
    => FALSE

\* A rollback only fills places that are free: what somebody else has published there
\* meanwhile is not replaced by the old file (lines 112-116).
RollbackReplacesNothing ==
    [][\A c \in Clients : step[c] = "restore" =>
          \A f \in BatchFiles : backups'[c][f] # backups[c][f] /\ outputs' # outputs
                                => outputs[f] = NoFile]_batchVars

\* The file the request was read from is never one of its outputs (lines 69-71), under a
\* default name or with --overwrite as well.
ConfigurationSurvives ==
    [][\A c \in Clients : ask[c].config # NoFile /\ outputs[ask[c].config] # NoFile =>
          \/ outputs'[ask[c].config] = outputs[ask[c].config]
          \/ step'[c] = step[c] /\ position'[c] = position[c] /\ backups'[c] = backups[c]]_batchVars

\* What a reader is entitled to find: the old file while its batch is being published or
\* undone, also where the client was killed in between and left its backups and its lock.
Hiding(f) == {c \in Clients : /\ step[c] \notin {"complete", "abandoned"}
                              /\ backups[c][f] # NoFile \/ outputs[f] = c}
Shown == [f \in BatchFiles |-> IF Hiding(f) = {} THEN outputs[f]
                               ELSE backups[CHOOSE c \in Hiding(f) : TRUE][f]]

Atomic == INSTANCE AtomicBatch WITH
    Publishers <- Clients, Places <- BatchFiles, Nothing <- NoFile,
    Batches <- {ToSet(TargetsOf[b]) : b \in Bases},
    shown <- Shown, replacing <- {c \in Clients : ask[c].overwrite},
    completed <- {c \in Clients : step[c] = "complete"},
    abandoned <- {c \in Clients : step[c] = "abandoned"}

\* A batch is published whole or not at all, and an old one is replaced only by a whole
\* one of a client that asked for --overwrite (lines 101-119).
PublishesAtomically == Atomic!AtomicSpec

\* What a batch keeps beside its own files: another client's lock, what somebody has published
\* meanwhile, and the file the request was read from (lines 69-79, 112-119).
BatchKept == [](BatchTypeOK /\ OnePublisher) /\ RollbackReplacesNothing /\ ConfigurationSurvives
=============================================================================
