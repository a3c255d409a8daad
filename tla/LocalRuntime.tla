---------------------------- MODULE LocalRuntime ----------------------------
(***************************************************************************)
(* Runs that let a ComfyUI server generate (comfyui_runtime.py), the       *)
(* user's own or one the run starts for itself (local_image.py).  A run    *)
(* finds a port, starts the server, waits for it, queues one job, records  *)
(* it, polls its history until a deadline, downloads the artifacts and     *)
(* writes its reports.  The server works on its own; requests, servers and *)
(* runs fail at any step, and model files are edited meanwhile.            *)
(***************************************************************************)
EXTENDS Naturals, FiniteSets

CONSTANTS
    Commands,
    Ports,     \* ports the system hands out
    UserPort,  \* where the user's own server listens
    OutDirs,   \* output directories
    Artifacts, \* what a job leaves on the server
    Nobody,
    Requests,  \* sets of runs: client -> mode and output directory
    MaxEdit    \* bound: versions of a model file

Modes   == {"external", "managed", "validate"}
Spots   == {"start", "probe", "startup", "check", "post", "record", "wait", "download",
            "stop", "verify", "publish", "done", "failed", "killed"}
Finals  == {"done", "failed", "killed"}
NoJob   == [state |-> "none", on |-> Nobody, version |-> 0]

ASSUME RuntimeAssumption ==
    /\ UserPort \notin Ports \cup Commands /\ Nobody \notin Commands \cup {UserPort}
    \* An artifact is published under its number and its name on the server.
    /\ Artifacts # {} /\ Artifacts \cap {"submission", "generation", "local"} = {}
    /\ MaxEdit \in Nat \ {0}
    /\ Requests \subseteq [Commands -> [mode : Modes, dir : OutDirs]]

VARIABLES
    mode,     \* client -> the user's server, a server of its own, or --validate-only
    outDir,   \* client -> its output directory
    spot,     \* client -> where it is
    why,      \* client -> "ok", "error" or "timeout", while it stops its server
    port,     \* client -> the port it was handed
    child,    \* client -> its server process: "none", "starting", "up" or "dead"
    listener, \* port -> who listens: a client's server, the user's (UserPort), or nobody
    expired,  \* client -> the deadline of the loop it is in has passed
    queued,   \* client -> its job: state, whose server has it, version of that model read
    model,    \* client -> version of the model file it was given
    staged,   \* client -> version that was staged and identified
    published \* directory -> files in it, <<name, client>>

runtimeVars == <<mode, outDir, spot, why, port, child, listener, expired, queued, model, staged, published>>

At(c, s)  == spot[c] = s
To(c, s)  == spot' = [spot EXCEPT ![c] = s]
Written(d)  == {f[1] : f \in published[d]}
Owner(c)  == listener[port[c]]

RuntimeInit ==
    /\ \E r \in Requests :
        mode = [c \in Commands |-> r[c].mode] /\ outDir = [c \in Commands |-> r[c].dir]
    /\ spot = [c \in Commands |-> "start"] /\ why = [c \in Commands |-> "ok"]
    /\ port = [c \in Commands |-> UserPort] /\ child = [c \in Commands |-> "none"]
    /\ listener = [p \in Ports \cup {UserPort} |-> IF p = UserPort THEN UserPort ELSE Nobody]
    /\ expired = [c \in Commands |-> FALSE] /\ queued = [c \in Commands |-> NoJob]
    /\ model = [c \in Commands |-> 1] /\ staged = [c \in Commands |-> 0]
    /\ published = [d \in OutDirs |-> {}]

\* An exception; the finally clause of managed_server() comes first.
GiveUp(c, reason) ==
    /\ why' = [why EXCEPT ![c] = reason]
    /\ To(c, IF child[c] = "none" THEN "failed" ELSE "stop")

\* prepare_work_directory(), stage_models(): links to the files and their identities.
StageModels(c) ==
    /\ At(c, "start")
    /\ staged' = [staged EXCEPT ![c] = model[c]]
    /\ To(c, IF mode[c] = "external" THEN "check" ELSE "probe")
    /\ UNCHANGED <<mode, outDir, why, port, child, listener, expired, queued, model, published>>

\* A socket is bound to any free port and closed again; the child gets its number.
StartServer(c) ==
    /\ At(c, "probe")
    /\ \E p \in Ports : listener[p] = Nobody /\ port' = [port EXCEPT ![c] = p]
    /\ child' = [child EXCEPT ![c] = "starting"] /\ expired' = [expired EXCEPT ![c] = FALSE]
    /\ To(c, "startup")
    /\ UNCHANGED <<mode, outDir, why, listener, queued, model, staged, published>>

\* The child listens on its port, or exits because the port is taken.
BindPort(c) ==
    /\ child[c] = "starting"
    /\ IF Owner(c) = Nobody
       THEN child' = [child EXCEPT ![c] = "up"] /\ listener' = [listener EXCEPT ![port[c]] = c]
       ELSE child' = [child EXCEPT ![c] = "dead"] /\ UNCHANGED listener
    /\ UNCHANGED <<mode, outDir, spot, why, port, expired, queued, model, staged, published>>

\* The loop of managed_server(): the process, then whoever answers on the port, then the time.
PollStartup(c) ==
    /\ At(c, "startup")
    /\ \/ child[c] = "dead" /\ GiveUp(c, "error")
       \/ child[c] # "dead" /\ Owner(c) # Nobody /\ To(c, "check") /\ UNCHANGED why
       \/ child[c] # "dead" /\ Owner(c) = Nobody /\ expired[c] /\ GiveUp(c, "timeout")
    /\ UNCHANGED <<mode, outDir, port, child, listener, expired, queued, model, staged, published>>

\* The graph is validated against /object_info, and the output directory must be empty.
CheckRequest(c) ==
    /\ At(c, "check")
    /\ IF mode[c] = "validate" THEN To(c, "stop") /\ UNCHANGED why
       ELSE IF Owner(c) = Nobody \/ published[outDir[c]] # {} THEN GiveUp(c, "error")
       ELSE To(c, "post") /\ UNCHANGED why
    /\ UNCHANGED <<mode, outDir, port, child, listener, expired, queued, model, staged, published>>

\* POST /prompt: the server queues the job, and its answer arrives or is lost.
PostPrompt(c) ==
    /\ At(c, "post") /\ Owner(c) # Nobody
    /\ queued' = [queued EXCEPT ![c] = [@ EXCEPT !.state = "queued", !.on = Owner(c)]]
    /\ \/ To(c, "record") /\ UNCHANGED why
       \/ GiveUp(c, "error")
    /\ UNCHANGED <<mode, outDir, port, child, listener, expired, model, staged, published>>

Publish(c, name) == published' = [published EXCEPT ![outDir[c]] = @ \cup {<<name, c>>}]

\* Mutant: a submission replaces the one that is there.
RecordSubmissionMutant(c) ==
    /\ At(c, "record")
    /\ Publish(c, "submission") /\ To(c, "wait") /\ UNCHANGED why
    /\ expired' = [expired EXCEPT ![c] = FALSE]
    /\ UNCHANGED <<mode, outDir, port, child, listener, queued, model, staged>>

\* submission.json, published by a link; then the deadline of wait_for_history() starts.
RecordSubmission(c) ==
    /\ At(c, "record")
    /\ IF "submission" \in Written(outDir[c]) THEN GiveUp(c, "error") /\ UNCHANGED published
       ELSE Publish(c, "submission") /\ To(c, "wait") /\ UNCHANGED why
    /\ expired' = [expired EXCEPT ![c] = FALSE]
    /\ UNCHANGED <<mode, outDir, port, child, listener, queued, model, staged>>

\* Mutant: the first answer with an entry ends the wait.
PollHistoryMutant(c) ==
    /\ At(c, "wait")
    /\ To(c, "download") /\ UNCHANGED why
    /\ UNCHANGED <<mode, outDir, port, child, listener, expired, queued, model, staged, published>>

\* Mutant: only an answer ends the wait.
PollForeverMutant(c) ==
    /\ At(c, "wait")
    /\ \/ queued[c].state = "error" /\ GiveUp(c, "error")
       \/ queued[c].state = "success" /\ To(c, "download") /\ UNCHANGED why
    /\ UNCHANGED <<mode, outDir, port, child, listener, expired, queued, model, staged, published>>

\* Without an answer, or with an error, the run ends; the deadline is looked at after the answer.
PollHistory(c) == LET answered == Owner(c) # Nobody /\ Owner(c) = queued[c].on IN
    /\ At(c, "wait")
    /\ \/ (~answered \/ queued[c].state = "error") /\ GiveUp(c, "error")
       \/ answered /\ queued[c].state = "success" /\ To(c, "download") /\ UNCHANGED why
       \/ answered /\ queued[c].state = "queued" /\ expired[c] /\ GiveUp(c, "timeout")
    /\ UNCHANGED <<mode, outDir, port, child, listener, expired, queued, model, staged, published>>

\* /view is copied to a private file and linked to its name; no name is replaced.
Download(c, a) ==
    /\ At(c, "download") /\ <<a, c>> \notin published[outDir[c]]
    /\ IF Owner(c) = Nobody \/ a \in Written(outDir[c])
       THEN GiveUp(c, "error") /\ UNCHANGED published
       ELSE Publish(c, a) /\ UNCHANGED <<spot, why>>
    /\ UNCHANGED <<mode, outDir, port, child, listener, expired, queued, model, staged>>

\* generation.json; a run on the user's server is over.
WriteGeneration(c) ==
    /\ At(c, "download") /\ \A a \in Artifacts : <<a, c>> \in published[outDir[c]]
    /\ IF "generation" \in Written(outDir[c]) THEN GiveUp(c, "error") /\ UNCHANGED published
       ELSE Publish(c, "generation") /\ To(c, IF mode[c] = "external" THEN "done" ELSE "stop") /\ UNCHANGED why
    /\ UNCHANGED <<mode, outDir, port, child, listener, expired, queued, model, staged>>

\* The finally clause: terminate, wait 15 seconds, kill.
StopServer(c) ==
    /\ At(c, "stop")
    /\ child' = [child EXCEPT ![c] = "dead"]
    /\ listener' = IF Owner(c) = c THEN [listener EXCEPT ![port[c]] = Nobody] ELSE listener
    /\ To(c, IF why[c] = "ok" THEN "verify" ELSE "failed")
    /\ UNCHANGED <<mode, outDir, why, port, expired, queued, model, staged, published>>

\* verify_identities(), verify_images().
VerifyStaged(c) ==
    /\ At(c, "verify")
    /\ To(c, IF staged[c] = model[c] THEN "publish" ELSE "failed")
    /\ UNCHANGED <<mode, outDir, why, port, child, listener, expired, queued, model, staged, published>>

\* local-image.json beside the images.
WriteLocalReport(c) ==
    /\ At(c, "publish")
    /\ IF mode[c] = "validate" THEN UNCHANGED published ELSE Publish(c, "local")
    /\ To(c, "done")
    /\ UNCHANGED <<mode, outDir, why, port, child, listener, expired, queued, model, staged>>

\* A read timeout, a full disk, an interrupt, an answer that is not JSON.
RunFails(c) ==
    /\ spot[c] \notin Finals \cup {"stop"}
    /\ GiveUp(c, "error")
    /\ UNCHANGED <<mode, outDir, port, child, listener, expired, queued, model, staged, published>>

KillRun(c) ==
    /\ spot[c] \notin Finals
    /\ To(c, "killed")
    /\ UNCHANGED <<mode, outDir, why, port, child, listener, expired, queued, model, staged, published>>

\* time.monotonic() passes the deadline.
PassDeadline(c) ==
    /\ ~expired[c] /\ spot[c] \in {"startup", "wait"}
    /\ expired' = [expired EXCEPT ![c] = TRUE]
    /\ UNCHANGED <<mode, outDir, spot, why, port, child, listener, queued, model, staged, published>>

\* A server executes a job: it reads the model in its own directory; or the job fails.  What
\* becomes of a job whose run is over is left out.
Execute(c) == LET o == queued[c].on IN
    /\ queued[c].state = "queued" /\ spot[c] \notin Finals /\ \E p \in DOMAIN listener : listener[p] = o
    /\ \E result \in {"success", "error"} :
          queued' = [queued EXCEPT ![c] = [@ EXCEPT !.state = result,
                     !.version = IF o = UserPort THEN model[c] ELSE model[o]]]
    /\ UNCHANGED <<mode, outDir, spot, why, port, child, listener, expired, model, staged, published>>

\* A server dies; nobody is left to notice when all runs are over.
CrashServer(p) == LET o == listener[p] IN
    /\ o # Nobody /\ \E c \in Commands : spot[c] \notin Finals
    /\ listener' = [listener EXCEPT ![p] = Nobody]
    /\ child' = IF o = UserPort THEN child ELSE [child EXCEPT ![o] = "dead"]
    /\ UNCHANGED <<mode, outDir, spot, why, port, expired, queued, model, staged, published>>

\* Edits before staging, or of a model that is not staged, make no difference.
EditModel(c) ==
    /\ model[c] < MaxEdit /\ mode[c] = "managed" /\ staged[c] # 0 /\ spot[c] \notin Finals
    /\ model' = [model EXCEPT ![c] = @ + 1]
    /\ UNCHANGED <<mode, outDir, spot, why, port, child, listener, expired, queued, staged, published>>

\* The steps a run takes by itself.
RunStep(c) ==
    \/ StageModels(c) \/ StartServer(c) \/ PollStartup(c) \/ CheckRequest(c)
    \/ PostPrompt(c) \/ RecordSubmission(c) \/ PollHistory(c) \/ WriteGeneration(c)
    \/ StopServer(c) \/ VerifyStaged(c) \/ WriteLocalReport(c)
    \/ \E a \in Artifacts : Download(c, a)

RuntimeNext ==
    \/ \E c \in Commands :
        \/ RunStep(c) \/ RunFails(c) \/ KillRun(c) \/ BindPort(c) \/ PassDeadline(c)
        \/ Execute(c) \/ EditModel(c)
    \/ \E p \in Ports \cup {UserPort} : CrashServer(p)

RuntimeSpec == RuntimeInit /\ [][RuntimeNext]_runtimeVars

-----------------------------------------------------------------------------
\* Every variable keeps its type (comfyui_runtime.py:241, local_image.py:207).
RuntimeTypeOK ==
    /\ mode \in [Commands -> Modes] /\ outDir \in [Commands -> OutDirs] /\ spot \in [Commands -> Spots]
    /\ why \in [Commands -> {"ok", "error", "timeout"}] /\ port \in [Commands -> Ports \cup {UserPort}]
    /\ child \in [Commands -> {"none", "starting", "up", "dead"}]
    /\ \A c \in Commands : mode[c] # "external" /\ spot[c] \in {"check", "post", "wait"} => port[c] \in Ports
    /\ \A p \in Ports : listener[p] # Nobody => port[listener[p]] = p /\ child[listener[p]] = "up"
    /\ model \in [Commands -> 1..MaxEdit] /\ staged \in [Commands -> 0..MaxEdit]

\* All files in an output directory are of one run, though several found it empty
\* (comfyui_runtime.py:278-293): submission.json is the lock.
OneRunPerDirectory == \A d \in OutDirs : Cardinality({f[2] : f \in published[d]}) <= 1

\* generation.json is there only with every artifact of a job that succeeded, whatever
\* became of the server meanwhile.
GenerationMeansArtifacts == \A d \in OutDirs, c \in Commands :
    <<"generation", c>> \in published[d] =>
        /\ queued[c].state = "success"
        /\ \A a \in Artifacts : <<a, c>> \in published[d]

\* The error of a timeout sends the user to submission.json: it is there, and of that job
\* (comfyui_runtime.py:204).
TimeoutIsRecorded == \A c \in Commands :
    why[c] = "timeout" /\ queued[c].state # "none" => <<"submission", c>> \in published[outDir[c]]

\* A run that ends by itself leaves no server behind, and frees no other run's port.
NoServerLeft == \A c \in Commands : spot[c] \in {"done", "failed"} =>
    child[c] \in {"none", "dead"} /\ \A p \in Ports : listener[p] # c

\* If the server that answered was the run's own, its report is about the model file it
\* names, not one that was edited while the server read it (local_image.py:159-174).
ReportOfStagedModel == \A c \in Commands : \A d \in OutDirs :
    <<"local", c>> \in published[d] /\ queued[c].on = c => queued[c].version = staged[c]

\* "Isolated, managed local runtime" (local_image.py): a managed run's image is made by its
\* own server, from its own model.
ImageOfItsModel == \A c \in Commands : \A d \in OutDirs :
    <<"local", c>> \in published[d] => queued[c].on = c

\* Runs that share a server, a port or an output directory do not get into each other's way, and
\* leave no server.
RunsStayApart == RuntimeTypeOK /\ OneRunPerDirectory /\ NoServerLeft

\* What a run reports is of the job it queued, of all of its artifacts, and of the model it names;
\* a run that gave up has left the job's record.
ReportsOfTheJob == GenerationMeansArtifacts /\ ReportOfStagedModel /\ TimeoutIsRecorded
=============================================================================
