--------------------------- MODULE AnimationOutput ---------------------------
(***************************************************************************)
(* How the animation generators publish a bundle                           *)
(* (src/reference/diffusers/animation_video.py): a video, a JSON report    *)
(* and a directory of frames, beside one another, by processes that may    *)
(* fail at any call or be killed.  A producer is one run of a generator.   *)
(*                                                                         *)
(* The content of a file is the producer that made it.  The file system    *)
(* operations are those of one volume: exclusive creation, hard link and   *)
(* replacement are atomic; filling and removing a directory are not.       *)
(***************************************************************************)
EXTENDS Sequences, FiniteSets, Naturals

CONSTANTS
    Producers,  \* runs of a generator
    User,       \* whoever put other files into the output directory
    None,       \* no file
    Outputs,    \* video paths
    Stem,       \* video path -> what its report and frames are named after
    Names,      \* the default path and its numbered alternatives, in order
    Requests,   \* the arguments of the producers
    FrameFiles, \* what a run puts into a frames directory: its manifest and images
    Others,     \* whatever else is in a frames directory
    Remains     \* bound: what a user may have put at the targets before

Kinds == {"report", "video", "frames"}
DirFiles == FrameFiles \cup {Others}
Modes == {"2D", "Interpolator", "Video"}

ASSUME AnimationAssumption ==
    /\ None \notin Producers \cup {User} \cup [DirFiles -> Producers \cup {User, None}]
    /\ User \notin Producers
    /\ Stem \in [Outputs -> Outputs]
    /\ Names \in Seq(Outputs)
    /\ Requests \subseteq [output : Outputs, default : BOOLEAN,
                           overwrite : BOOLEAN, mode : Modes]
    /\ "manifest" \in FrameFiles /\ Others \notin FrameFiles
    /\ Remains \subseteq SUBSET Kinds

VARIABLES
    disk,       \* target -> what is there
    lock,       \* video path -> the producer named in its lock file
    request,    \* producer -> its arguments
    output,     \* producer -> args.output
    phase,      \* producer -> where it is
    outcome,    \* producer -> how it ended, once decided
    saved,      \* producer -> what its temporary directory has of the old bundle
    staged,     \* producer -> frame files not yet moved out of that directory
    published,  \* producer -> the list of that name in commit()
    found       \* history: producer -> the bundle it found when it took the lock, with
                \*   what users have changed since

own  == <<saved, staged, published>>
args == <<request, output>>
vars == <<disk, lock, request, output, phase, outcome, saved, staged, published, found>>

\* output_targets(): a.mp4 and a.gif share a.json and a-frames.
Target(o, kind) == IF kind = "video" THEN <<kind, o>> ELSE <<kind, Stem[o]>>
Targets == {Target(o, kind) : o \in Outputs, kind \in Kinds}
At(p, kind) == disk[Target(output[p], kind)]

FrameDirs  == [DirFiles -> Producers \cup {User, None}]
EmptyDir   == [f \in DirFiles |-> None]
UsersDir   == [EmptyDir EXCEPT ![Others] = User]
Content(kind) == {None} \cup IF kind = "frames" THEN FrameDirs ELSE Producers \cup {User}
Contents   == UNION {Content(kind) : kind \in Kinds}
Nothing    == [kind \in Kinds |-> None]

\* The content is what p publishes, whatever else a user has put into its directory.
IsOf(p, kind, content) ==
    IF kind = "frames" THEN content \in FrameDirs /\ \A f \in FrameFiles : content[f] = p
                       ELSE content = p

Occupied(o) == {kind \in Kinds : disk[Target(o, kind)] # None}

\* The frames directory has the marker of a run of p's mode for the video o.
Managed(p, o) ==
    LET marker == disk[Target(o, "frames")]["manifest"]
    IN  /\ marker \in Producers
        /\ output[marker] = o
        /\ request[marker].mode = request[p].mode

\* check_targets() raises nothing.
Acceptable(p, o) ==
    /\ request[p].overwrite \/ Occupied(o) = {}
    /\ "frames" \in Occupied(o) => Managed(p, o)

Attempts   == {"retireReport", "retireVideo", "retireFrames", "mkdir", "fill",
               "publishVideo", "publishReport"}
Rollbacks  == {"undoVideo", "undoFrames", "restoreFrames", "restoreVideo",
               "restoreReport"}
InContext  == {"locked", "render", "check"} \cup Attempts \cup Rollbacks
Phases     == InContext \cup {"new", "ready", "cleanup", "unlock", "ended", "killed"}
Outcomes   == {"open", "complete", "refused", "failed", "abandoned"}

Before(kinds) ==
    [t \in Targets |-> IF t[1] \notin kinds THEN None
                       ELSE IF t[1] = "frames" THEN UsersDir ELSE User]

\* The frames directory of a path holds a file of somebody else.
HasOthers(o) ==
    LET frames == disk[Target(o, "frames")]
    IN  frames \in FrameDirs /\ frames[Others] # None

Init ==
    /\ \E kinds \in Remains : disk = Before(kinds)
    /\ lock = [o \in Outputs |-> None]
    /\ request \in [Producers -> Requests]
    /\ output = [p \in Producers |-> request[p].output]
    /\ phase = [p \in Producers |-> "new"]
    /\ outcome = [p \in Producers |-> "open"]
    /\ saved = [p \in Producers |-> Nothing]
    /\ staged = [p \in Producers |-> {}]
    /\ published = [p \in Producers |-> {}]
    /\ found = [p \in Producers |-> Nothing]

Go(p, from, to) ==
    /\ phase[p] = from
    /\ phase' = [phase EXCEPT ![p] = to]

End(p, from, to, result) ==
    /\ Go(p, from, to)
    /\ outcome' = [outcome EXCEPT ![p] = result]

Write(p, kind, content) == disk' = [disk EXCEPT ![Target(output[p], kind)] = content]
-----------------------------------------------------------------------------
(* preflight_animation() and __enter__() *)

\* A default name that is taken is replaced by the first numbered one that is free.
FreeName(p, o) ==
    IF ~request[p].default \/ request[p].overwrite THEN o = output[p]
    ELSE \E i \in DOMAIN Names : /\ o = Names[i]
                                 /\ Occupied(Names[i]) = {}
                                 /\ \A j \in 1..(i - 1) : Occupied(Names[j]) # {}

Preflight(p) ==
    /\ \E o \in Outputs :
          /\ FreeName(p, o)
          /\ output' = [output EXCEPT ![p] = o]
          /\ IF Acceptable(p, o) THEN Go(p, "new", "ready") /\ UNCHANGED outcome
                                 ELSE End(p, "new", "ended", "refused")
    /\ UNCHANGED <<disk, lock, request, own, found>>

\* Mutant: the lock file is opened for writing, whoever made it.
LockMutant(p) ==
    /\ Go(p, "ready", "locked")
    /\ lock' = [lock EXCEPT ![output[p]] = p]
    /\ UNCHANGED <<disk, args, outcome, own, found>>

\* Exclusive creation of the lock file.
Lock(p) ==
    /\ IF lock[output[p]] = None
       THEN /\ Go(p, "ready", "locked")
            /\ lock' = [lock EXCEPT ![output[p]] = p]
            /\ UNCHANGED outcome
       ELSE End(p, "ready", "ended", "refused") /\ UNCHANGED lock
    /\ UNCHANGED <<disk, args, own, found>>

Enter(p) ==
    /\ IF Acceptable(p, output[p])
       THEN /\ Go(p, "locked", "render")
            /\ staged' = [staged EXCEPT ![p] = FrameFiles]
            /\ found' = [found EXCEPT ![p] = [kind \in Kinds |-> At(p, kind)]]
            /\ UNCHANGED outcome
       ELSE End(p, "locked", "unlock", "refused") /\ UNCHANGED <<staged, found>>
    /\ UNCHANGED <<disk, lock, args, saved, published>>

\* Loading, sampling, interpolation and encoding, all in the temporary directory.
Render(p) ==
    /\ Go(p, "render", "check")
    /\ UNCHANGED <<disk, lock, args, outcome, own, found>>
-----------------------------------------------------------------------------
(* commit() *)

\* Mutant: the targets were checked before rendering, and are not checked again.
CheckAgainMutant(p) ==
    /\ Go(p, "check", "retireReport")
    /\ UNCHANGED <<disk, lock, args, outcome, own, found>>

CheckAgain(p) ==
    /\ IF Acceptable(p, output[p])
       THEN Go(p, "check", "retireReport") /\ UNCHANGED outcome
       ELSE End(p, "check", "cleanup", "failed")
    /\ UNCHANGED <<disk, lock, args, own, found>>

\* Mutant: every backup has the same name.
RetireMutant(p, kind, from, to) ==
    /\ Go(p, from, to)
    /\ saved' = [saved EXCEPT ![p]["report"] = At(p, kind)]
    /\ Write(p, kind, None)
    /\ UNCHANGED <<lock, args, outcome, staged, published, found>>

\* Mutant: the old artifact is removed instead of kept.
RetireMutant2(p, kind, from, to) ==
    /\ Go(p, from, to)
    /\ Write(p, kind, None)
    /\ UNCHANGED <<lock, args, outcome, own, found>>

\* The next old artifact goes to the temporary directory, if there is one.
Retire(p, kind, from, to) ==
    /\ Go(p, from, to)
    /\ saved' = [saved EXCEPT ![p][kind] = At(p, kind)]
    /\ Write(p, kind, None)
    /\ UNCHANGED <<lock, args, outcome, staged, published, found>>

\* Exclusive creation of the directory.
MakeFrames(p) ==
    /\ Go(p, "mkdir", "fill")
    /\ At(p, "frames") = None
    /\ Write(p, "frames", EmptyDir)
    /\ published' = [published EXCEPT ![p] = @ \cup {"frames"}]
    /\ UNCHANGED <<lock, args, outcome, saved, staged, found>>

\* The frame files move one by one, in the order the directory lists them.
Fill(p) ==
    /\ phase[p] = "fill"
    /\ At(p, "frames") # None
    /\ \E f \in staged[p] :
          /\ Write(p, "frames", [At(p, "frames") EXCEPT ![f] = p])
          /\ staged' = [staged EXCEPT ![p] = @ \ {f}]
    /\ UNCHANGED <<lock, args, phase, outcome, saved, published, found>>

Filled(p) ==
    /\ staged[p] = {}
    /\ Go(p, "fill", "publishVideo")
    /\ UNCHANGED <<disk, lock, args, outcome, own, found>>

\* publish_file(overwrite=False): a hard link, which fails if the name exists.
Publish(p, kind, from, to, result) ==
    /\ End(p, from, to, result)
    /\ At(p, kind) = None
    /\ Write(p, kind, p)
    /\ published' = [published EXCEPT ![p] = @ \cup {kind}]
    /\ UNCHANGED <<lock, args, saved, staged, found>>

\* Mutant: the completion record is retired after the artifacts it speaks of.
CommitMutant(p) ==
    \/ CheckAgain(p)
    \/ Retire(p, "video", "retireReport", "retireVideo")
    \/ Retire(p, "frames", "retireVideo", "retireFrames")
    \/ Retire(p, "report", "retireFrames", "mkdir")
    \/ MakeFrames(p)
    \/ Fill(p)
    \/ Filled(p)
    \/ Publish(p, "video", "publishVideo", "publishReport", "open")
    \/ Publish(p, "report", "publishReport", "cleanup", "complete")

Commit(p) ==
    \/ CheckAgain(p)
    \/ Retire(p, "report", "retireReport", "retireVideo")
    \/ Retire(p, "video", "retireVideo", "retireFrames")
    \/ Retire(p, "frames", "retireFrames", "mkdir")
    \/ MakeFrames(p)
    \/ Fill(p)
    \/ Filled(p)
    \/ Publish(p, "video", "publishVideo", "publishReport", "open")
    \/ Publish(p, "report", "publishReport", "cleanup", "complete")
-----------------------------------------------------------------------------
(* The exception handler of commit() *)

Pass(p, from, to, result) ==
    /\ End(p, from, to, result)
    /\ UNCHANGED <<disk, lock, args, own, found>>

\* The report is published last, so that it is never among what is undone.
UndoVideo(p) ==
    \/ "video" \notin published[p] /\ Pass(p, "undoVideo", "undoFrames", "open")
    \/ /\ "video" \in published[p] /\ At(p, "video") # None
       /\ Go(p, "undoVideo", "undoFrames")
       /\ Write(p, "video", None)
       /\ UNCHANGED <<lock, args, outcome, own, found>>

\* shutil.rmtree(), file by file.
UndoFrames(p) ==
    \/ "frames" \notin published[p] /\ Pass(p, "undoFrames", "restoreFrames", "open")
    \/ /\ "frames" \in published[p] /\ At(p, "frames") = EmptyDir
       /\ Go(p, "undoFrames", "restoreFrames")
       /\ Write(p, "frames", None)
       /\ UNCHANGED <<lock, args, outcome, own, found>>
    \/ /\ "frames" \in published[p] /\ At(p, "frames") # None
       /\ phase[p] = "undoFrames"
       /\ \E f \in DirFiles :
             /\ At(p, "frames")[f] # None
             /\ Write(p, "frames", [At(p, "frames") EXCEPT ![f] = None])
       /\ UNCHANGED <<lock, args, phase, outcome, own, found>>

\* Mutant: nothing is put back.
RestoreMutant(p, kind, from, to, result) == Pass(p, from, to, result)

\* Replacing puts a file over another one, but a directory only over an empty one.
Restore(p, kind, from, to, result) ==
    \/ saved[p][kind] = None /\ Pass(p, from, to, result)
    \/ /\ saved[p][kind] # None
       /\ kind = "frames" => At(p, kind) \in {None, EmptyDir}
       /\ End(p, from, to, result)
       /\ Write(p, kind, saved[p][kind])
       /\ saved' = [saved EXCEPT ![p][kind] = None]
       /\ UNCHANGED <<lock, args, staged, published, found>>

Rollback(p) ==
    \/ UndoVideo(p)
    \/ UndoFrames(p)
    \/ Restore(p, "frames", "restoreFrames", "restoreVideo", "open")
    \/ Restore(p, "video", "restoreVideo", "restoreReport", "open")
    \/ Restore(p, "report", "restoreReport", "cleanup", "failed")
-----------------------------------------------------------------------------
(* Errors of the calls, __exit__(), and what happens to processes *)

\* A call raises, because of the disk, the GPU or what it finds at its target: before
\* the lock and under it, sampling and encoding; in commit(), which then rolls back; in
\* that handler, which gives up what it has not restored yet.
Fault(p) ==
    /\ \/ \E from \in {"new", "ready"} : End(p, from, "ended", "refused")
       \/ End(p, "locked", "unlock", "refused")
       \/ \E from \in {"render", "check"} : End(p, from, "cleanup", "failed")
       \/ \E from \in Attempts : End(p, from, "undoVideo", "open")
       \/ \E from \in Rollbacks : End(p, from, "cleanup", "abandoned")
    /\ UNCHANGED <<disk, lock, args, own, found>>

\* The temporary directory goes away with all that is still in it.
Cleanup(p) ==
    /\ Go(p, "cleanup", "unlock")
    /\ saved' = [saved EXCEPT ![p] = Nothing]
    /\ staged' = [staged EXCEPT ![p] = {}]
    /\ UNCHANGED <<disk, lock, args, outcome, published, found>>

Unlock(p) ==
    /\ Go(p, "unlock", "ended")
    /\ lock' = [lock EXCEPT ![output[p]] = None]
    /\ published' = [published EXCEPT ![p] = {}]
    /\ found' = [found EXCEPT ![p] = Nothing]
    /\ UNCHANGED <<disk, args, outcome, saved, staged>>

\* The process is killed, or the power fails: what it had in memory is gone.
Kill(p) ==
    /\ phase[p] \notin {"new", "ended", "killed"}
    /\ phase' = [phase EXCEPT ![p] = "killed"]
    /\ published' = [published EXCEPT ![p] = {}]
    /\ UNCHANGED <<disk, lock, args, outcome, saved, staged, found>>

\* A user removes the lock file and the temporary directory of a process that is gone
\* (docs/deforum-video.md).
Tidy(p) ==
    /\ phase[p] = "killed"
    /\ lock[output[p]] = p
    /\ lock' = [lock EXCEPT ![output[p]] = None]
    /\ saved' = [saved EXCEPT ![p] = Nothing]
    /\ staged' = [staged EXCEPT ![p] = {}]
    /\ found' = [found EXCEPT ![p] = Nothing]
    /\ UNCHANGED <<disk, args, phase, outcome, published>>

\* p has found its targets and not yet given up its lock.
Aware(p) == \/ phase[p] \in {"render", "check", "cleanup", "killed"}
            \/ phase[p] = "unlock" /\ outcome[p] # "refused"

\* A user makes a directory of that name or adds a file to one that is there.  Bound: not
\* while a run is in commit() for it, where nothing protects what comes after the check.
UserActs(o) ==
    LET t    == Target(o, "frames")
        then == IF disk[t] = None THEN UsersDir ELSE [disk[t] EXCEPT ![Others] = User]
    IN  /\ ~HasOthers(o)
        /\ \A p \in Producers : phase[p] \in Attempts \cup Rollbacks => Stem[output[p]] # Stem[o]
        /\ disk' = [disk EXCEPT ![t] = then]
        /\ found' = [p \in Producers |->
                        IF Aware(p) /\ Stem[output[p]] = Stem[o] /\ found[p]["frames"] = disk[t]
                        THEN [found[p] EXCEPT !["frames"] = then] ELSE found[p]]
        /\ UNCHANGED <<lock, args, phase, outcome, own>>

Produce(p) ==
    \/ Preflight(p) \/ Lock(p) \/ Enter(p) \/ Render(p)
    \/ Commit(p) \/ Rollback(p)
    \/ Cleanup(p) \/ Unlock(p)

Next == \/ \E p \in Producers : Produce(p) \/ Fault(p) \/ Kill(p) \/ Tidy(p)
        \/ \E o \in Outputs : UserActs(o)

Spec == Init /\ [][Next]_vars
-----------------------------------------------------------------------------
(* Properties *)

\* Every variable keeps its type.
TypeOK ==
    /\ disk \in [Targets -> Contents]
    /\ \A o \in Outputs, kind \in Kinds : disk[Target(o, kind)] \in Content(kind)
    /\ lock \in [Outputs -> Producers \cup {None}]
    /\ request \in [Producers -> Requests]
    /\ output \in [Producers -> Outputs]
    /\ phase \in [Producers -> Phases]
    /\ outcome \in [Producers -> Outcomes]
    /\ saved \in [Producers -> [Kinds -> Contents]]
    /\ \A p \in Producers, kind \in Kinds : saved[p][kind] \in Content(kind)
    /\ staged \in [Producers -> SUBSET FrameFiles]
    /\ published \in [Producers -> SUBSET Kinds]
    /\ found \in [Producers -> [Kinds -> Contents]]

\* Where a report of a run can be read, the video and all frames of that same run
\* are there, whatever failed or was killed before: "publish the report last".
ReportMeansComplete ==
    \A o \in Outputs :
        LET run == disk[Target(o, "report")]
        IN  run \in Producers => \A kind \in Kinds : IsOf(run, kind, At(run, kind))

\* A run that ends with an error, and whose handler raised none of its own, leaves the
\* targets as it found them when it took the lock, with what users have added since.
FailureRestores ==
    \A p \in Producers :
        phase[p] \in {"cleanup", "unlock"} /\ outcome[p] = "failed" =>
            \A kind \in Kinds : At(p, kind) = found[p][kind]

\* Until a run has published its report, and even if it is killed, each artifact of the
\* bundle it found is at its target or in the run's temporary directory.
OldBundleSafe ==
    \A p \in Producers :
        lock[output[p]] = p /\ outcome[p] \notin {"complete", "abandoned"} =>
            \A kind \in Kinds : found[p][kind] \in {None, At(p, kind), saved[p][kind]}

\* A bundle whose run has completed stays whole while no other run for these names was
\* asked to overwrite: explicit outputs that exist are refused without --overwrite.
CompleteBundleStays ==
    \A p \in Producers :
        outcome[p] = "complete" =>
            \/ \A kind \in Kinds : IsOf(p, kind, At(p, kind))
            \/ \E q \in Producers \ {p} : /\ Stem[output[q]] = Stem[output[p]]
                                          /\ request[q].overwrite

\* A frames directory with a file of a user changes only under a run that was asked to
\* overwrite, and only if it has the marker of a run for the same video in the same mode:
\* "Overwrite replaces only frames directories marked as an animation bundle"
\* (docs/deforum-video.md).  With the marker, the user's file goes with the directory.
UsersFramesStay ==
    [][\A o \in Outputs :
          HasOthers(o) /\ disk'[Target(o, "frames")] # disk[Target(o, "frames")] =>
              \E p \in Producers : /\ Stem[output[p]] = Stem[o]
                                   /\ lock[output[p]] = p
                                   /\ request[p].overwrite
                                   /\ Managed(p, output[p])]_vars
=============================================================================
