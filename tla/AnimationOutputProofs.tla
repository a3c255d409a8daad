------------------------ MODULE AnimationOutputProofs ------------------------
(***************************************************************************)
(* Theorems about AnimationOutput, for any producers, paths and requests.  *)
(*                                                                         *)
(* Under Separate, no two video paths share a report or frames directory,  *)
(* so the lock of a path protects all three of its targets.                *)
(***************************************************************************)
EXTENDS AnimationOutput, TLAPS

Separate == \A o1, o2 \in Outputs : Stem[o1] = Stem[o2] => o1 = o2
-----------------------------------------------------------------------------
(* Targets and contents *)

\* Every path and kind names a target, and different kinds name different ones.
LEMMA TargetType ==
    /\ \A o \in Outputs, kind \in Kinds : Target(o, kind) \in Targets
    /\ \A o1, o2 \in Outputs, k1, k2 \in Kinds :
          Target(o1, k1) = Target(o2, k2) => k1 = k2
BY DEF Target, Targets, Kinds

\* Where no two paths share a stem, different paths have different targets.
LEMMA TargetApart ==
    ASSUME Separate
    PROVE  \A o1, o2 \in Outputs, k1, k2 \in Kinds :
              Target(o1, k1) = Target(o2, k2) => o1 = o2 /\ k1 = k2
BY AnimationAssumption DEF Separate, Target, Kinds

\* Whatever a kind may have is a content; a bundle's pieces and an empty directory are.
LEMMA ContentType ==
    /\ \A kind \in Kinds : Content(kind) \subseteq Contents
    /\ \A kind \in Kinds : None \in Content(kind)
    /\ \A p \in Producers : p \in Content("video") /\ p \in Content("report")
    /\ Content("frames") = {None} \cup FrameDirs
    /\ EmptyDir \in FrameDirs
    /\ \A frames \in FrameDirs, p \in Producers, f \in DirFiles :
          /\ [frames EXCEPT ![f] = p] \in FrameDirs
          /\ [frames EXCEPT ![f] = None] \in FrameDirs
    /\ \A frames \in FrameDirs : [frames EXCEPT ![Others] = User] \in FrameDirs
BY DEF Content, Contents, Kinds, FrameDirs, DirFiles, EmptyDir

\* Writing to one target of p's path leaves the type of the disk.
LEMMA WriteType ==
    ASSUME TypeOK, NEW p \in Producers, NEW kind \in Kinds, NEW content \in Content(kind),
           Write(p, kind, content)
    PROVE  /\ disk' \in [Targets -> Contents]
           /\ \A o \in Outputs, k \in Kinds : disk'[Target(o, k)] \in Content(k)
<1>1. Target(output[p], kind) \in Targets
  BY TargetType DEF TypeOK
<1>2. disk' \in [Targets -> Contents]
  BY <1>1, ContentType DEF TypeOK, Write
<1>3. ASSUME NEW o \in Outputs, NEW k \in Kinds PROVE disk'[Target(o, k)] \in Content(k)
  <2>1. Target(o, k) \in Targets
    BY TargetType
  <2>2. Target(o, k) = Target(output[p], kind) => k = kind
    BY TargetType DEF TypeOK
  <2> QED BY <2>1, <2>2, <1>1 DEF TypeOK, Write
<1> QED BY <1>2, <1>3

\* A user's directory holds no file of a run.
LEMMA UsersDirType ==
    /\ UsersDir \in FrameDirs /\ UsersDir[Others] = User
    /\ \A f \in FrameFiles : UsersDir[f] = None
BY AnimationAssumption DEF UsersDir, EmptyDir, FrameDirs, DirFiles

\* What a user makes of a frames directory is one, which shows what runs left there.
UsersWork(frames) == IF frames = None THEN UsersDir ELSE [frames EXCEPT ![Others] = User]

LEMMA UsersWorkType ==
    ASSUME NEW frames \in {None} \cup FrameDirs
    PROVE  /\ UsersWork(frames) \in FrameDirs
           /\ UsersWork(frames)[Others] = User
           /\ frames \in FrameDirs => \A f \in FrameFiles : UsersWork(frames)[f] = frames[f]
           /\ frames = None => \A f \in FrameFiles : UsersWork(frames)[f] = None
<1>1. None \notin FrameDirs
  BY AnimationAssumption DEF FrameDirs
<1>2. CASE frames = None
  BY <1>1, <1>2, UsersDirType DEF UsersWork
<1>3. CASE frames \in FrameDirs
  BY <1>1, <1>3, ContentType, AnimationAssumption DEF UsersWork, FrameDirs, DirFiles
<1> QED BY <1>2, <1>3

\* What a user does to the variables, target by target.
LEMMA UserDoes ==
    ASSUME TypeOK, NEW o \in Outputs, UserActs(o)
    PROVE  /\ disk' \in [Targets -> Contents]
           /\ \A a \in Outputs, kind \in Kinds :
                 disk'[Target(a, kind)] =
                    IF kind = "frames" /\ Stem[a] = Stem[o] THEN UsersWork(disk[Target(a, kind)])
                    ELSE disk[Target(a, kind)]
           /\ \A p \in Producers, kind \in Kinds :
                 found'[p][kind] =
                    IF /\ kind = "frames" /\ Aware(p) /\ Stem[output[p]] = Stem[o]
                       /\ found[p]["frames"] = At(p, "frames")
                    THEN UsersWork(found[p][kind]) ELSE found[p][kind]
<1> DEFINE t == Target(o, "frames")
           then == UsersWork(disk[t])
<1>1. t \in Targets /\ disk[t] \in {None} \cup FrameDirs
  BY TargetType, ContentType DEF TypeOK, Kinds
<1>2. then \in FrameDirs /\ FrameDirs \subseteq Contents
  BY <1>1, UsersWorkType, ContentType DEF Kinds
<1>3. /\ disk' = [disk EXCEPT ![t] = then]
      /\ found' = [p \in Producers |->
                     IF Aware(p) /\ Stem[output[p]] = Stem[o] /\ found[p]["frames"] = disk[t]
                     THEN [found[p] EXCEPT !["frames"] = then] ELSE found[p]]
  BY DEF UserActs, UsersWork
<1>4. disk' \in [Targets -> Contents]
  BY <1>1, <1>2, <1>3 DEF TypeOK
<1>5. \A a \in Outputs, kind \in Kinds :
        /\ Target(a, kind) \in Targets
        /\ Target(a, kind) = t <=> kind = "frames" /\ Stem[a] = Stem[o]
  BY TargetType DEF Target, Kinds
<1>6. \A a \in Outputs, kind \in Kinds :
        disk'[Target(a, kind)] =
           IF kind = "frames" /\ Stem[a] = Stem[o] THEN UsersWork(disk[Target(a, kind)])
           ELSE disk[Target(a, kind)]
  BY <1>1, <1>3, <1>5 DEF TypeOK
<1>7. ASSUME NEW p \in Producers, NEW kind \in Kinds
      PROVE  found'[p][kind] =
                IF /\ kind = "frames" /\ Aware(p) /\ Stem[output[p]] = Stem[o]
                   /\ found[p]["frames"] = At(p, "frames")
                THEN UsersWork(found[p][kind]) ELSE found[p][kind]
  <2>1. found[p] \in [Kinds -> Contents] /\ output[p] \in Outputs /\ "frames" \in Kinds
    BY DEF TypeOK, Kinds
  <2>2. Stem[output[p]] = Stem[o] => At(p, "frames") = disk[t]
    BY <1>5, <2>1 DEF At
  <2> QED BY <1>3, <2>1, <2>2
<1> QED BY <1>4, <1>6, <1>7

\* A user keeps the types.
LEMMA UserType ==
    ASSUME TypeOK, NEW o \in Outputs, UserActs(o)
    PROVE  TypeOK'
<1>1. ASSUME NEW a \in Outputs, NEW kind \in Kinds
      PROVE  disk'[Target(a, kind)] \in Content(kind)
  BY UserDoes, UsersWorkType, ContentType DEF TypeOK, Content
<1>2. found' \in [Producers -> [Kinds -> Contents]]
  <2>1. Target(o, "frames") \in Targets /\ disk[Target(o, "frames")] \in {None} \cup FrameDirs
    BY TargetType, ContentType DEF TypeOK, Kinds
  <2>2. UsersWork(disk[Target(o, "frames")]) \in Contents
    BY <2>1, UsersWorkType, ContentType DEF Kinds
  <2> QED BY <2>2 DEF UserActs, UsersWork, TypeOK
<1> QED BY <1>1, <1>2, UserDoes DEF TypeOK, UserActs, args, own

\* The types hold at first.
LEMMA InitType == Init => TypeOK
<1> SUFFICES ASSUME Init PROVE TypeOK
  OBVIOUS
<1>1. PICK kinds \in Remains : disk = Before(kinds)
  BY DEF Init
<1>2. ASSUME NEW o \in Outputs, NEW kind \in Kinds
      PROVE  disk[Target(o, kind)] \in Content(kind)
  <2>1. Target(o, kind) \in Targets /\ Target(o, kind)[1] = kind
    BY TargetType DEF Target
  <2>2. disk[Target(o, kind)] \in {None} \cup (IF kind = "frames" THEN {UsersDir} ELSE {User})
    BY <1>1, <2>1 DEF Before
  <2> QED BY <2>2, UsersDirType DEF Content
<1>3. ASSUME NEW t \in Targets PROVE disk[t] \in Contents
  <2>1. PICK o \in Outputs, kind \in Kinds : t = Target(o, kind)
    BY DEF Targets
  <2> QED BY <2>1, <1>2, ContentType
<1>4. disk \in [Targets -> Contents]
  BY <1>1, <1>3 DEF Before
<1>5. Nothing \in [Kinds -> Contents] /\ \A kind \in Kinds : Nothing[kind] \in Content(kind)
  BY ContentType DEF Nothing
<1>6. request \in [Producers -> Requests] /\ output \in [Producers -> Outputs]
  BY AnimationAssumption DEF Init
<1> QED BY <1>2, <1>4, <1>5, <1>6 DEF Init, TypeOK, Phases, Outcomes

\* Every step keeps the types.
LEMMA StepType == TypeOK /\ [Next]_vars => TypeOK'
<1> SUFFICES ASSUME TypeOK, [Next]_vars PROVE TypeOK'
  OBVIOUS
<1> USE DEF Phases, InContext, Attempts, Rollbacks, Outcomes
<1>1. CASE UNCHANGED vars
  BY <1>1 DEF TypeOK, vars
<1>2. ASSUME NEW p \in Producers, Produce(p) \/ Fault(p) \/ Kill(p) \/ Tidy(p) PROVE TypeOK'
  <2> DEFINE Disk == /\ disk' \in [Targets -> Contents]
                     /\ \A o \in Outputs, k \in Kinds : disk'[Target(o, k)] \in Content(k)
  <2>0. \A kind \in Kinds : At(p, kind) \in Content(kind)
    BY DEF TypeOK, At
  <2>1. CASE Preflight(p)
    <3>1. output' \in [Producers -> Outputs]
      BY <2>1 DEF TypeOK, Preflight
    <3>2. phase' \in [Producers -> Phases] /\ outcome' \in [Producers -> Outcomes]
      BY <2>1 DEF TypeOK, Preflight, Go, End
    <3> QED BY <2>1, <3>1, <3>2 DEF TypeOK, Preflight, own
  <2>2. CASE Lock(p)
    BY <2>2 DEF TypeOK, Lock, Go, End, args, own
  <2>3. CASE Enter(p)
    <3>1. [kind \in Kinds |-> At(p, kind)] \in [Kinds -> Contents]
      BY <2>0, ContentType
    <3>2. staged' \in [Producers -> SUBSET FrameFiles]
      BY <2>3 DEF TypeOK, Enter
    <3>3. found' \in [Producers -> [Kinds -> Contents]]
      BY <2>3, <3>1 DEF TypeOK, Enter
    <3>4. phase' \in [Producers -> Phases] /\ outcome' \in [Producers -> Outcomes]
      BY <2>3 DEF TypeOK, Enter, Go, End
    <3> QED BY <2>3, <3>2, <3>3, <3>4 DEF TypeOK, Enter, args
  <2>4. CASE Render(p)
    BY <2>4 DEF TypeOK, Render, Go, args, own
  <2>5. CASE CheckAgain(p)
    BY <2>5 DEF TypeOK, CheckAgain, Go, End, args, own
  <2>6. ASSUME NEW kind \in Kinds, NEW from, NEW to \in Phases, Retire(p, kind, from, to)
        PROVE  TypeOK'
    <3>1. Disk
      BY <2>6, WriteType, ContentType DEF Retire
    <3>2. saved' \in [Producers -> [Kinds -> Contents]]
          /\ \A q \in Producers, k \in Kinds : saved'[q][k] \in Content(k)
      BY <2>0, <2>6, ContentType DEF Retire, TypeOK
    <3> QED BY <2>6, <3>1, <3>2 DEF TypeOK, Retire, Go, args
  <2>7. CASE MakeFrames(p)
    <3>1. Disk
      BY <2>7, WriteType, ContentType DEF MakeFrames, Kinds
    <3> QED BY <2>7, <3>1 DEF TypeOK, MakeFrames, Go, args, Kinds
  <2>8. CASE Fill(p)
    <3>1. At(p, "frames") \in FrameDirs
      BY <2>0, <2>8, ContentType DEF Fill, Kinds
    <3>2. PICK f \in staged[p] :
             /\ Write(p, "frames", [At(p, "frames") EXCEPT ![f] = p])
             /\ staged' = [staged EXCEPT ![p] = @ \ {f}]
      BY <2>8 DEF Fill
    <3>3. [At(p, "frames") EXCEPT ![f] = p] \in Content("frames")
      BY <3>1, ContentType DEF TypeOK, DirFiles
    <3>4. Disk
      BY <3>2, <3>3, WriteType DEF Kinds
    <3> QED BY <2>8, <3>2, <3>4 DEF TypeOK, Fill, args
  <2>9. CASE Filled(p)
    BY <2>9 DEF TypeOK, Filled, Go, args, own
  <2>10. ASSUME NEW kind \in {"video", "report"}, NEW from, NEW to \in Phases,
                NEW result \in Outcomes, Publish(p, kind, from, to, result)
         PROVE  TypeOK'
    <3>1. Disk
      BY <2>10, WriteType, ContentType DEF Publish, Kinds
    <3> QED BY <2>10, <3>1 DEF TypeOK, Publish, End, Go, args, Kinds
  <2>11. ASSUME NEW from, NEW to \in Phases, NEW result \in Outcomes,
                Pass(p, from, to, result)
         PROVE  TypeOK'
    BY <2>11 DEF TypeOK, Pass, End, Go, args, own
  <2>12. CASE UndoVideo(p)
    <3>1. CASE Pass(p, "undoVideo", "undoFrames", "open")
      BY <2>11, <3>1
    <3>2. CASE Write(p, "video", None) /\ ~Pass(p, "undoVideo", "undoFrames", "open")
      <4>1. Disk
        BY <3>2, WriteType, ContentType DEF Kinds
      <4> QED BY <2>12, <3>2, <4>1 DEF TypeOK, UndoVideo, Go, args, own
    <3> QED BY <2>12, <3>1, <3>2 DEF UndoVideo
  <2>13. CASE UndoFrames(p)
    <3>1. CASE Pass(p, "undoFrames", "restoreFrames", "open")
      BY <2>11, <3>1
    <3>2. CASE ~Pass(p, "undoFrames", "restoreFrames", "open")
      <4>1. PICK content \in Content("frames") : Write(p, "frames", content)
        <5>1. At(p, "frames") # None => At(p, "frames") \in FrameDirs
          BY <2>0, ContentType DEF Kinds
        <5> QED BY <2>13, <3>2, <5>1, ContentType DEF UndoFrames, Kinds
      <4>2. Disk
        BY <4>1, WriteType DEF Kinds
      <4> QED BY <2>13, <3>2, <4>2 DEF TypeOK, UndoFrames, Go, args, own
    <3> QED BY <3>1, <3>2
  <2>14. ASSUME NEW kind \in Kinds, NEW from, NEW to \in Phases, NEW result \in Outcomes,
                Restore(p, kind, from, to, result)
         PROVE  TypeOK'
    <3>1. CASE Pass(p, from, to, result)
      BY <2>11, <3>1
    <3>2. CASE ~Pass(p, from, to, result)
      <4>1. Disk
        BY <2>14, <3>2, WriteType DEF Restore, TypeOK
      <4>2. saved' = [saved EXCEPT ![p][kind] = None]
        BY <2>14, <3>2 DEF Restore
      <4>3. None \in Content(kind) /\ None \in Contents
        BY ContentType
      <4>4. saved' \in [Producers -> [Kinds -> Contents]]
            /\ \A q \in Producers, k \in Kinds : saved'[q][k] \in Content(k)
        BY <4>2, <4>3 DEF TypeOK
      <4>5. End(p, from, to, result) /\ UNCHANGED <<lock, args, staged, published, found>>
        BY <2>14, <3>2 DEF Restore
      <4> QED BY <4>1, <4>4, <4>5 DEF TypeOK, End, Go, args
    <3> QED BY <3>1, <3>2
  <2>15. CASE Fault(p)
    BY <2>15 DEF TypeOK, Fault, End, Go, args, own
  <2>16. Nothing \in [Kinds -> Contents] /\ \A k \in Kinds : Nothing[k] \in Content(k)
    BY ContentType DEF Nothing
  <2>17. CASE Cleanup(p)
    BY <2>16, <2>17 DEF TypeOK, Cleanup, Go, args
  <2>18. CASE Unlock(p)
    BY <2>16, <2>18 DEF TypeOK, Unlock, Go, args
  <2>19. CASE Kill(p)
    BY <2>19 DEF TypeOK, Kill, args, own
  <2>20. CASE Tidy(p)
    BY <2>16, <2>20 DEF TypeOK, Tidy, args
  <2>21. CASE Commit(p)
    BY <2>5, <2>6, <2>7, <2>8, <2>9, <2>10, <2>21 DEF Commit, Kinds
  <2>22. CASE Rollback(p)
    BY <2>12, <2>13, <2>14, <2>22 DEF Rollback, Kinds
  <2> QED
    BY <1>2, <2>1, <2>2, <2>3, <2>4, <2>15, <2>17, <2>18, <2>19, <2>20, <2>21, <2>22
    DEF Produce
<1>3. ASSUME NEW o \in Outputs, UserActs(o) PROVE TypeOK'
  BY <1>3, UserType
<1> QED BY <1>1, <1>2, <1>3 DEF Next

\* TypeOK: every variable keeps its type.
THEOREM AnimationTypeOK == Spec => []TypeOK
BY InitType, StepType, PTL DEF Spec
-----------------------------------------------------------------------------
(* The inductive invariant *)

Holding == InContext \cup {"cleanup", "unlock"}

\* What is at the targets of a path, as a bundle.
There(o) == [kind \in Kinds |-> disk[Target(o, kind)]]

\* r is a run for the path o whose name will not change any more.
Home(r, o) == output[r] = o /\ phase[r] # "new"

\* A bundle with the report of a run is the bundle of that run.
Whole(bundle, o) ==
    bundle["report"] \in Producers =>
        /\ Home(bundle["report"], o)
        /\ \A kind \in Kinds : IsOf(bundle["report"], kind, bundle[kind])

WholeInv ==
    /\ \A o \in Outputs : Whole(There(o), o)
    /\ \A p \in Producers : Whole(found[p], output[p])

\* The artifact is at its target as p found it; p has it; p has it and its place is free.
Intact(p, kind) == At(p, kind) = found[p][kind] /\ saved[p][kind] = None
Kept(p, kind)   == saved[p][kind] = found[p][kind]
Moved(p, kind)  == At(p, kind) = None /\ Kept(p, kind)
Either(p, kind) == Intact(p, kind) \/ Moved(p, kind)

\* What a run owns before commit() and while it has found nothing.
EarlyState(p) ==
    /\ phase[p] \in {"new", "ready"} \cup InContext => outcome[p] = "open"
    /\ phase[p] \in {"new", "ready", "locked"} =>
          saved[p] = Nothing /\ found[p] = Nothing /\ published[p] = {}
    /\ phase[p] \in {"render", "check", "retireReport"} =>
          published[p] = {} /\ \A kind \in Kinds : Intact(p, kind)

\* How far the publication has come.
AttemptState(p) ==
    /\ phase[p] \in Attempts \ {"retireReport"} => Moved(p, "report")
    /\ phase[p] = "retireVideo" => Intact(p, "video") /\ Intact(p, "frames")
    /\ phase[p] = "retireFrames" => Moved(p, "video") /\ Intact(p, "frames")
    /\ phase[p] = "mkdir" => Moved(p, "video") /\ Moved(p, "frames")
    /\ phase[p] \in {"retireVideo", "retireFrames", "mkdir"} => published[p] = {}
    /\ phase[p] \in {"render", "check", "retireReport", "retireVideo", "retireFrames",
                     "mkdir"} => staged[p] = FrameFiles
    /\ phase[p] \in {"fill", "publishVideo"} =>
          Moved(p, "video") /\ published[p] = {"frames"}
    /\ phase[p] = "fill" =>
          /\ Kept(p, "frames")
          /\ At(p, "frames") \in FrameDirs
          /\ \A f \in FrameFiles \ staged[p] : At(p, "frames")[f] = p
    /\ phase[p] \in {"publishVideo", "publishReport"} =>
          IsOf(p, "frames", At(p, "frames")) /\ Kept(p, "frames")
    /\ phase[p] = "publishReport" =>
          /\ Kept(p, "video") /\ At(p, "video") = p
          /\ published[p] = {"frames", "video"}

\* How far the handler has come in undoing it.
RollbackState(p) ==
    phase[p] \in Rollbacks =>
        /\ At(p, "report") # None => published[p] = {} /\ \A kind \in Kinds : Intact(p, kind)
        /\ Either(p, "report") /\ "report" \notin published[p]
        /\ phase[p] = "undoVideo" =>
              IF "video" \in published[p] THEN Kept(p, "video") ELSE Either(p, "video")
        /\ phase[p] \in {"undoVideo", "undoFrames"} =>
              IF "frames" \in published[p] THEN Kept(p, "frames") ELSE Either(p, "frames")
        /\ phase[p] \in {"undoFrames", "restoreFrames", "restoreVideo"} => Either(p, "video")
        /\ phase[p] = "restoreFrames" => Either(p, "frames")
        /\ phase[p] \in {"restoreVideo", "restoreReport"} => Intact(p, "frames")
        /\ phase[p] = "restoreReport" => Intact(p, "video")

\* What a run leaves, and what is left of one that was killed.
LateState(p) ==
    /\ phase[p] \in {"cleanup", "unlock"} => outcome[p] # "open"
    /\ phase[p] \in {"cleanup", "unlock"} /\ outcome[p] = "failed" =>
          \A kind \in Kinds : At(p, kind) = found[p][kind]
    /\ phase[p] = "unlock" /\ outcome[p] = "refused" => found[p] = Nothing
    /\ phase[p] = "cleanup" => outcome[p] # "refused"
    /\ phase[p] = "ended" => found[p] = Nothing
    /\ /\ phase[p] = "killed" /\ lock[output[p]] = p
       /\ outcome[p] \notin {"complete", "abandoned"}
       => \A kind \in Kinds : found[p][kind] \in {None, At(p, kind), saved[p][kind]}

State(p) ==
    /\ phase[p] \in Holding => lock[output[p]] = p
    /\ EarlyState(p) /\ AttemptState(p) /\ RollbackState(p) /\ LateState(p)

BundleInv == TypeOK /\ WholeInv /\ \A p \in Producers : State(p)
-----------------------------------------------------------------------------
(* What a step of one run leaves alone *)

\* A step of p changes nothing of another run, nor the disk beyond p's own targets, for
\* which it holds the lock.
Frame(p) ==
    /\ \A q \in Producers \ {p} :
          /\ output'[q] = output[q] /\ phase'[q] = phase[q] /\ outcome'[q] = outcome[q]
          /\ saved'[q] = saved[q] /\ staged'[q] = staged[q]
          /\ published'[q] = published[q] /\ found'[q] = found[q]
    /\ phase'[p] # "new"
    /\ phase[p] # "new" => output'[p] = output[p]
    /\ \A o \in Outputs, kind \in Kinds :
          disk'[Target(o, kind)] # disk[Target(o, kind)] => o = output[p] /\ phase[p] \in Holding
    /\ \A o \in Outputs : lock'[o] # lock[o] => lock[o] \in {None, p} /\ lock'[o] \in {None, p}

\* So every other run keeps its state.
LEMMA OthersKeepState ==
    ASSUME BundleInv, TypeOK', NEW p \in Producers, Frame(p), NEW q \in Producers \ {p}
    PROVE  State(q)'
<1> DEFINE Mine == phase[q] \in Holding \/ lock[output[q]] = q
<1>1. output[q] \in Outputs /\ output[p] \in Outputs /\ q \in Producers /\ p # q /\ q # None
  BY AnimationAssumption DEF BundleInv, TypeOK
<1>2. Mine => lock[output[q]] = q
  BY DEF BundleInv, State
<1>3. Mine => \A kind \in Kinds : At(q, kind)' = At(q, kind)
  <2>1. phase[p] \in Holding => lock[output[p]] = p
    BY DEF BundleInv, State
  <2> QED BY <1>1, <1>2, <2>1 DEF Frame, At
<1>4. output'[q] = output[q] /\ phase'[q] = phase[q] /\ outcome'[q] = outcome[q]
      /\ saved'[q] = saved[q] /\ staged'[q] = staged[q]
      /\ published'[q] = published[q] /\ found'[q] = found[q]
  BY DEF Frame
<1>5. Mine => lock'[output[q]] = q
  BY <1>1, <1>2 DEF Frame
<1>6. ~Mine => lock'[output[q]] # q
  BY <1>1 DEF Frame
<1> USE DEF Holding, InContext, Attempts, Rollbacks
<1>7. State(q)
  BY DEF BundleInv
<1>8. phase'[q] \in Holding => lock'[output'[q]] = q
  BY <1>4, <1>5
<1>9. \A kind \in Kinds : Kept(q, kind)' = Kept(q, kind)
  BY <1>4 DEF Kept
<1>10. ASSUME phase[q] \in Holding, NEW kind \in Kinds
       PROVE  At(q, kind)' = At(q, kind) /\ Intact(q, kind)' = Intact(q, kind)
              /\ Moved(q, kind)' = Moved(q, kind) /\ Either(q, kind)' = Either(q, kind)
  BY <1>3, <1>4, <1>9, <1>10 DEF Intact, Moved, Either
<1>11. "report" \in Kinds /\ "video" \in Kinds /\ "frames" \in Kinds
  BY DEF Kinds
<1>12. EarlyState(q)'
  BY <1>4, <1>7, <1>10 DEF State, EarlyState
<1>13. AttemptState(q)'
  BY <1>4, <1>7, <1>9, <1>10, <1>11 DEF State, AttemptState
<1>14. RollbackState(q)'
  BY <1>4, <1>7, <1>9, <1>10, <1>11 DEF State, RollbackState
<1>15. LateState(q)'
  BY <1>3, <1>4, <1>5, <1>6, <1>7 DEF State, LateState
<1> QED BY <1>8, <1>12, <1>13, <1>14, <1>15 DEF State

\* And every bundle stays whole, if the ones p may have changed do.
LEMMA OthersStayWhole ==
    ASSUME BundleInv, TypeOK', NEW p \in Producers, Frame(p),
           Whole(There(output[p]), output[p])', Whole(found[p], output[p])'
    PROVE  WholeInv'
<1>1. \A r \in Producers, o \in Outputs : Home(r, o) => Home(r, o)'
  BY DEF Frame, Home
<1>2. ASSUME NEW bundle, NEW o \in Outputs, Whole(bundle, o)
      PROVE  bundle["report"] \in Producers =>
                /\ Home(bundle["report"], o)'
                /\ \A kind \in Kinds : IsOf(bundle["report"], kind, bundle[kind])
  BY <1>1, <1>2 DEF Whole
<1>3. ASSUME NEW o \in Outputs PROVE Whole(There(o), o)'
  <2>1. CASE o = output'[p]
    BY <2>1
  <2>2. CASE o # output'[p]
    <3>1. \A kind \in Kinds : disk'[Target(o, kind)] = disk[Target(o, kind)]
      BY <2>2 DEF Frame, Holding, InContext, Attempts, Rollbacks
    <3>2. There(o)' = There(o)
      BY <3>1 DEF There
    <3>3. Whole(There(o), o)
      BY DEF BundleInv, WholeInv
    <3> QED BY <1>2, <3>2, <3>3 DEF Whole
  <2> QED BY <2>1, <2>2
<1>4. ASSUME NEW q \in Producers PROVE Whole(found[q], output[q])'
  <2>1. CASE q = p
    BY <2>1
  <2>2. CASE q # p
    <3>1. found'[q] = found[q] /\ output'[q] = output[q] /\ output[q] \in Outputs
      BY <2>2 DEF Frame, BundleInv, TypeOK
    <3>2. Whole(found[q], output[q])
      BY DEF BundleInv, WholeInv
    <3> QED BY <1>2, <3>1, <3>2 DEF Whole
  <2> QED BY <2>1, <2>2
<1> QED BY <1>3, <1>4 DEF WholeInv

\* A bundle of nothing has none of the three artifacts.
LEMMA NothingFound == \A kind \in Kinds : Nothing[kind] = None
BY DEF Nothing

\* The bundle p has found stays whole, also when it takes or forgets one.
LEMMA FoundStaysWhole ==
    ASSUME BundleInv, TypeOK', NEW p \in Producers, Frame(p),
           \/ found'[p] = found[p]
           \/ found'[p] = Nothing
           \/ phase[p] # "new" /\ found'[p] = There(output[p])
    PROVE  Whole(found[p], output[p])'
<1>1. \A r \in Producers, o \in Outputs : Home(r, o) => Home(r, o)'
  BY DEF Frame, Home
<1>2. output[p] \in Outputs /\ "report" \in Kinds
  BY DEF BundleInv, TypeOK, Kinds
<1>3. CASE found'[p] = Nothing
  BY <1>2, <1>3, NothingFound, AnimationAssumption DEF Whole
<1>4. CASE found'[p] = found[p] /\ found[p] # Nothing
  <2>1. output'[p] = output[p]
    BY <1>4 DEF BundleInv, State, EarlyState, Frame
  <2>2. Whole(found[p], output[p])
    BY DEF BundleInv, WholeInv
  <2> QED BY <1>1, <1>2, <1>4, <2>1, <2>2 DEF Whole
<1>5. CASE phase[p] # "new" /\ found'[p] = There(output[p])
  <2>1. output'[p] = output[p]
    BY <1>5 DEF Frame
  <2>2. Whole(There(output[p]), output[p])
    BY <1>2 DEF BundleInv, WholeInv
  <2> QED BY <1>1, <1>2, <1>5, <2>1, <2>2 DEF Whole
<1> QED BY <1>3, <1>4, <1>5

\* A step that does not write leaves the bundle at p's targets whole.
LEMMA DiskStaysWhole ==
    ASSUME BundleInv, TypeOK', NEW p \in Producers, Frame(p), UNCHANGED disk
    PROVE  Whole(There(output[p]), output[p])'
<1>1. \A r \in Producers, o \in Outputs : Home(r, o) => Home(r, o)'
  BY DEF Frame, Home
<1>2. PICK o \in Outputs : o = output'[p]
  BY DEF TypeOK
<1>3. There(o)' = There(o) /\ "report" \in Kinds
  BY DEF There, Kinds
<1>4. Whole(There(o), o)
  BY DEF BundleInv, WholeInv
<1>5. ASSUME There(o)["report"] \in Producers
      PROVE  /\ Home(There(o)["report"], o)'
             /\ \A kind \in Kinds : IsOf(There(o)["report"], kind, There(o)[kind])
  <2>1. /\ Home(There(o)["report"], o)
        /\ \A kind \in Kinds : IsOf(There(o)["report"], kind, There(o)[kind])
    BY <1>4, <1>5 DEF Whole
  <2> QED BY <1>1, <1>3, <1>5, <2>1
<1>6. Whole(There(o), o)'
  BY <1>3, <1>5 DEF Whole
<1> QED BY <1>2, <1>6 DEF Whole, There, Home

\* Where there is no report there is nothing to be whole.
LEMMA NoReportIsWhole ==
    ASSUME NEW p \in Producers, At(p, "report")' = None
    PROVE  Whole(There(output[p]), output[p])'
BY AnimationAssumption DEF At, There, Whole, Kinds

\* Writing changes one artifact of p's path and no other target.
LEMMA WriteAt ==
    ASSUME TypeOK, Separate, NEW p \in Producers, NEW kind \in Kinds, NEW content,
           Write(p, kind, content), output' = output
    PROVE  /\ At(p, kind)' = content
           /\ \A k \in Kinds \ {kind} : At(p, k)' = At(p, k)
           /\ \A o \in Outputs, k \in Kinds :
                 disk'[Target(o, k)] # disk[Target(o, k)] => o = output[p]
<1>1. output[p] \in Outputs
  BY DEF TypeOK
<1>2. \A o \in Outputs, k \in Kinds : Target(o, k) \in Targets
  BY TargetType
<1>3. \A o \in Outputs, k \in Kinds :
        disk'[Target(o, k)] = IF Target(o, k) = Target(output[p], kind) THEN content
                              ELSE disk[Target(o, k)]
  BY <1>1, <1>2 DEF Write, TypeOK
<1> QED BY <1>1, <1>3, TargetApart DEF At

\* A step without writing shows p the same artifacts.
LEMMA SameAt ==
    ASSUME NEW p \in Producers, UNCHANGED <<disk, output>>
    PROVE  \A kind \in Kinds : At(p, kind)' = At(p, kind)
BY DEF At
-----------------------------------------------------------------------------
(* One lemma for each part of a run *)

\* What a step of p has to show: the others and the disk follow.
Step(p) == /\ Frame(p)
           /\ State(p)'
           /\ Whole(There(output[p]), output[p])'
           /\ Whole(found[p], output[p])'

\* The steps before the first change of a target are good steps of one run.
LEMMA EnterSteps ==
    ASSUME BundleInv, TypeOK', NEW p \in Producers,
           Preflight(p) \/ Lock(p) \/ Enter(p) \/ Render(p) \/ CheckAgain(p)
    PROVE  Step(p)
<1> USE DEF Holding, InContext, Attempts, Rollbacks
<1>0. State(p) /\ TypeOK /\ p # None
  BY AnimationAssumption DEF BundleInv
<1>1. CASE Preflight(p)
  <2>1. /\ phase[p] = "new"
        /\ \/ phase' = [phase EXCEPT ![p] = "ready"] /\ outcome' = outcome
           \/ phase' = [phase EXCEPT ![p] = "ended"] /\ outcome' = [outcome EXCEPT ![p] = "refused"]
    BY <1>1 DEF Preflight, Go, End
  <2>2. UNCHANGED <<disk, lock, saved, staged, published, found>>
    BY <1>1 DEF Preflight, own
  <2>3. PICK o \in Outputs : output' = [output EXCEPT ![p] = o]
    BY <1>1 DEF Preflight
  <2>4. Frame(p)
    BY <1>0, <2>1, <2>2, <2>3 DEF Frame, TypeOK
  <2>5. State(p)'
    BY <1>0, <2>1, <2>2 DEF State, EarlyState, AttemptState, RollbackState, LateState, TypeOK
  <2> QED BY <2>2, <2>4, <2>5, FoundStaysWhole, DiskStaysWhole DEF Step
<1>2. CASE Lock(p)
  <2>1. /\ phase[p] = "ready" /\ UNCHANGED <<disk, output, saved, staged, published, found>>
        /\ \/ /\ phase' = [phase EXCEPT ![p] = "locked"] /\ outcome' = outcome
              /\ lock[output[p]] = None /\ lock' = [lock EXCEPT ![output[p]] = p]
           \/ /\ phase' = [phase EXCEPT ![p] = "ended"]
              /\ outcome' = [outcome EXCEPT ![p] = "refused"]
              /\ lock' = lock
    BY <1>2 DEF Lock, Go, End, args, own
  <2>2. Frame(p)
    BY <1>0, <2>1 DEF Frame, TypeOK
  <2>3. State(p)'
    BY <1>0, <2>1 DEF State, EarlyState, AttemptState, RollbackState, LateState, TypeOK
  <2> QED BY <2>1, <2>2, <2>3, FoundStaysWhole, DiskStaysWhole DEF Step
<1>3. CASE Enter(p)
  <2>1. phase[p] = "locked" /\ UNCHANGED <<disk, lock, output, saved, published>>
    BY <1>3 DEF Enter, Go, End, args
  <2>2. CASE phase' = [phase EXCEPT ![p] = "render"]
    <3>1. /\ staged' = [staged EXCEPT ![p] = FrameFiles] /\ outcome' = outcome
          /\ found' = [found EXCEPT ![p] = [kind \in Kinds |-> At(p, kind)]]
      BY <1>0, <1>3, <2>1, <2>2 DEF Enter, Go, End, TypeOK
    <3>2. Frame(p)
      BY <1>0, <2>1, <2>2, <3>1 DEF Frame, TypeOK
    <3>3. found'[p] = There(output[p])
      BY <1>0, <3>1 DEF TypeOK, There, At
    <3>4. \A kind \in Kinds : Intact(p, kind)'
      BY <1>0, <2>1, <3>3, NothingFound DEF State, EarlyState, Intact, There, At
    <3>5. State(p)'
      BY <1>0, <2>1, <2>2, <3>1, <3>4
      DEF State, EarlyState, AttemptState, RollbackState, LateState, TypeOK
    <3> QED BY <2>1, <3>2, <3>3, <3>5, FoundStaysWhole, DiskStaysWhole DEF Step
  <2>3. CASE ~(phase' = [phase EXCEPT ![p] = "render"])
    <3>1. /\ phase' = [phase EXCEPT ![p] = "unlock"] /\ UNCHANGED <<staged, found>>
          /\ outcome' = [outcome EXCEPT ![p] = "refused"]
      BY <1>3, <2>3 DEF Enter, Go, End
    <3>2. Frame(p)
      BY <1>0, <2>1, <3>1 DEF Frame, TypeOK
    <3>3. State(p)'
      BY <1>0, <2>1, <3>1 DEF State, EarlyState, AttemptState, RollbackState, LateState, TypeOK
    <3> QED BY <2>1, <3>1, <3>2, <3>3, FoundStaysWhole, DiskStaysWhole DEF Step
  <2> QED BY <2>2, <2>3
<1>4. CASE Render(p) \/ CheckAgain(p)
  <2>1. /\ UNCHANGED <<disk, lock, output, saved, staged, published, found>>
        /\ \/ /\ phase[p] = "render" /\ phase' = [phase EXCEPT ![p] = "check"] /\ outcome' = outcome
           \/ /\ phase[p] = "check" /\ outcome' = outcome
              /\ phase' = [phase EXCEPT ![p] = "retireReport"]
           \/ /\ phase[p] = "check" /\ phase' = [phase EXCEPT ![p] = "cleanup"]
              /\ outcome' = [outcome EXCEPT ![p] = "failed"]
    BY <1>4 DEF Render, CheckAgain, Go, End, args, own
  <2>2. Frame(p)
    BY <1>0, <2>1 DEF Frame, TypeOK
  <2>3. \A kind \in Kinds : At(p, kind)' = At(p, kind) /\ Intact(p, kind)' = Intact(p, kind)
    BY <2>1 DEF At, Intact
  <2>4. State(p)'
    BY <1>0, <2>1, <2>3
    DEF State, EarlyState, AttemptState, RollbackState, LateState, TypeOK, Intact
  <2> QED BY <2>1, <2>2, <2>4, FoundStaysWhole, DiskStaysWhole DEF Step
<1> QED BY <1>1, <1>2, <1>3, <1>4

\* Report, video and frames are the kinds of artifact.
LEMMA KindsAre == "report" \in Kinds /\ "video" \in Kinds /\ "frames" \in Kinds
BY DEF Kinds

\* Moving an old artifact away is a good step.
LEMMA RetireSteps ==
    ASSUME BundleInv, TypeOK', Separate, NEW p \in Producers,
           \/ Retire(p, "report", "retireReport", "retireVideo")
           \/ Retire(p, "video", "retireVideo", "retireFrames")
           \/ Retire(p, "frames", "retireFrames", "mkdir")
    PROVE  Step(p)
<1> USE DEF Holding, InContext, Attempts, Rollbacks
<1>0. State(p) /\ TypeOK
  BY DEF BundleInv
<1>1. ASSUME NEW kind \in Kinds, NEW from \in Attempts, NEW to \in Attempts,
             Retire(p, kind, from, to)
      PROVE  /\ Frame(p)
             /\ phase[p] = from /\ phase'[p] = to
             /\ At(p, kind)' = None /\ saved'[p][kind] = At(p, kind)
             /\ \A k \in Kinds \ {kind} : At(p, k)' = At(p, k) /\ saved'[p][k] = saved[p][k]
             /\ UNCHANGED <<lock, output, outcome, staged, published, found>>
  <2>1. /\ phase[p] = from /\ phase' = [phase EXCEPT ![p] = to]
        /\ saved' = [saved EXCEPT ![p][kind] = At(p, kind)]
        /\ Write(p, kind, None)
        /\ UNCHANGED <<lock, output, outcome, staged, published, found>>
    BY <1>1 DEF Retire, Go, args
  <2>2. /\ At(p, kind)' = None
        /\ \A k \in Kinds \ {kind} : At(p, k)' = At(p, k)
        /\ \A o \in Outputs, k \in Kinds :
              disk'[Target(o, k)] # disk[Target(o, k)] => o = output[p]
    BY <1>0, <2>1, WriteAt
  <2>3. Frame(p)
    BY <1>0, <2>1, <2>2 DEF Frame, TypeOK
  <2> QED BY <1>0, <2>1, <2>2, <2>3 DEF TypeOK
<1>2. CASE Retire(p, "report", "retireReport", "retireVideo")
  <2>1. /\ Frame(p)
        /\ phase[p] = "retireReport" /\ phase'[p] = "retireVideo"
        /\ At(p, "report")' = None /\ saved'[p]["report"] = At(p, "report")
        /\ \A k \in Kinds \ {"report"} : At(p, k)' = At(p, k) /\ saved'[p][k] = saved[p][k]
        /\ UNCHANGED <<lock, output, outcome, staged, published, found>>
    BY <1>1, <1>2, KindsAre
  <2>2. State(p)'
    BY <1>0, <2>1, KindsAre
    DEF State, EarlyState, AttemptState, RollbackState, LateState, Intact, Moved, Kept
  <2> QED BY <2>1, <2>2, FoundStaysWhole, NoReportIsWhole DEF Step
<1>3. CASE Retire(p, "video", "retireVideo", "retireFrames")
  <2>1. /\ Frame(p)
        /\ phase[p] = "retireVideo" /\ phase'[p] = "retireFrames"
        /\ At(p, "video")' = None /\ saved'[p]["video"] = At(p, "video")
        /\ \A k \in Kinds \ {"video"} : At(p, k)' = At(p, k) /\ saved'[p][k] = saved[p][k]
        /\ UNCHANGED <<lock, output, outcome, staged, published, found>>
    BY <1>1, <1>3, KindsAre
  <2>2. State(p)' /\ At(p, "report")' = None
    BY <1>0, <2>1, KindsAre
    DEF State, EarlyState, AttemptState, RollbackState, LateState, Intact, Moved, Kept
  <2> QED BY <2>1, <2>2, FoundStaysWhole, NoReportIsWhole DEF Step
<1>4. CASE Retire(p, "frames", "retireFrames", "mkdir")
  <2>1. /\ Frame(p)
        /\ phase[p] = "retireFrames" /\ phase'[p] = "mkdir"
        /\ At(p, "frames")' = None /\ saved'[p]["frames"] = At(p, "frames")
        /\ \A k \in Kinds \ {"frames"} : At(p, k)' = At(p, k) /\ saved'[p][k] = saved[p][k]
        /\ UNCHANGED <<lock, output, outcome, staged, published, found>>
    BY <1>1, <1>4, KindsAre
  <2>2. State(p)' /\ At(p, "report")' = None
    BY <1>0, <2>1, KindsAre
    DEF State, EarlyState, AttemptState, RollbackState, LateState, Intact, Moved, Kept
  <2> QED BY <2>1, <2>2, FoundStaysWhole, NoReportIsWhole DEF Step
<1> QED BY <1>2, <1>3, <1>4

\* Frame and artifacts of a step of a holder that writes one kind and moves no backup.
LEMMA WritingStep ==
    ASSUME BundleInv, TypeOK', Separate, NEW p \in Producers, NEW kind \in Kinds,
           NEW content, NEW from \in Attempts \cup Rollbacks, NEW to \in Phases \ {"new"},
           phase[p] = from, phase' = [phase EXCEPT ![p] = to],
           Write(p, kind, content), UNCHANGED <<lock, output, found>>,
           \A q \in Producers \ {p} :
              /\ outcome'[q] = outcome[q] /\ saved'[q] = saved[q]
              /\ staged'[q] = staged[q] /\ published'[q] = published[q]
    PROVE  /\ Frame(p)
           /\ phase'[p] = to
           /\ At(p, kind)' = content
           /\ \A k \in Kinds \ {kind} : At(p, k)' = At(p, k)
<1>1. TypeOK
  BY DEF BundleInv
<1>2. /\ At(p, kind)' = content
      /\ \A k \in Kinds \ {kind} : At(p, k)' = At(p, k)
      /\ \A o \in Outputs, k \in Kinds :
            disk'[Target(o, k)] # disk[Target(o, k)] => o = output[p]
  BY <1>1, WriteAt
<1> QED
  BY <1>1, <1>2 DEF Frame, TypeOK, Holding, InContext, Attempts, Rollbacks, Phases

\* Publishing an artifact, or one file of the frames, is a good step.
LEMMA PublishSteps ==
    ASSUME BundleInv, TypeOK', Separate, NEW p \in Producers,
           \/ MakeFrames(p) \/ Fill(p) \/ Filled(p)
           \/ Publish(p, "video", "publishVideo", "publishReport", "open")
           \/ Publish(p, "report", "publishReport", "cleanup", "complete")
    PROVE  Step(p)
<1> USE DEF Holding, InContext, Attempts, Rollbacks, Phases
<1>0. State(p) /\ TypeOK
  BY DEF BundleInv
<1>1. CASE MakeFrames(p)
  <2>1. /\ phase[p] = "mkdir" /\ phase' = [phase EXCEPT ![p] = "fill"]
        /\ Write(p, "frames", EmptyDir)
        /\ published' = [published EXCEPT ![p] = published[p] \cup {"frames"}]
        /\ UNCHANGED <<lock, output, outcome, saved, staged, found>>
    BY <1>1 DEF MakeFrames, Go, args
  <2>2. /\ Frame(p) /\ phase'[p] = "fill" /\ At(p, "frames")' = EmptyDir
        /\ \A k \in Kinds \ {"frames"} : At(p, k)' = At(p, k)
    BY <1>0, <2>1, WritingStep, KindsAre DEF TypeOK
  <2>3. published'[p] = {"frames"} /\ staged'[p] = FrameFiles
    BY <1>0, <2>1 DEF State, AttemptState, TypeOK
  <2>4. State(p)' /\ At(p, "report")' = None
    BY <1>0, <2>1, <2>2, <2>3, KindsAre, ContentType
    DEF State, EarlyState, AttemptState, RollbackState, LateState, Moved, Kept
  <2> QED BY <2>1, <2>2, <2>4, FoundStaysWhole, NoReportIsWhole DEF Step
<1>2. CASE Fill(p)
  <2>1. PICK f \in staged[p] :
           /\ phase[p] = "fill"
           /\ Write(p, "frames", [At(p, "frames") EXCEPT ![f] = p])
           /\ staged' = [staged EXCEPT ![p] = staged[p] \ {f}]
           /\ UNCHANGED <<lock, output, phase, outcome, saved, published, found>>
    BY <1>2 DEF Fill, args
  <2>2. phase' = [phase EXCEPT ![p] = "fill"]
    BY <1>0, <2>1 DEF TypeOK
  <2>3. /\ Frame(p) /\ At(p, "frames")' = [At(p, "frames") EXCEPT ![f] = p]
        /\ \A k \in Kinds \ {"frames"} : At(p, k)' = At(p, k)
    <3>1. PICK content : content = [At(p, "frames") EXCEPT ![f] = p]
      OBVIOUS
    <3>2. Write(p, "frames", content)
      BY <2>1, <3>1
    <3>3. /\ Frame(p) /\ At(p, "frames")' = content
          /\ \A k \in Kinds \ {"frames"} : At(p, k)' = At(p, k)
      BY <1>0, <2>1, <2>2, <3>2, WritingStep, KindsAre DEF TypeOK
    <3> QED BY <3>1, <3>3
  <2>4. /\ At(p, "frames") \in FrameDirs
        /\ \A g \in FrameFiles \ staged[p] : At(p, "frames")[g] = p
    <3>1. AttemptState(p) /\ phase[p] = "fill"
      BY <1>0, <2>1 DEF State
    <3> QED BY <3>1 DEF AttemptState
  <2>5. f \in FrameFiles /\ staged'[p] = staged[p] \ {f}
    BY <1>0, <2>1 DEF TypeOK
  <2>6. [At(p, "frames") EXCEPT ![f] = p] \in FrameDirs
    BY <2>4, <2>5, ContentType DEF DirFiles
  <2>7. \A g \in FrameFiles \ (staged[p] \ {f}) : [At(p, "frames") EXCEPT ![f] = p][g] = p
    BY <2>4, <2>5 DEF FrameDirs, DirFiles
  <2>8. /\ At(p, "frames")' \in FrameDirs
        /\ \A g \in FrameFiles \ staged'[p] : At(p, "frames")'[g] = p
    BY <2>3, <2>5, <2>6, <2>7
  <2>9. State(p)' /\ At(p, "report")' = None
    BY <1>0, <2>1, <2>3, <2>5, <2>8, KindsAre
    DEF State, EarlyState, AttemptState, RollbackState, LateState, Moved, Kept
  <2> QED BY <2>1, <2>3, <2>9, FoundStaysWhole, NoReportIsWhole DEF Step
<1>3. CASE Filled(p)
  <2>1. /\ phase[p] = "fill" /\ phase' = [phase EXCEPT ![p] = "publishVideo"]
        /\ staged[p] = {}
        /\ UNCHANGED <<disk, lock, output, outcome, saved, staged, published, found>>
    BY <1>3 DEF Filled, Go, args, own
  <2>2. Frame(p) /\ phase'[p] = "publishVideo"
    BY <1>0, <2>1 DEF Frame, TypeOK
  <2>3. \A kind \in Kinds : At(p, kind)' = At(p, kind)
    BY <2>1, SameAt
  <2>4. IsOf(p, "frames", At(p, "frames"))
    BY <1>0, <2>1 DEF State, AttemptState, IsOf
  <2>5. State(p)' /\ At(p, "report")' = None
    BY <1>0, <2>1, <2>2, <2>3, <2>4, KindsAre
    DEF State, EarlyState, AttemptState, RollbackState, LateState, Moved, Kept
  <2> QED BY <2>1, <2>2, <2>5, FoundStaysWhole, NoReportIsWhole DEF Step
<1>4. CASE Publish(p, "video", "publishVideo", "publishReport", "open")
  <2>1. /\ phase[p] = "publishVideo" /\ phase' = [phase EXCEPT ![p] = "publishReport"]
        /\ outcome' = [outcome EXCEPT ![p] = "open"]
        /\ Write(p, "video", p)
        /\ published' = [published EXCEPT ![p] = published[p] \cup {"video"}]
        /\ UNCHANGED <<lock, output, saved, staged, found>>
    BY <1>4 DEF Publish, End, Go, args
  <2>2. /\ Frame(p) /\ phase'[p] = "publishReport" /\ At(p, "video")' = p
        /\ \A k \in Kinds \ {"video"} : At(p, k)' = At(p, k)
    BY <1>0, <2>1, WritingStep, KindsAre DEF TypeOK
  <2>3. published'[p] = {"frames", "video"} /\ outcome'[p] = "open"
    BY <1>0, <2>1 DEF State, AttemptState, TypeOK
  <2>4. State(p)' /\ At(p, "report")' = None
    BY <1>0, <2>1, <2>2, <2>3, KindsAre
    DEF State, EarlyState, AttemptState, RollbackState, LateState, Moved, Kept
  <2> QED BY <2>1, <2>2, <2>4, FoundStaysWhole, NoReportIsWhole DEF Step
<1>5. CASE Publish(p, "report", "publishReport", "cleanup", "complete")
  <2>1. /\ phase[p] = "publishReport" /\ phase' = [phase EXCEPT ![p] = "cleanup"]
        /\ outcome' = [outcome EXCEPT ![p] = "complete"]
        /\ Write(p, "report", p)
        /\ published' = [published EXCEPT ![p] = published[p] \cup {"report"}]
        /\ UNCHANGED <<lock, output, saved, staged, found>>
    BY <1>5 DEF Publish, End, Go, args
  <2>2. /\ Frame(p) /\ phase'[p] = "cleanup" /\ At(p, "report")' = p
        /\ \A k \in Kinds \ {"report"} : At(p, k)' = At(p, k)
    BY <1>0, <2>1, WritingStep, KindsAre DEF TypeOK
  <2>3. outcome'[p] = "complete"
    BY <1>0, <2>1 DEF TypeOK
  <2>4. State(p)'
    BY <1>0, <2>1, <2>2, <2>3, KindsAre
    DEF State, EarlyState, AttemptState, RollbackState, LateState
  <2>5. At(p, "video") = p /\ IsOf(p, "frames", At(p, "frames"))
    BY <1>0, <2>1 DEF State, AttemptState
  <2>6. Whole(There(output[p]), output[p])'
    <3>1. At(p, "video")' = p /\ IsOf(p, "frames", At(p, "frames"))'
      BY <2>2, <2>5, KindsAre
    <3>2. \A kind \in Kinds : IsOf(p, kind, At(p, kind))'
      BY <2>2, <3>1 DEF IsOf, Kinds
    <3>3. output'[p] = output[p] /\ phase'[p] # "new"
      BY <2>1, <2>2
    <3> QED BY <2>2, <3>2, <3>3, KindsAre DEF Whole, There, At, Home
  <2> QED BY <2>1, <2>2, <2>4, <2>6, FoundStaysWhole DEF Step
<1> QED BY <1>1, <1>2, <1>3, <1>4, <1>5

\* A step that writes nothing and changes only where p is and how it ended.
LEMMA QuietStep ==
    ASSUME BundleInv, TypeOK', NEW p \in Producers, NEW from \in Phases \ {"killed", "ended"},
           NEW to \in Phases \ {"new"}, NEW result \in Outcomes,
           phase[p] = from, phase' = [phase EXCEPT ![p] = to],
           outcome' = [outcome EXCEPT ![p] = result],
           UNCHANGED <<disk, lock, output, saved, staged, published, found>>
    PROVE  /\ Frame(p) /\ phase'[p] = to /\ outcome'[p] = result
           /\ \A kind \in Kinds :
                 /\ At(p, kind)' = At(p, kind) /\ Intact(p, kind)' = Intact(p, kind)
                 /\ Kept(p, kind)' = Kept(p, kind) /\ Moved(p, kind)' = Moved(p, kind)
                 /\ Either(p, kind)' = Either(p, kind)
           /\ State(p)' => Step(p)
<1>1. TypeOK
  BY DEF BundleInv
<1>2. Frame(p) /\ phase'[p] = to /\ outcome'[p] = result
  BY <1>1 DEF Frame, TypeOK
<1>3. \A kind \in Kinds : /\ At(p, kind)' = At(p, kind) /\ Intact(p, kind)' = Intact(p, kind)
                          /\ Kept(p, kind)' = Kept(p, kind) /\ Moved(p, kind)' = Moved(p, kind)
                          /\ Either(p, kind)' = Either(p, kind)
  BY DEF At, Intact, Kept, Moved, Either
<1>4. State(p)' => Step(p)
  BY <1>2, FoundStaysWhole, DiskStaysWhole DEF Step
<1> QED BY <1>2, <1>3, <1>4

\* Taking back what was published is a good step.
LEMMA UndoSteps ==
    ASSUME BundleInv, TypeOK', Separate, NEW p \in Producers, UndoVideo(p) \/ UndoFrames(p)
    PROVE  Step(p)
<1> USE DEF Holding, InContext, Attempts, Rollbacks, Phases
<1>0. State(p) /\ TypeOK
  BY DEF BundleInv
<1>1. ASSUME NEW from \in Rollbacks, NEW to \in Rollbacks, Pass(p, from, to, "open")
      PROVE  /\ phase[p] = from /\ phase'[p] = to /\ Frame(p) /\ outcome'[p] = "open"
             /\ \A kind \in Kinds :
                   /\ At(p, kind)' = At(p, kind) /\ Intact(p, kind)' = Intact(p, kind)
                   /\ Kept(p, kind)' = Kept(p, kind) /\ Moved(p, kind)' = Moved(p, kind)
                   /\ Either(p, kind)' = Either(p, kind)
             /\ UNCHANGED <<lock, output, published, found, saved, staged>>
             /\ State(p)' => Step(p)
  <2>1. /\ phase[p] = from /\ phase' = [phase EXCEPT ![p] = to]
        /\ outcome' = [outcome EXCEPT ![p] = "open"]
        /\ UNCHANGED <<disk, lock, output, saved, staged, published, found>>
    BY <1>1 DEF Pass, End, Go, args, own
  <2> QED BY <2>1, QuietStep DEF Outcomes
<1>2. CASE "video" \notin published[p] /\ Pass(p, "undoVideo", "undoFrames", "open")
  <2>1. State(p)'
    BY <1>0, <1>1, <1>2, KindsAre
    DEF State, EarlyState, AttemptState, RollbackState, LateState
  <2> QED BY <1>1, <1>2, <2>1
<1>3. CASE /\ "video" \in published[p] /\ Go(p, "undoVideo", "undoFrames")
           /\ Write(p, "video", None) /\ UNCHANGED <<lock, args, outcome, own, found>>
  <2>1. /\ phase[p] = "undoVideo" /\ phase' = [phase EXCEPT ![p] = "undoFrames"]
        /\ UNCHANGED <<lock, output, outcome, saved, staged, published, found>>
    BY <1>3 DEF Go, args, own
  <2>2. /\ Frame(p) /\ phase'[p] = "undoFrames" /\ At(p, "video")' = None
        /\ \A k \in Kinds \ {"video"} : At(p, k)' = At(p, k)
    BY <1>0, <1>3, <2>1, WritingStep, KindsAre DEF TypeOK
  <2>3. At(p, "report") = None /\ Kept(p, "video")
    BY <1>0, <1>3, <2>1 DEF State, RollbackState
  <2>4. State(p)' /\ At(p, "report")' = None
    BY <1>0, <1>3, <2>1, <2>2, <2>3, KindsAre
    DEF State, EarlyState, AttemptState, RollbackState, LateState, Intact, Moved, Kept, Either
  <2> QED BY <2>1, <2>2, <2>4, FoundStaysWhole, NoReportIsWhole DEF Step
<1>4. CASE "frames" \notin published[p] /\ Pass(p, "undoFrames", "restoreFrames", "open")
  <2>1. State(p)'
    BY <1>0, <1>1, <1>4, KindsAre
    DEF State, EarlyState, AttemptState, RollbackState, LateState
  <2> QED BY <1>1, <1>4, <2>1
<1>5. CASE /\ "frames" \in published[p] /\ Go(p, "undoFrames", "restoreFrames")
           /\ Write(p, "frames", None) /\ UNCHANGED <<lock, args, outcome, own, found>>
  <2>1. /\ phase[p] = "undoFrames" /\ phase' = [phase EXCEPT ![p] = "restoreFrames"]
        /\ UNCHANGED <<lock, output, outcome, saved, staged, published, found>>
    BY <1>5 DEF Go, args, own
  <2>2. /\ Frame(p) /\ phase'[p] = "restoreFrames" /\ At(p, "frames")' = None
        /\ \A k \in Kinds \ {"frames"} : At(p, k)' = At(p, k)
    BY <1>0, <1>5, <2>1, WritingStep, KindsAre DEF TypeOK
  <2>3. At(p, "report") = None /\ Kept(p, "frames")
    BY <1>0, <1>5, <2>1 DEF State, RollbackState
  <2>4. State(p)' /\ At(p, "report")' = None
    BY <1>0, <1>5, <2>1, <2>2, <2>3, KindsAre
    DEF State, EarlyState, AttemptState, RollbackState, LateState, Intact, Moved, Kept, Either
  <2> QED BY <2>1, <2>2, <2>4, FoundStaysWhole, NoReportIsWhole DEF Step
<1>6. ASSUME NEW content, "frames" \in published[p], phase[p] = "undoFrames",
             Write(p, "frames", content), UNCHANGED <<lock, args, phase, outcome, own, found>>
      PROVE  Step(p)
  <2>1. /\ phase' = [phase EXCEPT ![p] = "undoFrames"]
        /\ UNCHANGED <<lock, output, phase, outcome, saved, staged, published, found>>
    BY <1>0, <1>6 DEF args, own, TypeOK
  <2>2. Frame(p) /\ \A k \in Kinds \ {"frames"} : At(p, k)' = At(p, k)
    BY <1>0, <1>6, <2>1, WritingStep, KindsAre DEF TypeOK
  <2>3. At(p, "report") = None
    BY <1>0, <1>6 DEF State, RollbackState
  <2>4. State(p)' /\ At(p, "report")' = None
    BY <1>0, <1>6, <2>1, <2>2, <2>3, KindsAre
    DEF State, EarlyState, AttemptState, RollbackState, LateState, Intact, Moved, Kept, Either
  <2> QED BY <2>1, <2>2, <2>4, FoundStaysWhole, NoReportIsWhole DEF Step
<1>7. CASE UndoVideo(p)
  BY <1>2, <1>3, <1>7 DEF UndoVideo
<1>8. CASE UndoFrames(p)
  BY <1>4, <1>5, <1>6, <1>8 DEF UndoFrames
<1> QED BY <1>7, <1>8

\* A step of the handler that finds nothing to put back, and one that puts it back.
LEMMA RestoreStep ==
    ASSUME BundleInv, TypeOK', Separate, NEW p \in Producers, NEW kind \in Kinds,
           NEW from \in Rollbacks, NEW to \in Phases \ {"new"}, NEW result \in Outcomes,
           Restore(p, kind, from, to, result), Either(p, kind)
    PROVE  /\ phase[p] = from /\ phase'[p] = to /\ outcome'[p] = result /\ Frame(p)
           /\ Intact(p, kind)'
           /\ \A k \in Kinds \ {kind} :
                 At(p, k)' = At(p, k) /\ saved'[p][k] = saved[p][k]
           /\ At(p, kind)' # At(p, kind) => ~Intact(p, kind)
           /\ UNCHANGED <<lock, output, published, found>>
<1> USE DEF Holding, InContext, Attempts, Rollbacks, Phases
<1>0. TypeOK
  BY DEF BundleInv
<1>1. CASE saved[p][kind] = None /\ Pass(p, from, to, result)
  <2>1. /\ phase[p] = from /\ phase' = [phase EXCEPT ![p] = to]
        /\ outcome' = [outcome EXCEPT ![p] = result]
        /\ UNCHANGED <<disk, lock, output, saved, staged, published, found>>
    BY <1>1 DEF Pass, End, Go, args, own
  <2>2. /\ Frame(p) /\ phase'[p] = to /\ outcome'[p] = result
        /\ \A k \in Kinds : At(p, k)' = At(p, k) /\ Intact(p, k)' = Intact(p, k)
    BY <2>1, QuietStep
  <2>3. Intact(p, kind)
    BY <1>1 DEF Either, Intact, Moved, Kept
  <2>4. Intact(p, kind)'
    BY <2>2, <2>3
  <2>5. \A k \in Kinds \ {kind} : At(p, k)' = At(p, k) /\ saved'[p][k] = saved[p][k]
    BY <2>1, <2>2
  <2>6. At(p, kind)' = At(p, kind)
    BY <2>2
  <2> QED BY <2>1, <2>2, <2>4, <2>5, <2>6
<1>2. CASE ~(saved[p][kind] = None)
  <2>1. /\ phase[p] = from /\ phase' = [phase EXCEPT ![p] = to]
        /\ outcome' = [outcome EXCEPT ![p] = result]
        /\ Write(p, kind, saved[p][kind])
        /\ saved' = [saved EXCEPT ![p][kind] = None]
        /\ UNCHANGED <<lock, output, staged, published, found>>
    BY <1>2 DEF Restore, End, Go, args
  <2>2. PICK content : content = saved[p][kind]
    OBVIOUS
  <2>3. /\ Frame(p) /\ phase'[p] = to /\ At(p, kind)' = content
        /\ \A k \in Kinds \ {kind} : At(p, k)' = At(p, k)
    <3>1. Write(p, kind, content)
      BY <2>1, <2>2
    <3>2. \A q \in Producers \ {p} :
             /\ outcome'[q] = outcome[q] /\ saved'[q] = saved[q]
             /\ staged'[q] = staged[q] /\ published'[q] = published[q]
      BY <1>0, <2>1 DEF TypeOK
    <3>3. /\ from \in Attempts \cup Rollbacks /\ to \in Phases \ {"new"} /\ phase[p] = from
          /\ phase' = [phase EXCEPT ![p] = to] /\ UNCHANGED <<lock, output, found>>
      BY <2>1
    <3> HIDE DEF Attempts, Rollbacks, Phases, InContext, Holding
    <3> QED BY <3>1, <3>2, <3>3, WritingStep
  <2>4. outcome'[p] = result /\ saved'[p][kind] = None
        /\ \A k \in Kinds \ {kind} : saved'[p][k] = saved[p][k]
    BY <1>0, <2>1 DEF TypeOK
  <2>5. content = found[p][kind] /\ ~Intact(p, kind)
    BY <1>2, <2>2 DEF Either, Intact, Moved, Kept
  <2>6. Intact(p, kind)'
    BY <2>1, <2>3, <2>4, <2>5 DEF Intact
  <2>7. At(p, kind)' # At(p, kind) => ~Intact(p, kind)
    BY <2>5
  <2>8. \A k \in Kinds \ {kind} : At(p, k)' = At(p, k) /\ saved'[p][k] = saved[p][k]
    BY <2>3, <2>4
  <2>9. /\ phase[p] = from /\ phase'[p] = to /\ outcome'[p] = result /\ Frame(p)
        /\ UNCHANGED <<lock, output, published, found>>
    BY <2>1, <2>3, <2>4
  <2> QED BY <2>6, <2>7, <2>8, <2>9
<1> QED BY <1>1, <1>2 DEF Restore

\* Putting an old artifact back is a good step.
LEMMA RestoreSteps ==
    ASSUME BundleInv, TypeOK', Separate, NEW p \in Producers,
           \/ Restore(p, "frames", "restoreFrames", "restoreVideo", "open")
           \/ Restore(p, "video", "restoreVideo", "restoreReport", "open")
           \/ Restore(p, "report", "restoreReport", "cleanup", "failed")
    PROVE  Step(p)
<1> USE DEF Holding, InContext, Attempts, Rollbacks, Phases, Outcomes
<1>0. State(p) /\ TypeOK
  BY DEF BundleInv
<1>1. ASSUME NEW kind \in {"frames", "video"}, NEW from \in Rollbacks, NEW to \in Rollbacks,
             Restore(p, kind, from, to, "open"), Either(p, kind)
      PROVE  /\ phase[p] = from /\ phase'[p] = to /\ outcome'[p] = "open" /\ Frame(p)
             /\ Intact(p, kind)'
             /\ \A k \in Kinds \ {kind} :
                   /\ At(p, k)' = At(p, k)
                   /\ Intact(p, k)' = Intact(p, k) /\ Either(p, k)' = Either(p, k)
             /\ At(p, kind)' # At(p, kind) => ~Intact(p, kind)
             /\ At(p, "report")' # None => \A k \in Kinds : At(p, k)' = At(p, k)
             /\ UNCHANGED <<lock, output, published, found>>
  <2>1. /\ phase[p] = from /\ phase'[p] = to /\ outcome'[p] = "open" /\ Frame(p)
        /\ Intact(p, kind)'
        /\ \A k \in Kinds \ {kind} :
              At(p, k)' = At(p, k) /\ saved'[p][k] = saved[p][k]
        /\ At(p, kind)' # At(p, kind) => ~Intact(p, kind)
        /\ UNCHANGED <<lock, output, published, found>>
    BY <1>1, RestoreStep, KindsAre
  <2>2. \A k \in Kinds \ {kind} :
           Intact(p, k)' = Intact(p, k) /\ Either(p, k)' = Either(p, k)
    BY <2>1 DEF Intact, Either, Moved, Kept
  <2>3. At(p, "report") # None => \A k \in Kinds : Intact(p, k)
    BY <1>0, <2>1 DEF State, RollbackState
  <2>4. At(p, "report")' = At(p, "report")
    BY <2>1, KindsAre
  <2> QED BY <2>1, <2>2, <2>3, <2>4, KindsAre
<1>2. ASSUME Frame(p), At(p, "report")' # None => \A k \in Kinds : At(p, k)' = At(p, k),
             UNCHANGED output, phase[p] # "new"
      PROVE  Whole(There(output[p]), output[p])'
  <2>1. CASE At(p, "report")' = None
    BY <2>1, NoReportIsWhole
  <2>2. CASE \A k \in Kinds : At(p, k)' = At(p, k)
    <3>1. Whole(There(output[p]), output[p])
      BY <1>0 DEF BundleInv, WholeInv, TypeOK
    <3>2. \A r \in Producers, o \in Outputs : Home(r, o) => Home(r, o)'
      BY <1>2 DEF Frame, Home
    <3>3. PICK o \in Outputs : o = output[p] /\ o = output'[p]
      BY <1>0, <1>2 DEF TypeOK
    <3>4. There(o)' = There(o)
      BY <2>2, <3>3 DEF There, At
    <3>5. Whole(There(o), o)'
      BY <3>1, <3>2, <3>3, <3>4, KindsAre DEF Whole
    <3> QED BY <3>3, <3>5
  <2> QED BY <1>2, <2>1, <2>2
<1>3. CASE Restore(p, "frames", "restoreFrames", "restoreVideo", "open")
  <2>1. /\ phase[p] = "restoreFrames"
        /\ Either(p, "frames") /\ Either(p, "video") /\ Either(p, "report")
        /\ "report" \notin published[p]
        /\ At(p, "report") # None =>
              published[p] = {} /\ \A kind \in Kinds : Intact(p, kind)
    BY <1>0, <1>3 DEF Restore, Pass, End, Go, State, RollbackState
  <2>2. /\ phase'[p] = "restoreVideo" /\ outcome'[p] = "open" /\ Frame(p)
        /\ Intact(p, "frames")'
        /\ \A k \in Kinds \ {"frames"} :
              /\ At(p, k)' = At(p, k)
              /\ Intact(p, k)' = Intact(p, k) /\ Either(p, k)' = Either(p, k)
        /\ At(p, "report")' # None => \A k \in Kinds : At(p, k)' = At(p, k)
        /\ UNCHANGED <<lock, output, published, found>>
    BY <1>1, <1>3, <2>1
  <2>3. State(p)'
    BY <1>0, <2>1, <2>2, KindsAre DEF State, EarlyState, AttemptState, RollbackState, LateState
  <2> QED BY <1>2, <2>1, <2>2, <2>3, FoundStaysWhole DEF Step
<1>4. CASE Restore(p, "video", "restoreVideo", "restoreReport", "open")
  <2>1. /\ phase[p] = "restoreVideo"
        /\ Intact(p, "frames") /\ Either(p, "video") /\ Either(p, "report")
        /\ "report" \notin published[p]
        /\ At(p, "report") # None =>
              published[p] = {} /\ \A kind \in Kinds : Intact(p, kind)
    BY <1>0, <1>4 DEF Restore, Pass, End, Go, State, RollbackState
  <2>2. /\ phase'[p] = "restoreReport" /\ outcome'[p] = "open" /\ Frame(p)
        /\ Intact(p, "video")'
        /\ \A k \in Kinds \ {"video"} :
              /\ At(p, k)' = At(p, k)
              /\ Intact(p, k)' = Intact(p, k) /\ Either(p, k)' = Either(p, k)
        /\ At(p, "report")' # None => \A k \in Kinds : At(p, k)' = At(p, k)
        /\ UNCHANGED <<lock, output, published, found>>
    BY <1>1, <1>4, <2>1
  <2>3. State(p)'
    BY <1>0, <2>1, <2>2, KindsAre DEF State, EarlyState, AttemptState, RollbackState, LateState
  <2> QED BY <1>2, <2>1, <2>2, <2>3, FoundStaysWhole DEF Step
<1>5. CASE Restore(p, "report", "restoreReport", "cleanup", "failed")
  <2>1. /\ phase[p] = "restoreReport" /\ Either(p, "report")
        /\ Intact(p, "frames") /\ Intact(p, "video")
    BY <1>0, <1>5 DEF Restore, Pass, End, Go, State, RollbackState
  <2>2. /\ phase'[p] = "cleanup" /\ outcome'[p] = "failed" /\ Frame(p)
        /\ Intact(p, "report")'
        /\ \A k \in Kinds \ {"report"} :
              At(p, k)' = At(p, k) /\ saved'[p][k] = saved[p][k]
        /\ UNCHANGED <<lock, output, published, found>>
    BY <1>5, <2>1, RestoreStep, KindsAre
  <2>3. \A kind \in Kinds : At(p, kind)' = found'[p][kind]
    BY <2>1, <2>2 DEF Intact, Kinds
  <2>4. State(p)'
    BY <1>0, <2>1, <2>2, <2>3, KindsAre
    DEF State, EarlyState, AttemptState, RollbackState, LateState
  <2>5. Whole(found[p], output[p])'
    BY <2>2, FoundStaysWhole
  <2>6. Whole(There(output[p]), output[p])'
    <3>1. \A kind \in Kinds : There(output[p])[kind]' = found'[p][kind]
      BY <2>3 DEF There, At
    <3> QED BY <2>5, <3>1, KindsAre DEF Whole
  <2> QED BY <2>2, <2>4, <2>5, <2>6 DEF Step
<1> QED BY <1>3, <1>4, <1>5

\* In every phase, unless p has published its report or given up restoring, what it found
\* is somewhere.
LEMMA OldIsSomewhere ==
    ASSUME TypeOK, NEW p \in Producers, State(p), outcome[p] \notin {"complete", "abandoned"},
           phase[p] = "killed" => lock[output[p]] = p
    PROVE  \A kind \in Kinds : found[p][kind] \in {None, At(p, kind), saved[p][kind]}
<1> USE DEF Attempts, Rollbacks
<1>1. CASE phase[p] \in {"new", "ready", "locked", "ended"}
  BY <1>1, NothingFound DEF State, EarlyState, LateState
<1>2. CASE phase[p] \in {"render", "check", "retireReport"}
  BY <1>2 DEF State, EarlyState, Intact
<1>3. CASE phase[p] \in Attempts \ {"retireReport"}
  <2>1. AttemptState(p)
    BY DEF State
  <2>2. Kept(p, "report")
    BY <1>3, <2>1 DEF AttemptState, Moved
  <2>3. Kept(p, "video") \/ Intact(p, "video")
    BY <1>3, <2>1 DEF AttemptState, Moved
  <2>4. Kept(p, "frames") \/ Intact(p, "frames")
    BY <1>3, <2>1 DEF AttemptState, Moved
  <2> QED BY <2>2, <2>3, <2>4 DEF Kept, Intact, Kinds
<1>4. CASE phase[p] \in Rollbacks
  <2>1. RollbackState(p)
    BY DEF State
  <2>2. \A kind \in Kinds : Kept(p, kind) \/ Intact(p, kind)
    BY <1>4, <2>1 DEF RollbackState, Either, Moved, Kinds
  <2> QED BY <2>2 DEF Kept, Intact
<1>5. CASE phase[p] \in {"cleanup", "unlock", "killed"}
  <2>1. outcome[p] \in {"open", "refused", "failed"} /\ LateState(p)
    BY DEF TypeOK, Outcomes, State
  <2> QED BY <1>5, <2>1, NothingFound DEF LateState
<1> QED BY <1>1, <1>2, <1>3, <1>4, <1>5 DEF TypeOK, Phases, InContext

\* An error, whatever it interrupts.
LEMMA FaultStep ==
    ASSUME BundleInv, TypeOK', NEW p \in Producers, Fault(p)
    PROVE  Step(p)
<1> USE DEF Holding, InContext, Attempts, Rollbacks, Phases, Outcomes
<1>0. State(p) /\ TypeOK
  BY DEF BundleInv
<1>1. ASSUME NEW from \in Phases \ {"killed", "ended"}, NEW to \in Phases \ {"new"},
             NEW result \in Outcomes, End(p, from, to, result),
             UNCHANGED <<disk, lock, args, own, found>>
      PROVE  /\ phase[p] = from /\ phase'[p] = to /\ Frame(p) /\ outcome'[p] = result
             /\ \A kind \in Kinds :
                   /\ At(p, kind)' = At(p, kind) /\ Intact(p, kind)' = Intact(p, kind)
                   /\ Kept(p, kind)' = Kept(p, kind) /\ Moved(p, kind)' = Moved(p, kind)
                   /\ Either(p, kind)' = Either(p, kind)
             /\ UNCHANGED <<lock, output, published, found, saved, staged>>
             /\ State(p)' => Step(p)
  <2>1. /\ phase[p] = from /\ phase' = [phase EXCEPT ![p] = to]
        /\ outcome' = [outcome EXCEPT ![p] = result]
        /\ UNCHANGED <<disk, lock, output, saved, staged, published, found>>
    BY <1>1 DEF End, Go, args, own
  <2> HIDE DEF Holding, InContext, Attempts, Rollbacks, Phases, Outcomes
  <2> QED BY <2>1, QuietStep
<1>2. UNCHANGED <<disk, lock, args, own, found>>
  BY DEF Fault
<1>3. ASSUME NEW from \in {"new", "ready"}, End(p, from, "ended", "refused") PROVE Step(p)
  <2>1. State(p)'
    BY <1>0, <1>1, <1>2, <1>3
    DEF State, EarlyState, AttemptState, RollbackState, LateState
  <2> QED BY <1>1, <1>2, <1>3, <2>1
<1>4. CASE End(p, "locked", "unlock", "refused")
  <2>1. State(p)'
    BY <1>0, <1>1, <1>2, <1>4
    DEF State, EarlyState, AttemptState, RollbackState, LateState
  <2> QED BY <1>1, <1>2, <1>4, <2>1
<1>5. ASSUME NEW from \in {"render", "check"}, End(p, from, "cleanup", "failed")
      PROVE  Step(p)
  <2>1. \A kind \in Kinds : At(p, kind) = found[p][kind]
    BY <1>0, <1>1, <1>2, <1>5 DEF State, EarlyState, Intact
  <2>2. State(p)'
    BY <1>0, <1>1, <1>2, <1>5, <2>1
    DEF State, EarlyState, AttemptState, RollbackState, LateState
  <2> QED BY <1>1, <1>2, <1>5, <2>2
<1>6. ASSUME NEW from \in Attempts, End(p, from, "undoVideo", "open") PROVE Step(p)
  <2>1. /\ phase[p] = from /\ phase'[p] = "undoVideo" /\ outcome'[p] = "open"
        /\ \A kind \in Kinds :
              /\ At(p, kind)' = At(p, kind) /\ Intact(p, kind)' = Intact(p, kind)
              /\ Kept(p, kind)' = Kept(p, kind) /\ Moved(p, kind)' = Moved(p, kind)
              /\ Either(p, kind)' = Either(p, kind)
        /\ UNCHANGED <<lock, output, published, found, saved, staged>>
    BY <1>1, <1>2, <1>6
  <2>2. /\ At(p, "report") # None =>
              published[p] = {} /\ \A kind \in Kinds : Intact(p, kind)
        /\ Either(p, "report") /\ "report" \notin published[p]
    BY <1>0, <2>1, KindsAre DEF State, EarlyState, AttemptState, Moved, Either
  <2>3. IF "video" \in published[p] THEN Kept(p, "video") ELSE Either(p, "video")
    BY <1>0, <2>1, KindsAre DEF State, EarlyState, AttemptState, Moved, Either
  <2>4. IF "frames" \in published[p] THEN Kept(p, "frames") ELSE Either(p, "frames")
    BY <1>0, <2>1, KindsAre DEF State, EarlyState, AttemptState, Moved, Either
  <2>5. State(p)'
    BY <1>0, <2>1, <2>2, <2>3, <2>4, KindsAre
    DEF State, EarlyState, AttemptState, RollbackState, LateState
  <2> QED BY <1>1, <1>2, <1>6, <2>5
<1>7. ASSUME NEW from \in Rollbacks, End(p, from, "cleanup", "abandoned") PROVE Step(p)
  <2>1. /\ phase[p] = from /\ phase'[p] = "cleanup" /\ outcome'[p] = "abandoned"
        /\ UNCHANGED <<lock, output>>
    BY <1>1, <1>2, <1>7
  <2>2. lock'[output'[p]] = p
    BY <1>0, <2>1 DEF State
  <2>3. State(p)'
    BY <2>1, <2>2 DEF State, EarlyState, AttemptState, RollbackState, LateState
  <2> QED BY <1>1, <1>2, <1>7, <2>3
<1> QED BY <1>3, <1>4, <1>5, <1>6, <1>7 DEF Fault

\* The end of a run: __exit__(), a kill, and the removal of a lock that is left.
LEMMA EndSteps ==
    ASSUME BundleInv, TypeOK', NEW p \in Producers,
           Cleanup(p) \/ Unlock(p) \/ Kill(p) \/ Tidy(p)
    PROVE  Step(p)
<1> USE DEF Holding, InContext, Attempts, Rollbacks
<1>0. State(p) /\ TypeOK /\ p # None
  BY AnimationAssumption DEF BundleInv
<1>1. CASE Cleanup(p)
  <2>1. /\ phase[p] = "cleanup" /\ phase' = [phase EXCEPT ![p] = "unlock"]
        /\ saved' = [saved EXCEPT ![p] = Nothing] /\ staged' = [staged EXCEPT ![p] = {}]
        /\ UNCHANGED <<disk, lock, output, outcome, published, found>>
    BY <1>1 DEF Cleanup, Go, args
  <2>2. Frame(p) /\ phase'[p] = "unlock"
    BY <1>0, <2>1 DEF Frame, TypeOK
  <2>3. \A kind \in Kinds : At(p, kind)' = At(p, kind)
    BY <2>1, SameAt
  <2>4. State(p)'
    BY <1>0, <2>1, <2>2, <2>3 DEF State, EarlyState, AttemptState, RollbackState, LateState
  <2> QED BY <2>1, <2>2, <2>4, FoundStaysWhole, DiskStaysWhole DEF Step
<1>2. CASE Unlock(p)
  <2>1. /\ phase[p] = "unlock" /\ phase' = [phase EXCEPT ![p] = "ended"]
        /\ lock' = [lock EXCEPT ![output[p]] = None]
        /\ published' = [published EXCEPT ![p] = {}]
        /\ found' = [found EXCEPT ![p] = Nothing]
        /\ UNCHANGED <<disk, output, outcome, saved, staged>>
    BY <1>2 DEF Unlock, Go, args
  <2>2. lock[output[p]] = p
    BY <1>0, <2>1 DEF State
  <2>3. Frame(p) /\ phase'[p] = "ended" /\ found'[p] = Nothing
    BY <1>0, <2>1, <2>2 DEF Frame, TypeOK
  <2>4. State(p)'
    BY <1>0, <2>1, <2>3 DEF State, EarlyState, AttemptState, RollbackState, LateState
  <2> QED BY <2>1, <2>3, <2>4, FoundStaysWhole, DiskStaysWhole DEF Step
<1>3. CASE Kill(p)
  <2>1. /\ phase[p] \notin {"new", "ended", "killed"}
        /\ phase' = [phase EXCEPT ![p] = "killed"]
        /\ published' = [published EXCEPT ![p] = {}]
        /\ UNCHANGED <<disk, lock, output, outcome, saved, staged, found>>
    BY <1>3 DEF Kill, args
  <2>2. Frame(p) /\ phase'[p] = "killed"
    BY <1>0, <2>1 DEF Frame, TypeOK
  <2>3. \A kind \in Kinds : At(p, kind)' = At(p, kind)
    BY <2>1, SameAt
  <2>4. outcome[p] \notin {"complete", "abandoned"} =>
           \A kind \in Kinds : found[p][kind] \in {None, At(p, kind), saved[p][kind]}
    BY <1>0, <2>1, OldIsSomewhere
  <2>5. State(p)'
    BY <1>0, <2>1, <2>2, <2>3, <2>4
    DEF State, EarlyState, AttemptState, RollbackState, LateState
  <2> QED BY <2>1, <2>2, <2>5, FoundStaysWhole, DiskStaysWhole DEF Step
<1>4. CASE Tidy(p)
  <2>1. /\ phase[p] = "killed" /\ lock[output[p]] = p
        /\ lock' = [lock EXCEPT ![output[p]] = None]
        /\ saved' = [saved EXCEPT ![p] = Nothing] /\ staged' = [staged EXCEPT ![p] = {}]
        /\ found' = [found EXCEPT ![p] = Nothing]
        /\ UNCHANGED <<disk, output, phase, outcome, published>>
    BY <1>4 DEF Tidy, args
  <2>2. Frame(p) /\ lock'[output[p]] = None /\ found'[p] = Nothing
    BY <1>0, <2>1 DEF Frame, TypeOK
  <2>3. State(p)'
    BY <1>0, <2>1, <2>2 DEF State, EarlyState, AttemptState, RollbackState, LateState
  <2> QED BY <2>1, <2>2, <2>3, FoundStaysWhole, DiskStaysWhole DEF Step
<1> QED BY <1>1, <1>2, <1>3, <1>4
-----------------------------------------------------------------------------
(* The theorems *)

\* The invariant of bundles holds at first.
LEMMA BundleInit == Init => BundleInv
<1> SUFFICES ASSUME Init PROVE BundleInv
  OBVIOUS
<1>1. TypeOK
  BY InitType
<1>2. PICK kinds \in Remains : disk = Before(kinds)
  BY DEF Init
<1>3. ASSUME NEW o \in Outputs PROVE disk[Target(o, "report")] \notin Producers
  <2>1. Target(o, "report") \in Targets /\ Target(o, "report")[1] = "report"
    BY TargetType, KindsAre DEF Target
  <2>2. disk[Target(o, "report")] \in {None, User}
    BY <1>2, <2>1 DEF Before
  <2> QED BY <2>2, AnimationAssumption
<1>4. \A o \in Outputs : Whole(There(o), o)
  BY <1>3, KindsAre DEF Whole, There
<1>5. \A p \in Producers : found[p] = Nothing
  BY DEF Init
<1>6. WholeInv
  BY <1>4, <1>5, NothingFound, KindsAre, AnimationAssumption DEF WholeInv, Whole
<1>7. ASSUME NEW p \in Producers PROVE State(p)
  BY <1>5 DEF Init, State, EarlyState, AttemptState, RollbackState, LateState, Holding,
              InContext, Attempts, Rollbacks
<1> QED BY <1>1, <1>6, <1>7 DEF BundleInv

\* Whatever p does.
LEMMA StepOfRun ==
    ASSUME Separate, BundleInv, TypeOK', NEW p \in Producers,
           Produce(p) \/ Fault(p) \/ Kill(p) \/ Tidy(p)
    PROVE  Step(p)
<1>1. CASE Preflight(p) \/ Lock(p) \/ Enter(p) \/ Render(p) \/ CheckAgain(p)
  BY <1>1, EnterSteps
<1>2. CASE Commit(p) /\ ~CheckAgain(p)
  BY <1>2, RetireSteps, PublishSteps DEF Commit
<1>3. CASE Rollback(p)
  BY <1>3, UndoSteps, RestoreSteps DEF Rollback
<1>4. CASE Fault(p)
  BY <1>4, FaultStep
<1>5. CASE Cleanup(p) \/ Unlock(p) \/ Kill(p) \/ Tidy(p)
  BY <1>5, EndSteps
<1> QED BY <1>1, <1>2, <1>3, <1>4, <1>5 DEF Produce

\* A user's step changes frames directories, and what runs know of them, alone.
LEMMA UserKeeps ==
    ASSUME TypeOK, NEW o \in Outputs, UserActs(o), NEW q \in Producers
    PROVE  /\ UNCHANGED <<lock, output, request, phase, outcome, saved, staged, published>>
           /\ \A kind \in Kinds \ {"frames"} :
                 At(q, kind)' = At(q, kind) /\ found'[q][kind] = found[q][kind]
           /\ At(q, "frames") \in {None} \cup FrameDirs
           /\ At(q, "frames")' = IF Stem[output[q]] = Stem[o] THEN UsersWork(At(q, "frames"))
                                ELSE At(q, "frames")
           /\ found'[q]["frames"] =
                 IF Aware(q) /\ Stem[output[q]] = Stem[o] /\ found[q]["frames"] = At(q, "frames")
                 THEN UsersWork(found[q]["frames"]) ELSE found[q]["frames"]
           /\ Stem[output[q]] # Stem[o] \/ ~Aware(q) => found'[q] = found[q]
           /\ Stem[output[q]] = Stem[o] => phase[q] \notin Attempts \cup Rollbacks
<1>1. UNCHANGED <<lock, output, request, phase, outcome, saved, staged, published>>
  BY DEF UserActs, args, own
<1>2. output[q] \in Outputs /\ "frames" \in Kinds
  BY DEF TypeOK, Kinds
<1>3. At(q, "frames") \in {None} \cup FrameDirs
  BY <1>2, ContentType DEF TypeOK, At
<1>4. \A kind \in Kinds : At(q, kind)' =
        IF kind = "frames" /\ Stem[output[q]] = Stem[o] THEN UsersWork(At(q, kind))
        ELSE At(q, kind)
  BY <1>1, <1>2, UserDoes DEF At
<1>5. \A kind \in Kinds : found'[q][kind] =
        IF /\ kind = "frames" /\ Aware(q) /\ Stem[output[q]] = Stem[o]
           /\ found[q]["frames"] = At(q, "frames")
        THEN UsersWork(found[q][kind]) ELSE found[q][kind]
  BY UserDoes
<1>6. Stem[output[q]] # Stem[o] \/ ~Aware(q) => found'[q] = found[q]
  BY DEF UserActs
<1>7. Stem[output[q]] = Stem[o] => phase[q] \notin Attempts \cup Rollbacks
  BY DEF UserActs
<1> QED BY <1>1, <1>2, <1>3, <1>4, <1>5, <1>6, <1>7

\* So a user disturbs no run.
LEMMA UserKeepsState ==
    ASSUME BundleInv, NEW o \in Outputs, UserActs(o), NEW q \in Producers
    PROVE  State(q)'
<1> USE DEF Holding, InContext, Attempts, Rollbacks
<1>0. TypeOK /\ State(q)
  BY DEF BundleInv
<1>1. /\ UNCHANGED <<lock, output, request, phase, outcome, saved, staged, published>>
      /\ \A kind \in Kinds \ {"frames"} :
            At(q, kind)' = At(q, kind) /\ found'[q][kind] = found[q][kind]
      /\ At(q, "frames")' = IF Stem[output[q]] = Stem[o] THEN UsersWork(At(q, "frames"))
                           ELSE At(q, "frames")
      /\ found'[q]["frames"] =
            IF Aware(q) /\ Stem[output[q]] = Stem[o] /\ found[q]["frames"] = At(q, "frames")
            THEN UsersWork(found[q]["frames"]) ELSE found[q]["frames"]
      /\ Stem[output[q]] # Stem[o] \/ ~Aware(q) => found'[q] = found[q]
      /\ Stem[output[q]] = Stem[o] => phase[q] \notin Attempts \cup Rollbacks
  BY <1>0, UserKeeps
<1>2. CASE Stem[output[q]] # Stem[o]
  <2>1. found'[q] = found[q] /\ \A kind \in Kinds : At(q, kind)' = At(q, kind)
    BY <1>1, <1>2
  <2>2. \A kind \in Kinds :
          /\ Kept(q, kind)' = Kept(q, kind) /\ Intact(q, kind)' = Intact(q, kind)
          /\ Moved(q, kind)' = Moved(q, kind) /\ Either(q, kind)' = Either(q, kind)
    BY <1>1, <2>1 DEF Kept, Intact, Moved, Either
  <2>3. EarlyState(q)'
    BY <1>0, <1>1, <2>1, <2>2 DEF State, EarlyState
  <2>4. AttemptState(q)'
    BY <1>0, <1>1, <2>1, <2>2, KindsAre DEF State, AttemptState
  <2>5. RollbackState(q)'
    BY <1>0, <1>1, <2>1, <2>2, KindsAre DEF State, RollbackState
  <2>6. LateState(q)'
    BY <1>0, <1>1, <2>1, <2>2 DEF State, LateState
  <2> QED BY <1>0, <1>1, <2>3, <2>4, <2>5, <2>6 DEF State
<1>3. CASE Stem[output[q]] = Stem[o]
  <2>1. phase[q] \notin Attempts \cup Rollbacks
    BY <1>1, <1>3
  <2>2. Aware(q) => \A kind \in Kinds :
          /\ found[q][kind] = At(q, kind) => found'[q][kind] = At(q, kind)'
          /\ found[q][kind] # At(q, kind) => found'[q][kind] = found[q][kind]
    BY <1>1, <1>3
  <2>3. ASSUME phase[q] \in {"render", "check"}, NEW kind \in Kinds PROVE Intact(q, kind)'
    BY <1>0, <1>1, <2>2, <2>3 DEF State, EarlyState, Intact, Aware
  <2>4. EarlyState(q)'
    BY <1>0, <1>1, <2>1, <2>3 DEF State, EarlyState, Aware
  <2>5. AttemptState(q)' /\ RollbackState(q)'
    BY <1>0, <1>1, <2>1 DEF State, AttemptState, RollbackState
  <2>6. ASSUME phase[q] \in {"cleanup", "unlock"}, outcome[q] = "failed", NEW kind \in Kinds
        PROVE  At(q, kind)' = found'[q][kind]
    BY <1>0, <2>2, <2>6 DEF State, LateState, Aware
  <2>7. ASSUME phase[q] = "killed", NEW kind \in Kinds,
               found[q][kind] \in {None, At(q, kind), saved[q][kind]}
        PROVE  found'[q][kind] \in {None, At(q, kind)', saved[q][kind]}
    BY <2>2, <2>7 DEF Aware
  <2>8. LateState(q)'
    BY <1>0, <1>1, <2>6, <2>7 DEF State, LateState, Aware
  <2> QED BY <1>0, <1>1, <2>4, <2>5, <2>8 DEF State
<1> QED BY <1>2, <1>3

\* Nor does a user's file make a bundle less whole.
LEMMA UserKeepsWhole ==
    ASSUME BundleInv, NEW o \in Outputs, UserActs(o)
    PROVE  WholeInv'
<1>0. TypeOK /\ UNCHANGED <<output, phase>>
  BY DEF BundleInv, UserActs, args
<1>1. ASSUME NEW run \in Producers, NEW frames, IsOf(run, "frames", frames)
      PROVE  IsOf(run, "frames", UsersWork(frames))
  BY <1>1, UsersWorkType DEF IsOf
<1>2. ASSUME NEW a \in Outputs PROVE Whole(There(a), a)'
  <2>1. /\ \A kind \in Kinds \ {"frames"} : disk'[Target(a, kind)] = disk[Target(a, kind)]
        /\ disk'[Target(a, "frames")] \in
              {disk[Target(a, "frames")], UsersWork(disk[Target(a, "frames")])}
    BY <1>0, UserDoes, KindsAre
  <2>2. disk[Target(a, "report")] \in Producers =>
          /\ Home(disk[Target(a, "report")], a)
          /\ \A kind \in Kinds : IsOf(disk[Target(a, "report")], kind, disk[Target(a, kind)])
    BY KindsAre DEF BundleInv, WholeInv, Whole, There
  <2>3. ASSUME disk'[Target(a, "report")] \in Producers
        PROVE  /\ Home(disk[Target(a, "report")], a)'
               /\ \A kind \in Kinds :
                     IsOf(disk'[Target(a, "report")], kind, disk'[Target(a, kind)])
    <3>1. disk'[Target(a, "report")] = disk[Target(a, "report")]
      BY <2>1, KindsAre
    <3>2. \A kind \in Kinds : IsOf(disk[Target(a, "report")], kind, disk'[Target(a, kind)])
      BY <1>1, <2>1, <2>2, <2>3, <3>1, KindsAre
    <3> QED BY <1>0, <2>2, <2>3, <3>1, <3>2 DEF Home
  <2> QED BY <2>3, KindsAre DEF Whole, There
<1>3. ASSUME NEW p \in Producers PROVE Whole(found[p], output[p])'
  <2>1. /\ \A kind \in Kinds \ {"frames"} : found'[p][kind] = found[p][kind]
        /\ found'[p]["frames"] \in {found[p]["frames"], UsersWork(found[p]["frames"])}
    BY <1>0, UserKeeps
  <2>2. Whole(found[p], output[p])
    BY DEF BundleInv, WholeInv
  <2>3. ASSUME found'[p]["report"] \in Producers
        PROVE  /\ Home(found[p]["report"], output[p])'
               /\ \A kind \in Kinds : IsOf(found'[p]["report"], kind, found'[p][kind])
    <3>1. found'[p]["report"] = found[p]["report"]
      BY <2>1, KindsAre
    <3>2. \A kind \in Kinds : IsOf(found[p]["report"], kind, found[p][kind])
      BY <2>2, <2>3, <3>1 DEF Whole
    <3>3. \A kind \in Kinds : IsOf(found[p]["report"], kind, found'[p][kind])
      BY <1>1, <2>1, <2>3, <3>1, <3>2, KindsAre
    <3>4. Home(found[p]["report"], output[p])
      BY <2>2, <2>3, <3>1 DEF Whole
    <3> QED BY <1>0, <3>1, <3>3, <3>4 DEF Home
  <2> QED BY <2>3, KindsAre DEF Whole
<1> QED BY <1>2, <1>3 DEF WholeInv

\* Every step keeps the invariant.
LEMMA BundleStep == ASSUME Separate PROVE BundleInv /\ [Next]_vars => BundleInv'
<1> SUFFICES ASSUME BundleInv, [Next]_vars PROVE BundleInv'
  OBVIOUS
<1>1. TypeOK'
  BY StepType DEF BundleInv
<1>2. ASSUME NEW p \in Producers, Produce(p) \/ Fault(p) \/ Kill(p) \/ Tidy(p)
      PROVE  BundleInv'
  <2>1. Step(p)
    BY <1>1, <1>2, StepOfRun
  <2>2. \A q \in Producers : State(q)'
    BY <1>1, <2>1, OthersKeepState DEF Step
  <2>3. WholeInv'
    BY <1>1, <2>1, OthersStayWhole DEF Step
  <2> QED BY <1>1, <2>2, <2>3 DEF BundleInv
<1>3. CASE UNCHANGED vars
  <2>1. UNCHANGED <<disk, lock, output, phase, outcome, saved, staged, published, found>>
    BY <1>3 DEF vars, args, own
  <2>2. \A p \in Producers : State(p)' = State(p)
    BY <2>1 DEF State, EarlyState, AttemptState, RollbackState, LateState, Intact, Kept,
                Moved, Either, At
  <2>3. WholeInv' = WholeInv
    BY <2>1 DEF WholeInv, Whole, There, Home
  <2> QED BY <1>1, <2>2, <2>3 DEF BundleInv
<1>4. ASSUME NEW o \in Outputs, UserActs(o) PROVE BundleInv'
  BY <1>1, <1>4, UserKeepsState, UserKeepsWhole DEF BundleInv
<1> QED BY <1>2, <1>3, <1>4 DEF Next

\* ReportMeansComplete: where a report of a run can be read, the video and all frames of
\* that run are there.
THEOREM AnimationReportMeansComplete ==
    ASSUME Separate PROVE Spec => []ReportMeansComplete
<1>1. BundleInv => ReportMeansComplete
  <2> SUFFICES ASSUME BundleInv, NEW o \in Outputs, NEW run \in Producers,
                      run = disk[Target(o, "report")], NEW kind \in Kinds
               PROVE  IsOf(run, kind, At(run, kind))
    BY DEF ReportMeansComplete
  <2>1. Whole(There(o), o) /\ There(o)["report"] = run
    BY KindsAre DEF BundleInv, WholeInv, There
  <2>2. output[run] = o /\ IsOf(run, kind, There(o)[kind])
    BY <2>1 DEF Whole, Home
  <2> QED BY <2>2 DEF There, At
<1> QED BY <1>1, BundleInit, BundleStep, PTL DEF Spec

\* FailureRestores: a run that fails, with a handler that does not, leaves the targets as
\* it found them.
THEOREM AnimationFailureRestores == ASSUME Separate PROVE Spec => []FailureRestores
<1>1. BundleInv => FailureRestores
  BY DEF BundleInv, State, LateState, FailureRestores
<1> QED BY <1>1, BundleInit, BundleStep, PTL DEF Spec

\* OldBundleSafe: until a run has published its report, also if it is killed, each
\* artifact it found is at its target or in its temporary directory.
THEOREM AnimationOldBundleSafe == ASSUME Separate PROVE Spec => []OldBundleSafe
<1>1. BundleInv => OldBundleSafe
  <2> SUFFICES ASSUME BundleInv, NEW p \in Producers, lock[output[p]] = p,
                      outcome[p] \notin {"complete", "abandoned"}
               PROVE  \A kind \in Kinds : found[p][kind] \in {None, At(p, kind), saved[p][kind]}
    BY DEF OldBundleSafe
  <2> QED BY OldIsSomewhere DEF BundleInv
<1> QED BY <1>1, BundleInit, BundleStep, PTL DEF Spec
-----------------------------------------------------------------------------
(* Files of users in a frames directory *)

Working == {"render", "check"} \cup Attempts \cup Rollbacks

\* When a step of r writes, lets r begin to work, and completes r.
LEMMA RunStep ==
    ASSUME TypeOK, NEW r \in Producers, Produce(r) \/ Fault(r) \/ Kill(r) \/ Tidy(r)
    PROVE  /\ request' = request
           /\ request[r].overwrite => output' = output
           /\ disk' # disk => phase[r] \in Working
           /\ phase'[r] \in Working =>
                 \/ phase[r] \in Working
                 \/ phase[r] = "locked" /\ Acceptable(r, output[r])
           /\ outcome'[r] = "complete" =>
                 \/ outcome[r] = "complete"
                 \/ Publish(r, "report", "publishReport", "cleanup", "complete")
           /\ phase[r] \in {"cleanup", "unlock", "ended", "killed"} =>
                 phase'[r] \in {"cleanup", "unlock", "ended", "killed"}
<1> USE DEF Working, Attempts, Rollbacks
<1>1. CASE Preflight(r)
  <2>1. request' = request /\ disk' = disk /\ phase[r] = "new"
    BY <1>1 DEF Preflight, Go, End
  <2>2. phase'[r] \in {"ready", "ended"} /\ (outcome'[r] = "complete" => outcome[r] = "complete")
    BY <1>1 DEF Preflight, Go, End, TypeOK
  <2>3. request[r].overwrite => output' = output
    <3>1. PICK o \in Outputs : FreeName(r, o) /\ output' = [output EXCEPT ![r] = o]
      BY <1>1 DEF Preflight
    <3> QED BY <3>1 DEF FreeName, TypeOK
  <2> QED BY <2>1, <2>2, <2>3
<1>2. CASE Lock(r) \/ Render(r) \/ Cleanup(r) \/ Unlock(r) \/ Kill(r) \/ Tidy(r)
  BY <1>2 DEF Lock, Render, Cleanup, Unlock, Kill, Tidy, Go, End, args, own, TypeOK
<1>3. CASE Enter(r)
  BY <1>3 DEF Enter, Go, End, args, TypeOK
<1>4. CASE Fault(r)
  BY <1>4 DEF Fault, Go, End, args, TypeOK
<1>5. CASE CheckAgain(r) \/ MakeFrames(r) \/ Fill(r) \/ Filled(r)
  BY <1>5 DEF CheckAgain, MakeFrames, Fill, Filled, Go, End, args, TypeOK
<1>6. ASSUME NEW kind, NEW from \in Attempts, NEW to \in Attempts, Retire(r, kind, from, to)
      PROVE  /\ request' = request /\ output' = output /\ outcome' = outcome
             /\ phase[r] \in Working /\ phase'[r] \in Working
  BY <1>6 DEF Retire, Go, args, TypeOK
<1>7. CASE Publish(r, "video", "publishVideo", "publishReport", "open")
           \/ Publish(r, "report", "publishReport", "cleanup", "complete")
  BY <1>7 DEF Publish, Go, End, args, TypeOK
<1>8. CASE Commit(r)
  BY <1>5, <1>6, <1>7, <1>8 DEF Commit
<1>9. CASE UndoVideo(r) \/ UndoFrames(r)
  BY <1>9 DEF UndoVideo, UndoFrames, Pass, Go, End, args, TypeOK
<1>10. ASSUME NEW kind, NEW from \in Rollbacks, NEW to \in Rollbacks \cup {"cleanup"},
              NEW result \in {"open", "failed"}, Restore(r, kind, from, to, result)
       PROVE  /\ request' = request /\ output' = output
              /\ outcome'[r] # "complete" /\ phase[r] \in Rollbacks
  BY <1>10 DEF Restore, Pass, Go, End, args, TypeOK
<1>11. CASE Rollback(r)
  BY <1>9, <1>10, <1>11 DEF Rollback
<1> QED BY <1>1, <1>2, <1>3, <1>4, <1>8, <1>11 DEF Produce

\* p has checked its targets and not yet moved the old frames; p's own frames are there.
Moving == {"retireReport", "retireVideo", "retireFrames"}
Filling(p) == /\ phase[p] \in {"fill", "publishVideo", "publishReport", "undoVideo", "undoFrames"}
              /\ "frames" \in published[p]

\* The marker in a directory is that of a run whose name will not change any more.
Known(frames) ==
    frames \in FrameDirs /\ frames["manifest"] \in Producers => phase[frames["manifest"]] # "new"

\* A run that is about to move a directory with a user's file may do so, and no user's file
\* is in the directory that a run fills or removes.
UserInv ==
    /\ \A o \in Outputs : Known(disk[Target(o, "frames")])
    /\ \A p \in Producers : Known(saved[p]["frames"])
    /\ \A p \in Producers :
          phase[p] \in Moving /\ HasOthers(output[p]) =>
              request[p].overwrite /\ Managed(p, output[p])
    /\ \A p \in Producers : Filling(p) => ~HasOthers(output[p])

\* The four ways to write a frames directory, and the one to put one back.
Puts(p, content) ==
    \/ phase[p] = "retireFrames" /\ phase'[p] = "mkdir" /\ content = None
    \/ phase[p] = "mkdir" /\ phase'[p] = "fill" /\ At(p, "frames") = None /\ content = EmptyDir
    \/ /\ phase[p] = "fill" /\ phase'[p] = "fill" /\ At(p, "frames") \in FrameDirs
       /\ published'[p] = published[p]
       /\ \E f \in FrameFiles : content = [At(p, "frames") EXCEPT ![f] = p]
    \/ /\ phase[p] = "undoFrames" /\ phase'[p] \in {"undoFrames", "restoreFrames"}
       /\ published'[p] = published[p] /\ "frames" \in published[p]
       /\ At(p, "frames") \in FrameDirs
       /\ \/ content = None
          \/ \E f \in DirFiles : content = [At(p, "frames") EXCEPT ![f] = None]
    \/ /\ phase[p] = "restoreFrames" /\ phase'[p] = "restoreVideo"
       /\ At(p, "frames") \in {None, EmptyDir} /\ content = saved[p]["frames"]

\* What a step of p does to frames directories.
FramesStep(p) ==
    /\ \/ \A o \in Outputs : disk'[Target(o, "frames")] = disk[Target(o, "frames")]
       \/ output' = output /\ \E content : Write(p, "frames", content) /\ Puts(p, content)
    /\ saved'[p]["frames"] \in {None, saved[p]["frames"], At(p, "frames")}
    /\ phase'[p] \in Moving =>
          /\ disk' = disk \/ phase[p] \in {"retireReport", "retireVideo"}
          /\ phase[p] \in Moving \/ (phase[p] = "check" /\ Acceptable(p, output[p]))
    /\ Filling(p)' =>
          \/ Filling(p)
          \/ phase[p] = "mkdir" /\ Write(p, "frames", EmptyDir)

\* What is written elsewhere is no frames directory.
LEMMA OtherWrite ==
    ASSUME TypeOK, NEW p \in Producers, NEW kind \in {"video", "report"}, NEW content,
           Write(p, kind, content)
    PROVE  \A o \in Outputs : disk'[Target(o, "frames")] = disk[Target(o, "frames")]
<1>1. /\ Target(output[p], kind) \in Targets
      /\ \A o \in Outputs : /\ Target(o, "frames") \in Targets
                            /\ Target(o, "frames") # Target(output[p], kind)
  BY TargetType, KindsAre DEF TypeOK
<1> QED BY <1>1 DEF Write, TypeOK

\* Every step of a run does one of those to frames directories.
LEMMA StepOfFrames ==
    ASSUME BundleInv, NEW p \in Producers, Produce(p) \/ Fault(p) \/ Kill(p) \/ Tidy(p)
    PROVE  FramesStep(p)
<1> USE DEF Moving, Attempts, Rollbacks
<1>0. /\ TypeOK /\ EarlyState(p) /\ AttemptState(p)
      /\ At(p, "frames") \in {None} \cup FrameDirs
  BY ContentType, KindsAre DEF BundleInv, State, TypeOK, At
<1>1. CASE Preflight(p) \/ Lock(p) \/ Enter(p) \/ Render(p) \/ CheckAgain(p) \/ Filled(p)
  <2>1. disk' = disk /\ saved' = saved /\ published' = published
    BY <1>1 DEF Preflight, Lock, Enter, Render, CheckAgain, Filled, own
  <2>2. /\ phase'[p] \in {"ready", "ended", "locked", "render", "unlock", "check",
                          "retireReport", "cleanup", "publishVideo"}
        /\ phase'[p] = "retireReport" => phase[p] = "check" /\ Acceptable(p, output[p])
        /\ phase'[p] = "publishVideo" => phase[p] = "fill"
    BY <1>0, <1>1 DEF Preflight, Lock, Enter, Render, CheckAgain, Filled, Go, End, TypeOK
  <2> QED BY <2>1, <2>2 DEF FramesStep, Filling
<1>2. CASE Kill(p) \/ Unlock(p)
  BY <1>0, <1>2 DEF Kill, Unlock, Go, own, args, TypeOK, FramesStep, Filling
<1>3. CASE Cleanup(p) \/ Tidy(p)
  BY <1>0, <1>3, NothingFound, KindsAre
  DEF Cleanup, Tidy, Go, own, args, TypeOK, FramesStep, Filling
<1>4. CASE Fault(p)
  <2>1. disk' = disk /\ saved' = saved /\ published' = published
    BY <1>4 DEF Fault, own
  <2>2. \/ phase'[p] \in {"ended", "unlock", "cleanup"}
        \/ phase[p] \in Attempts /\ phase'[p] = "undoVideo"
    BY <1>0, <1>4 DEF Fault, End, Go, TypeOK
  <2>3. phase[p] \in Attempts /\ "frames" \in published[p] =>
           phase[p] \in {"fill", "publishVideo", "publishReport"}
    BY <1>0 DEF EarlyState, AttemptState
  <2> QED BY <2>1, <2>2, <2>3 DEF FramesStep, Filling
<1>5. ASSUME NEW kind \in {"video", "report"}, NEW from \in {"retireReport", "retireVideo"},
             NEW to \in {"retireVideo", "retireFrames"}, Retire(p, kind, from, to)
      PROVE  FramesStep(p)
  <2>1. /\ phase[p] = from /\ phase'[p] = to /\ Write(p, kind, None)
        /\ saved' = [saved EXCEPT ![p][kind] = At(p, kind)]
    BY <1>0, <1>5 DEF Retire, Go, TypeOK
  <2>2. saved'[p]["frames"] = saved[p]["frames"]
    BY <1>0, <2>1 DEF TypeOK
  <2>3. \A o \in Outputs : disk'[Target(o, "frames")] = disk[Target(o, "frames")]
    BY <1>0, <2>1, OtherWrite
  <2>4. phase[p] \in {"retireReport", "retireVideo"} /\ ~Filling(p)'
    BY <1>5, <2>1 DEF Filling
  <2> QED BY <2>2, <2>3, <2>4 DEF FramesStep
<1>6. CASE Retire(p, "frames", "retireFrames", "mkdir")
  <2>1. /\ phase[p] = "retireFrames" /\ phase'[p] = "mkdir" /\ Write(p, "frames", None)
        /\ saved' = [saved EXCEPT ![p]["frames"] = At(p, "frames")] /\ output' = output
    BY <1>0, <1>6 DEF Retire, Go, args, TypeOK
  <2>2. saved'[p]["frames"] = At(p, "frames")
    BY <1>0, <2>1, KindsAre DEF TypeOK
  <2> QED BY <2>1, <2>2 DEF FramesStep, Puts, Filling
<1>7. CASE MakeFrames(p)
  <2>1. /\ phase[p] = "mkdir" /\ phase'[p] = "fill" /\ Write(p, "frames", EmptyDir)
        /\ saved' = saved /\ output' = output /\ At(p, "frames") = None
    BY <1>0, <1>7 DEF MakeFrames, Go, args, TypeOK
  <2> QED BY <2>1 DEF FramesStep, Puts, Filling
<1>8. CASE Fill(p)
  <2>1. PICK f \in staged[p] : Write(p, "frames", [At(p, "frames") EXCEPT ![f] = p])
    BY <1>8 DEF Fill
  <2>2. /\ phase[p] = "fill" /\ At(p, "frames") \in FrameDirs /\ f \in FrameFiles
        /\ UNCHANGED <<output, phase, saved, published>>
    BY <1>0, <1>8, <2>1 DEF Fill, args, TypeOK
  <2>3. PICK content : content = [At(p, "frames") EXCEPT ![f] = p]
    OBVIOUS
  <2>4. Write(p, "frames", content) /\ Puts(p, content)
    BY <2>1, <2>2, <2>3 DEF Puts
  <2> QED BY <2>2, <2>4 DEF FramesStep, Filling
<1>9. ASSUME NEW kind \in {"video", "report"}, NEW from \in {"publishVideo", "publishReport"},
             NEW to \in {"publishReport", "cleanup"}, NEW result,
             Publish(p, kind, from, to, result)
      PROVE  FramesStep(p)
  <2>1. /\ phase[p] = from /\ phase'[p] = to /\ Write(p, kind, p) /\ saved' = saved
        /\ published'[p] = published[p] \cup {kind}
    BY <1>0, <1>9 DEF Publish, End, Go, TypeOK
  <2> QED BY <1>0, <2>1, OtherWrite DEF FramesStep, Filling
<1>10. ASSUME NEW from \in Rollbacks, NEW to \in (Rollbacks \ {"undoVideo"}) \cup {"cleanup"},
              NEW result, Pass(p, from, to, result), from # "undoVideo" => to # "undoFrames"
       PROVE  FramesStep(p)
  <2>1. disk' = disk /\ saved' = saved /\ published' = published
        /\ phase[p] = from /\ phase'[p] = to
    BY <1>0, <1>10 DEF Pass, End, Go, own, TypeOK
  <2> QED BY <1>10, <2>1 DEF FramesStep, Filling
<1>11. CASE UndoVideo(p) /\ ~Pass(p, "undoVideo", "undoFrames", "open")
  <2>1. /\ phase[p] = "undoVideo" /\ phase'[p] = "undoFrames" /\ Write(p, "video", None)
        /\ saved' = saved /\ published' = published
    BY <1>0, <1>11 DEF UndoVideo, Go, own, TypeOK
  <2> QED BY <1>0, <2>1, OtherWrite DEF FramesStep, Filling
<1>12. CASE UndoFrames(p) /\ ~Pass(p, "undoFrames", "restoreFrames", "open")
  <2>1. /\ phase[p] = "undoFrames" /\ phase'[p] \in {"undoFrames", "restoreFrames"}
        /\ "frames" \in published[p] /\ UNCHANGED <<output, saved, published>>
    BY <1>0, <1>12 DEF UndoFrames, Go, own, args, TypeOK
  <2>2. At(p, "frames") \in FrameDirs
    <3>1. EmptyDir # None
      BY ContentType, AnimationAssumption DEF FrameDirs
    <3> QED BY <1>0, <1>12, <3>1 DEF UndoFrames
  <2>3. \E content : Write(p, "frames", content) /\ Puts(p, content)
    <3>1. CASE Write(p, "frames", None)
      BY <2>1, <2>2, <3>1 DEF Puts
    <3>2. ASSUME NEW f \in DirFiles, Write(p, "frames", [At(p, "frames") EXCEPT ![f] = None])
          PROVE  \E content : Write(p, "frames", content) /\ Puts(p, content)
      <4>1. PICK content : content = [At(p, "frames") EXCEPT ![f] = None]
        OBVIOUS
      <4>2. Write(p, "frames", content) /\ Puts(p, content)
        BY <2>1, <2>2, <3>2, <4>1 DEF Puts
      <4> QED BY <4>2
    <3> QED BY <1>12, <3>1, <3>2 DEF UndoFrames
  <2> QED BY <2>1, <2>3 DEF FramesStep, Filling
<1>13. CASE /\ Restore(p, "frames", "restoreFrames", "restoreVideo", "open")
            /\ ~Pass(p, "restoreFrames", "restoreVideo", "open")
  <2>1. /\ phase[p] = "restoreFrames" /\ phase'[p] = "restoreVideo" /\ output' = output
        /\ At(p, "frames") \in {None, EmptyDir} /\ Write(p, "frames", saved[p]["frames"])
        /\ saved' = [saved EXCEPT ![p]["frames"] = None]
    BY <1>0, <1>13 DEF Restore, End, Go, args, TypeOK
  <2>2. saved'[p]["frames"] = None
    BY <1>0, <2>1, KindsAre DEF TypeOK
  <2>3. PICK content : content = saved[p]["frames"]
    OBVIOUS
  <2>4. Write(p, "frames", content) /\ Puts(p, content)
    BY <2>1, <2>3 DEF Puts
  <2> QED BY <2>1, <2>2, <2>4 DEF FramesStep, Filling
<1>14. ASSUME NEW kind \in {"video", "report"}, NEW from \in {"restoreVideo", "restoreReport"},
              NEW to \in {"restoreReport", "cleanup"}, NEW result,
              Restore(p, kind, from, to, result), ~Pass(p, from, to, result)
       PROVE  FramesStep(p)
  <2>1. /\ phase[p] = from /\ phase'[p] = to /\ Write(p, kind, saved[p][kind])
        /\ saved' = [saved EXCEPT ![p][kind] = None]
    BY <1>0, <1>14 DEF Restore, End, Go, TypeOK
  <2>2. saved'[p]["frames"] = saved[p]["frames"]
    BY <1>0, <2>1 DEF TypeOK
  <2>3. PICK content : content = saved[p][kind]
    OBVIOUS
  <2>4. \A o \in Outputs : disk'[Target(o, "frames")] = disk[Target(o, "frames")]
    BY <1>0, <2>1, <2>3, OtherWrite
  <2>5. phase'[p] \notin Moving /\ ~Filling(p)'
    BY <1>14, <2>1 DEF Filling
  <2> QED BY <2>2, <2>4, <2>5 DEF FramesStep
<1>15. CASE Commit(p)
  BY <1>1, <1>5, <1>6, <1>7, <1>8, <1>9, <1>15 DEF Commit
<1>16. CASE UndoVideo(p)
  BY <1>10, <1>11, <1>16 DEF UndoVideo
<1>17. CASE UndoFrames(p)
  BY <1>10, <1>12, <1>17 DEF UndoFrames
<1>18. CASE Restore(p, "frames", "restoreFrames", "restoreVideo", "open")
  <2>1. CASE Pass(p, "restoreFrames", "restoreVideo", "open")
    BY <1>10, <2>1
  <2> QED BY <1>13, <1>18, <2>1
<1>19. CASE Restore(p, "video", "restoreVideo", "restoreReport", "open")
  <2>1. CASE Pass(p, "restoreVideo", "restoreReport", "open")
    BY <1>10, <2>1
  <2> QED BY <1>14, <1>19, <2>1
<1>20. CASE Restore(p, "report", "restoreReport", "cleanup", "failed")
  <2>1. CASE Pass(p, "restoreReport", "cleanup", "failed")
    BY <1>10, <2>1
  <2> QED BY <1>14, <1>20, <2>1
<1>21. CASE Rollback(p)
  BY <1>16, <1>17, <1>18, <1>19, <1>20, <1>21 DEF Rollback
<1> QED BY <1>1, <1>2, <1>3, <1>4, <1>15, <1>21 DEF Produce

\* The directories that p may leave are known, and hold a user's file only if p had one.
LEMMA PutsKnown ==
    ASSUME TypeOK, UserInv, NEW p \in Producers, NEW content, Puts(p, content)
    PROVE  /\ Known(content)
           /\ phase[p] # "restoreFrames" /\ ~HasOthers(output[p]) =>
                 ~(content \in FrameDirs /\ content[Others] # None)
<1>0. /\ output[p] \in Outputs /\ At(p, "frames") = disk[Target(output[p], "frames")]
      /\ Known(At(p, "frames")) /\ Known(saved[p]["frames"])
  BY DEF UserInv, TypeOK, At
<1>1. "manifest" \in DirFiles /\ Others \in DirFiles /\ Others \notin FrameFiles
      /\ FrameFiles \subseteq DirFiles /\ None \notin FrameDirs /\ None \notin Producers
  BY AnimationAssumption DEF DirFiles, FrameDirs
<1>2. EmptyDir["manifest"] = None /\ EmptyDir[Others] = None
  BY <1>1 DEF EmptyDir
<1>3. CASE content \in {None, EmptyDir}
  BY <1>1, <1>2, <1>3 DEF Known
<1>4. ASSUME At(p, "frames") \in FrameDirs, phase[p] = "fill",
             NEW f \in FrameFiles, content = [At(p, "frames") EXCEPT ![f] = p]
      PROVE  /\ Known(content)
             /\ ~HasOthers(output[p]) => content[Others] = None
  <2>1. /\ content["manifest"] \in {p, At(p, "frames")["manifest"]}
        /\ content[Others] = At(p, "frames")[Others]
    BY <1>1, <1>4 DEF FrameDirs
  <2>2. Known(content)
    BY <1>0, <1>4, <2>1 DEF Known
  <2> QED BY <1>0, <1>4, <2>1, <2>2 DEF HasOthers
<1>5. ASSUME At(p, "frames") \in FrameDirs,
             NEW f \in DirFiles, content = [At(p, "frames") EXCEPT ![f] = None]
      PROVE  /\ Known(content)
             /\ ~HasOthers(output[p]) => content[Others] = None
  <2>1. /\ content["manifest"] \in {None, At(p, "frames")["manifest"]}
        /\ content[Others] \in {None, At(p, "frames")[Others]}
    BY <1>1, <1>5 DEF FrameDirs
  <2>2. Known(content)
    BY <1>0, <1>1, <1>5, <2>1 DEF Known
  <2> QED BY <1>0, <1>5, <2>1, <2>2 DEF HasOthers
<1>6. CASE phase[p] = "restoreFrames" /\ content = saved[p]["frames"]
  BY <1>0, <1>6
<1> QED BY <1>3, <1>4, <1>5, <1>6 DEF Puts

\* A run that may move the directory at its path is still allowed to while that is the same.
LEMMA ManagedStays ==
    ASSUME TypeOK, UserInv, NEW p \in Producers, Frame(p), request' = request,
           NEW q \in Producers, Managed(q, output[q]), HasOthers(output[q]),
           disk'[Target(output[q], "frames")] = disk[Target(output[q], "frames")],
           output'[q] = output[q]
    PROVE  Managed(q, output[q])'
<1>1. Known(disk[Target(output[q], "frames")]) /\ output[q] \in Outputs
  BY DEF UserInv, TypeOK
<1>2. \A r \in Producers : phase[r] # "new" => output'[r] = output[r]
  BY DEF Frame
<1>3. PICK marker : marker = disk[Target(output[q], "frames")]["manifest"]
  OBVIOUS
<1>4. marker \in Producers /\ phase[marker] # "new" /\ output[marker] = output[q]
      /\ request[marker].mode = request[q].mode
  BY <1>1, <1>3 DEF Managed, Known, HasOthers
<1> QED BY <1>2, <1>3, <1>4 DEF Managed

\* Steps of runs keep the invariant, and move a user's file only with leave.
LEMMA UserInvStep ==
    ASSUME Separate, BundleInv, TypeOK', UserInv, NEW p \in Producers,
           Produce(p) \/ Fault(p) \/ Kill(p) \/ Tidy(p)
    PROVE  /\ UserInv'
           /\ \A o \in Outputs :
                 HasOthers(o) /\ disk'[Target(o, "frames")] # disk[Target(o, "frames")] =>
                    /\ Stem[output[p]] = Stem[o] /\ lock[output[p]] = p
                    /\ request[p].overwrite /\ Managed(p, output[p])
<1> DEFINE T(o) == Target(o, "frames")
<1> USE DEF Moving
<1>0. TypeOK /\ FramesStep(p) /\ Frame(p) /\ request' = request
  BY StepOfFrames, StepOfRun, RunStep DEF BundleInv, Step
<1>1. /\ \A q \in Producers \ {p} :
            /\ output'[q] = output[q] /\ phase'[q] = phase[q]
            /\ saved'[q] = saved[q] /\ published'[q] = published[q]
      /\ phase'[p] # "new" /\ (phase[p] # "new" => output'[p] = output[p])
  BY <1>0 DEF Frame
<1>2. ASSUME NEW frames, Known(frames) PROVE Known(frames)'
  BY <1>1, <1>2 DEF Known
<1>3. \/ \A o \in Outputs : disk'[T(o)] = disk[T(o)]
      \/ /\ output' = output
         /\ \E content :
               /\ Puts(p, content)
               /\ \A o \in Outputs : disk'[T(o)] = IF o = output[p] THEN content ELSE disk[T(o)]
  <2>1. ASSUME NEW content, Write(p, "frames", content)
        PROVE  \A o \in Outputs : disk'[T(o)] = IF o = output[p] THEN content ELSE disk[T(o)]
    <3>1. /\ output[p] \in Outputs
          /\ \A o \in Outputs : T(o) \in Targets /\ (T(o) = T(output[p]) => o = output[p])
      BY <1>0, TargetType, TargetApart, KindsAre DEF TypeOK
    <3> QED BY <1>0, <2>1, <3>1 DEF Write, TypeOK
  <2> QED BY <1>0, <2>1 DEF FramesStep
<1>4. /\ \A q \in Producers \ {p} : phase[q] \in Moving \/ Filling(q) => lock[output[q]] = q
      /\ \A o \in Outputs : disk'[T(o)] # disk[T(o)] => o = output[p] /\ lock[o] = p
  BY <1>0, KindsAre DEF Frame, BundleInv, State, Holding, InContext, Attempts, Rollbacks, Filling
<1>5. ASSUME NEW o \in Outputs PROVE Known(disk[T(o)])'
  <2>1. Known(disk[T(o)])
    BY DEF UserInv
  <2>2. Known(disk'[T(o)])
    BY <1>0, <1>3, <2>1, PutsKnown
  <2>3. PICK frames : frames = disk'[T(o)]
    OBVIOUS
  <2>4. Known(frames)'
    BY <1>2, <2>2, <2>3
  <2> QED BY <2>3, <2>4 DEF Known
<1>6. ASSUME NEW q \in Producers PROVE Known(saved[q]["frames"])'
  <2>1. Known(saved[q]["frames"]) /\ Known(At(p, "frames")) /\ Known(None)
    BY <1>0, AnimationAssumption DEF UserInv, TypeOK, At, Known, FrameDirs
  <2>2. Known(saved'[q]["frames"])
    BY <1>0, <1>1, <2>1 DEF FramesStep
  <2>3. PICK frames : frames = saved'[q]["frames"]
    OBVIOUS
  <2>4. Known(frames)'
    BY <1>2, <2>2, <2>3
  <2> QED BY <2>3, <2>4 DEF Known
<1>7. ASSUME NEW q \in Producers, disk'[T(output[q])] = disk[T(output[q])], output'[q] = output[q]
      PROVE  HasOthers(output[q])' = HasOthers(output[q])
  BY <1>7 DEF HasOthers
<1>8. ASSUME NEW q \in Producers, phase'[q] \in Moving, HasOthers(output[q])'
      PROVE  request[q].overwrite' /\ Managed(q, output[q])'
  <2>1. /\ output'[q] = output[q] /\ output[q] \in Outputs
        /\ disk'[T(output[q])] = disk[T(output[q])]
    <3>1. CASE q # p
      BY <1>0, <1>1, <1>4, <1>8, <3>1 DEF TypeOK
    <3>2. CASE q = p
      <4>1. phase[p] \in {"check", "retireReport", "retireVideo", "retireFrames"}
        BY <1>0, <1>8, <3>2 DEF FramesStep
      <4>2. disk' = disk \/ phase[p] \in {"retireReport", "retireVideo"}
        BY <1>0, <1>8, <3>2 DEF FramesStep
      <4>3. phase[p] \in {"retireReport", "retireVideo"} => \A content : ~Puts(p, content)
        BY DEF Puts
      <4>4. \A o \in Outputs : disk'[T(o)] = disk[T(o)]
        BY <1>3, <4>2, <4>3
      <4> QED BY <1>0, <1>1, <3>2, <4>1, <4>4 DEF TypeOK
    <3> QED BY <3>1, <3>2
  <2>2. HasOthers(output[q])
    BY <1>7, <1>8, <2>1
  <2>3. request[q].overwrite /\ Managed(q, output[q])
    <3>1. CASE phase[q] \in Moving
      BY <2>2, <3>1 DEF UserInv
    <3>2. CASE phase[q] \notin Moving
      <4>1. q = p /\ Acceptable(p, output[p])
        BY <1>0, <1>1, <1>8, <3>2 DEF FramesStep
      <4>2. "frames" \in Occupied(output[p])
        BY <2>2, <4>1, KindsAre, AnimationAssumption DEF HasOthers, Occupied, FrameDirs
      <4> QED BY <4>1, <4>2 DEF Acceptable
    <3> QED BY <3>1, <3>2
  <2> QED BY <1>0, <2>1, <2>2, <2>3, ManagedStays
<1>9. ASSUME NEW q \in Producers, Filling(q)', HasOthers(output[q])' PROVE FALSE
  <2>1. CASE q # p
    <3>1. Filling(q) /\ output'[q] = output[q] /\ output[q] \in Outputs
      BY <1>0, <1>1, <1>9, <2>1 DEF Filling, TypeOK
    <3>2. disk'[T(output[q])] = disk[T(output[q])]
      BY <1>4, <2>1, <3>1
    <3> QED BY <1>7, <1>9, <3>1, <3>2 DEF UserInv
  <2>2. CASE q = p /\ Filling(p)
    <3>1. ~HasOthers(output[p]) /\ output'[p] = output[p] /\ output[p] \in Outputs
      BY <1>0, <1>1, <2>2 DEF Filling, TypeOK, UserInv
    <3>2. CASE disk'[T(output[p])] = disk[T(output[p])]
      BY <1>7, <1>9, <2>2, <3>1, <3>2
    <3>3. ASSUME NEW content, Puts(p, content), disk'[T(output[p])] = content PROVE FALSE
      <4>1. ~(content \in FrameDirs /\ content[Others] # None)
        BY <1>0, <2>2, <3>1, <3>3, PutsKnown DEF Filling
      <4> QED BY <1>9, <2>2, <3>1, <3>3, <4>1 DEF HasOthers
    <3> QED BY <1>3, <3>1, <3>2, <3>3
  <2>3. CASE q = p /\ phase[p] = "mkdir" /\ Write(p, "frames", EmptyDir)
    <3>1. output'[p] = output[p] /\ T(output[p]) \in Targets
      BY <1>0, <1>1, <2>3, TargetType, KindsAre DEF TypeOK
    <3>2. disk'[T(output[p])] = EmptyDir
      BY <1>0, <2>3, <3>1 DEF Write, TypeOK
    <3> QED BY <1>9, <2>3, <3>1, <3>2 DEF HasOthers, EmptyDir, DirFiles
  <2> QED BY <1>0, <1>9, <2>1, <2>2, <2>3 DEF FramesStep
<1>10. ASSUME NEW o \in Outputs, HasOthers(o), disk'[T(o)] # disk[T(o)]
       PROVE  /\ Stem[output[p]] = Stem[o] /\ lock[output[p]] = p
              /\ request[p].overwrite /\ Managed(p, output[p])
  <2>1. o = output[p] /\ lock[o] = p /\ At(p, "frames") = disk[T(o)]
    BY <1>4, <1>10 DEF At
  <2>2. PICK content : Puts(p, content)
    BY <1>3, <1>10
  <2>3. At(p, "frames") \notin {None, EmptyDir}
    BY <1>10, <2>1, AnimationAssumption DEF HasOthers, FrameDirs, EmptyDir, DirFiles
  <2>4. ~Filling(p)
    BY <1>10, <2>1 DEF UserInv
  <2>5. phase[p] = "retireFrames"
    <3>1. phase[p] = "fill" => "frames" \in published[p]
      BY DEF BundleInv, State, AttemptState
    <3> QED BY <2>2, <2>3, <2>4, <3>1 DEF Puts, Filling
  <2> QED BY <1>10, <2>1, <2>5 DEF UserInv
<1>11. UserInv'
  BY <1>5, <1>6, <1>8, <1>9 DEF UserInv
<1> QED BY <1>10, <1>11

\* Users keep it too, and leave alone what is there of theirs.
LEMMA UserInvUsers ==
    ASSUME TypeOK, UserInv, NEW o \in Outputs, UserActs(o)
    PROVE  /\ UserInv'
           /\ \A a \in Outputs :
                 HasOthers(a) => disk'[Target(a, "frames")] = disk[Target(a, "frames")]
<1>1. /\ UNCHANGED <<output, request, phase, saved, published>> /\ ~HasOthers(o)
      /\ \A q \in Producers : phase[q] \in Attempts \cup Rollbacks => Stem[output[q]] # Stem[o]
  BY DEF UserActs, args, own
<1>2. \A a \in Outputs :
        disk'[Target(a, "frames")] =
           IF Stem[a] = Stem[o] THEN UsersWork(disk[Target(a, "frames")])
           ELSE disk[Target(a, "frames")]
  BY UserDoes, KindsAre
<1>3. ASSUME NEW a \in Outputs, HasOthers(a)
      PROVE  disk'[Target(a, "frames")] = disk[Target(a, "frames")]
  <2>1. Stem[a] # Stem[o]
    BY <1>1, <1>3, KindsAre DEF HasOthers, Target
  <2> QED BY <1>2, <2>1
<1>4. ASSUME NEW a \in Outputs PROVE Known(disk[Target(a, "frames")])'
  <2>1. disk[Target(a, "frames")] \in {None} \cup FrameDirs
    BY TargetType, ContentType, KindsAre DEF TypeOK
  <2>2. Known(disk[Target(a, "frames")])
    BY DEF UserInv
  <2>3. PICK frames : frames = disk[Target(a, "frames")]
    OBVIOUS
  <2>4. UsersWork(frames)["manifest"] \in {None, frames["manifest"]}
        /\ (frames = None => UsersWork(frames)["manifest"] = None)
    BY <2>1, <2>3, UsersWorkType, AnimationAssumption
  <2>5. Known(UsersWork(frames)) /\ Known(frames)
    BY <2>1, <2>2, <2>3, <2>4, AnimationAssumption DEF Known
  <2>6. disk'[Target(a, "frames")] \in {frames, UsersWork(frames)}
    BY <1>2, <2>3
  <2> QED BY <1>1, <2>5, <2>6 DEF Known
<1>5. ASSUME NEW q \in Producers, phase[q] \in Attempts \cup Rollbacks
      PROVE  /\ HasOthers(output[q])' = HasOthers(output[q])
             /\ Managed(q, output[q])' = Managed(q, output[q])
  <2>1. disk'[Target(output[q], "frames")] = disk[Target(output[q], "frames")]
    BY <1>1, <1>2, <1>5 DEF TypeOK
  <2> QED BY <1>1, <2>1 DEF HasOthers, Managed
<1>6. ASSUME NEW q \in Producers
      PROVE  /\ phase[q] \in Moving => phase[q] \in Attempts \cup Rollbacks
             /\ Filling(q) => phase[q] \in Attempts \cup Rollbacks
             /\ Filling(q)' = Filling(q)
  BY <1>1 DEF Moving, Filling, Attempts, Rollbacks
<1>7. ASSUME NEW q \in Producers
      PROVE  /\ Known(saved[q]["frames"])'
             /\ phase'[q] \in Moving /\ HasOthers(output[q])' =>
                   request'[q].overwrite /\ Managed(q, output[q])'
             /\ Filling(q)' => ~HasOthers(output[q])'
  <2>1. Known(saved[q]["frames"])'
    BY <1>1 DEF UserInv, Known
  <2> QED BY <1>1, <1>5, <1>6, <2>1 DEF UserInv
<1>8. UserInv'
  BY <1>4, <1>7 DEF UserInv, Moving
<1> QED BY <1>3, <1>8

\* The invariant of users' files holds at first.
LEMMA UserInvInit == Init => UserInv
<1> SUFFICES ASSUME Init PROVE UserInv
  OBVIOUS
<1>1. PICK kinds \in Remains : disk = Before(kinds)
  BY DEF Init
<1>2. ASSUME NEW o \in Outputs PROVE Known(disk[Target(o, "frames")])
  <2>1. Target(o, "frames") \in Targets /\ Target(o, "frames")[1] = "frames"
    BY TargetType, KindsAre DEF Target
  <2>2. disk[Target(o, "frames")] \in {None, UsersDir}
    BY <1>1, <2>1 DEF Before
  <2> QED BY <2>2, UsersDirType, AnimationAssumption DEF Known, FrameDirs
<1>3. \A p \in Producers : Known(saved[p]["frames"]) /\ phase[p] = "new"
  BY NothingFound, KindsAre, AnimationAssumption DEF Init, Known, FrameDirs
<1> QED BY <1>2, <1>3 DEF UserInv, Moving, Filling

\* UsersFramesStay: a directory with a user's file changes only under a run that was asked
\* to overwrite, if it has the marker of a run for the same video in the same mode.
THEOREM AnimationUsersFramesStay == ASSUME Separate PROVE Spec => UsersFramesStay
<1> DEFINE Stays == \A o \in Outputs :
               HasOthers(o) /\ disk'[Target(o, "frames")] # disk[Target(o, "frames")] =>
                  \E p \in Producers : /\ Stem[output[p]] = Stem[o]
                                       /\ lock[output[p]] = p
                                       /\ request[p].overwrite
                                       /\ Managed(p, output[p])
<1>1. BundleInv /\ UserInv /\ [Next]_vars => UserInv' /\ [Stays]_vars
  <2> SUFFICES ASSUME BundleInv, UserInv, [Next]_vars PROVE UserInv' /\ [Stays]_vars
    OBVIOUS
  <2>0. TypeOK /\ TypeOK'
    BY StepType DEF BundleInv
  <2>1. CASE UNCHANGED vars
    <3>1. UNCHANGED <<disk, request, output, phase, saved, published>>
      BY <2>1 DEF vars, own, args
    <3>2. UserInv'
      BY <3>1 DEF UserInv, Known, Moving, Filling, HasOthers, Managed
    <3> QED BY <2>1, <3>2
  <2>2. ASSUME NEW p \in Producers, Produce(p) \/ Fault(p) \/ Kill(p) \/ Tidy(p)
        PROVE  UserInv' /\ Stays
    BY <2>0, <2>2, UserInvStep
  <2>3. ASSUME NEW o \in Outputs, UserActs(o) PROVE UserInv' /\ Stays
    BY <2>0, <2>3, UserInvUsers
  <2> QED BY <2>1, <2>2, <2>3 DEF Next
<1>2. Spec => [][Stays]_vars
  BY <1>1, BundleInit, BundleStep, UserInvInit, PTL DEF Spec
<1> QED BY <1>2 DEF UsersFramesStay
-----------------------------------------------------------------------------
(* Complete bundles *)

Overwritten(p) == \E q \in Producers \ {p} : /\ Stem[output[q]] = Stem[output[p]]
                                             /\ request[q].overwrite

\* Unless another run may overwrite it, a complete bundle is there, and no other run has
\* got as far as to work on its targets.
CompleteInv ==
    \A p \in Producers :
        outcome[p] = "complete" =>
            /\ phase[p] \in {"cleanup", "unlock", "ended", "killed"}
            /\ \/ Overwritten(p)
               \/ /\ \A kind \in Kinds : IsOf(p, kind, At(p, kind))
                  /\ \A q \in Producers \ {p} :
                        output[q] = output[p] => phase[q] \notin Working

\* Every step keeps other runs away from a complete bundle that may not be overwritten.
LEMMA CompleteStep ==
    ASSUME Separate, BundleInv, CompleteInv, NEW r \in Producers,
           Produce(r) \/ Fault(r) \/ Kill(r) \/ Tidy(r), Step(r), BundleInv'
    PROVE  CompleteInv'
<1>0. TypeOK /\ TypeOK' /\ Frame(r)
  BY DEF BundleInv, Step
<1>1. /\ request' = request
      /\ request[r].overwrite => output' = output
      /\ disk' # disk => phase[r] \in Working
      /\ phase'[r] \in Working =>
            \/ phase[r] \in Working
            \/ phase[r] = "locked" /\ Acceptable(r, output[r])
      /\ outcome'[r] = "complete" =>
            \/ outcome[r] = "complete"
            \/ Publish(r, "report", "publishReport", "cleanup", "complete")
      /\ phase[r] \in {"cleanup", "unlock", "ended", "killed"} =>
            phase'[r] \in {"cleanup", "unlock", "ended", "killed"}
  BY <1>0, RunStep
<1> USE DEF Holding, InContext, Working, Attempts, Rollbacks
<1>2. /\ \A q \in Producers \ {r} :
            output'[q] = output[q] /\ phase'[q] = phase[q] /\ outcome'[q] = outcome[q]
      /\ phase[r] # "new" => output'[r] = output[r]
      /\ \A o \in Outputs, kind \in Kinds :
            disk'[Target(o, kind)] # disk[Target(o, kind)] => o = output[r]
  BY <1>0 DEF Frame
<1>3. ASSUME NEW p \in Producers, outcome[p] = "complete", Overwritten(p),
             phase[p] \in {"cleanup", "unlock", "ended", "killed"}
      PROVE  Overwritten(p)'
  <2>1. PICK q \in Producers \ {p} : Stem[output[q]] = Stem[output[p]] /\ request[q].overwrite
    BY <1>3 DEF Overwritten
  <2>2. output'[q] = output[q] /\ output'[p] = output[p]
    BY <1>1, <1>2, <1>3, <2>1
  <2> QED BY <1>1, <2>1, <2>2 DEF Overwritten
<1>4. ASSUME NEW p \in Producers, outcome'[p] = "complete", outcome[p] = "complete"
      PROVE  /\ phase'[p] \in {"cleanup", "unlock", "ended", "killed"}
             /\ \/ Overwritten(p)'
                \/ /\ \A kind \in Kinds : IsOf(p, kind, At(p, kind))'
                   /\ \A q \in Producers \ {p} :
                         output'[q] = output'[p] => phase'[q] \notin Working
  <2>1. /\ phase[p] \in {"cleanup", "unlock", "ended", "killed"}
        /\ phase'[p] \in {"cleanup", "unlock", "ended", "killed"}
        /\ output'[p] = output[p] /\ output[p] \in Outputs
    BY <1>0, <1>1, <1>2, <1>4 DEF CompleteInv, TypeOK
  <2>2. CASE Overwritten(p)
    BY <1>3, <1>4, <2>1, <2>2
  <2>3. CASE /\ ~Overwritten(p)'
             /\ \A kind \in Kinds : IsOf(p, kind, At(p, kind))
             /\ \A q \in Producers \ {p} : output[q] = output[p] => phase[q] \notin Working
    <3>1. ASSUME NEW kind \in Kinds PROVE At(p, kind)' = At(p, kind)
      <4>1. disk'[Target(output[p], kind)] = disk[Target(output[p], kind)]
        BY <1>1, <1>2, <2>1, <2>3
      <4> QED BY <2>1, <4>1 DEF At
    <3>2. ASSUME NEW q \in Producers \ {p}, output'[q] = output'[p], phase'[q] \in Working
          PROVE  FALSE
      <4>1. q = r
        BY <1>2, <2>1, <2>3, <3>2
      <4>2. phase[q] # "new" /\ output[q] = output[p]
        BY <1>1, <1>2, <2>1, <3>2, <4>1
      <4>3. Acceptable(q, output[p])
        BY <1>1, <2>3, <3>2, <4>1, <4>2
      <4>4. ~request[q].overwrite
        BY <1>1, <2>1, <2>3, <3>2 DEF Overwritten
      <4>5. disk[Target(output[p], "video")] = None
        BY <4>3, <4>4, KindsAre DEF Acceptable, Occupied
      <4>6. At(p, "video") = p
        BY <2>3, KindsAre DEF IsOf
      <4> QED BY <4>5, <4>6, AnimationAssumption DEF At
    <3> QED BY <2>1, <2>3, <3>1, <3>2
  <2> QED BY <1>4, <2>1, <2>2, <2>3 DEF CompleteInv
<1>5. ASSUME NEW p \in Producers, outcome'[p] = "complete", outcome[p] # "complete"
      PROVE  /\ phase'[p] \in {"cleanup", "unlock", "ended", "killed"}
             /\ \A kind \in Kinds : IsOf(p, kind, At(p, kind))'
             /\ \A q \in Producers \ {p} :
                   output'[q] = output'[p] => phase'[q] \notin Working
  <2>1. p = r /\ Publish(p, "report", "publishReport", "cleanup", "complete")
    BY <1>1, <1>2, <1>5
  <2>2. /\ phase[p] = "publishReport" /\ phase'[p] = "cleanup" /\ output' = output
        /\ Write(p, "report", p)
    BY <1>0, <2>1 DEF Publish, End, Go, args, TypeOK
  <2>3. At(p, "report")' = p
    BY <1>0, <2>2, KindsAre, WriteAt
  <2>4. Whole(There(output[p]), output[p])'
    BY <2>1 DEF Step
  <2>5. \A kind \in Kinds : IsOf(p, kind, At(p, kind))'
    BY <2>3, <2>4, KindsAre DEF Whole, There, At
  <2>6. ASSUME NEW q \in Producers \ {p}, output[q] = output[p], phase[q] \in Working
        PROVE  FALSE
    <3>1. lock[output[p]] = p /\ lock[output[q]] = q
      BY <2>2, <2>6 DEF BundleInv, State
    <3> QED BY <2>6, <3>1
  <2> QED BY <1>2, <2>1, <2>2, <2>5, <2>6
<1>6. ASSUME NEW p \in Producers, outcome'[p] = "complete"
      PROVE  /\ phase'[p] \in {"cleanup", "unlock", "ended", "killed"}
             /\ \/ Overwritten(p)'
                \/ /\ \A kind \in Kinds : IsOf(p, kind, At(p, kind))'
                   /\ \A q \in Producers \ {p} :
                         output'[q] = output'[p] => phase'[q] \notin Working
  BY <1>4, <1>5, <1>6
<1> QED BY <1>6 DEF CompleteInv

\* CompleteBundleStays: a completed bundle stays whole while no other run for its names
\* was asked to overwrite.
THEOREM AnimationCompleteBundleStays ==
    ASSUME Separate PROVE Spec => []CompleteBundleStays
<1>1. Init => CompleteInv
  BY DEF Init, CompleteInv
<1>2. BundleInv /\ CompleteInv /\ [Next]_vars /\ BundleInv' => CompleteInv'
  <2> SUFFICES ASSUME BundleInv, CompleteInv, [Next]_vars, BundleInv' PROVE CompleteInv'
    OBVIOUS
  <2>1. CASE UNCHANGED vars
    BY <2>1 DEF vars, own, args, CompleteInv, Overwritten, At
  <2>2. ASSUME NEW r \in Producers, Produce(r) \/ Fault(r) \/ Kill(r) \/ Tidy(r)
        PROVE  CompleteInv'
    BY <2>2, StepOfRun, CompleteStep DEF BundleInv
  <2>3. ASSUME NEW o \in Outputs, UserActs(o) PROVE CompleteInv'
    <3>1. UNCHANGED <<output, request, phase, outcome>> /\ TypeOK
      BY <2>3 DEF UserActs, args, BundleInv
    <3>2. ASSUME NEW p \in Producers, \A kind \in Kinds : IsOf(p, kind, At(p, kind)),
                 NEW kind \in Kinds
          PROVE  IsOf(p, kind, At(p, kind))'
      <4>1. At(p, kind)' = At(p, kind)
            \/ (kind = "frames" /\ At(p, kind)' = UsersWork(At(p, kind)))
        BY <2>3, <3>1, UserKeeps
      <4>2. IsOf(p, kind, At(p, kind))
        BY <3>2
      <4> QED BY <4>1, <4>2, UsersWorkType DEF IsOf
    <3>3. \A p \in Producers : Overwritten(p)' = Overwritten(p)
      BY <3>1 DEF Overwritten
    <3> QED BY <3>1, <3>2, <3>3 DEF CompleteInv
  <2> QED BY <2>1, <2>2, <2>3 DEF Next
<1>3. CompleteInv => CompleteBundleStays
  BY DEF CompleteInv, CompleteBundleStays, Overwritten
<1> QED BY <1>1, <1>2, <1>3, BundleInit, BundleStep, PTL DEF Spec

=============================================================================
