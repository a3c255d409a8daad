-------------------------- MODULE MCAnimationOutput --------------------------
(***************************************************************************)
(* Small instances of AnimationOutput for TLC.                             *)
(***************************************************************************)
EXTENDS AnimationOutput, TLC

CONSTANTS mp4, gif, second

FileKinds == {{}, {"report", "video"}}
NoRemains == {{}}
TwoFrameFiles == {"manifest", "image"}

Asked(o, default, overwrite, mode) ==
    [output |-> o, default |-> default, overwrite |-> overwrite, mode |-> mode]

OnePath  == <<mp4>>
TwoPaths == <<mp4, second>>

OwnStem    == [o \in Outputs |-> o]
SharedStem == [o \in Outputs |-> mp4]

\* One explicit path, with and without --overwrite.
SameRequests == {Asked(mp4, FALSE, overwrite, "2D") : overwrite \in BOOLEAN}

\* The default path and explicit requests for it and for its numbered alternative.
PathRequests == {Asked(mp4, TRUE, FALSE, "2D"), Asked(mp4, TRUE, TRUE, "Video"),
                 Asked(mp4, FALSE, FALSE, "2D"), Asked(mp4, FALSE, TRUE, "2D"),
                 Asked(second, FALSE, TRUE, "2D")}

\* A video and a GIF of the same name.
SuffixRequests == {Asked(mp4, FALSE, FALSE, "2D"), Asked(gif, FALSE, FALSE, "2D")}

AnyProducers == Permutations(Producers)
=============================================================================
