---------------------------- MODULE MCRemoteBatch ----------------------------
(* Small instances of RemoteBatch for TLC. *)
EXTENDS RemoteBatch, TLC

CONSTANTS x, y, png, report, png2, report2

\* A batch of one image, and the batch of the next free number.
OwnTargets == [b \in Bases |-> IF b = "image" THEN <<png, report>> ELSE <<png2, report2>>]
NoNumbers == <<>>
DefaultNames == <<"image", "image-run-0002">>

Wanted(b, default, overwrite, config) ==
    [base |-> b, default |-> default, overwrite |-> overwrite, config |-> config]

BatchJobs == {Wanted("image", TRUE, FALSE, NoFile), Wanted("image", FALSE, FALSE, NoFile),
              Wanted("image", FALSE, TRUE, NoFile), Wanted("image", TRUE, TRUE, report),
              Wanted("image-run-0002", FALSE, TRUE, report)}

Free == [f \in BatchFiles |-> NoFile]
OldFiles == {Free, [Free EXCEPT ![png] = Someone, ![report] = Someone],
             [Free EXCEPT ![png] = Someone, ![report] = Redirect]}

\* Two images of a batch under image.png are image-0001.png and image-0002.png; the first
\* is also the only image of a batch under image-0001.png.
SharedTargets == [b \in Bases |-> IF b = "image" THEN <<png, report, png2, report2>>
                                  ELSE <<png, report>>]
OverlappingJobs == {Wanted("image", FALSE, TRUE, NoFile), Wanted("image-0001", FALSE, FALSE, NoFile)}
=============================================================================
