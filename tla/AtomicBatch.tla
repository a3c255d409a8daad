---------------------------- MODULE AtomicBatch ----------------------------
(***************************************************************************)
(* What publishing a batch of files promises: all of them appear at once,  *)
(* or none does and what was there before is still there.                  *)
(***************************************************************************)
CONSTANTS
    Publishers, Places, Nothing,
    Batches     \* the sets of places that may be published together

VARIABLES
    shown,      \* place -> what a reader is entitled to find there
    replacing,  \* the publishers that were asked to overwrite
    completed,  \* the publishers that have reported success
    abandoned   \* the publishers that failed while they were undoing a failure

Start == completed = {} /\ abandoned = {}

\* The old content of every place gives way to the new one in one step.
Exchange(p, batch) ==
    /\ p \notin completed \cup abandoned
    /\ p \in replacing \/ \A f \in batch : shown[f] = Nothing
    /\ shown' = [f \in Places |-> IF f \in batch THEN p ELSE shown[f]]
    /\ completed' = completed \cup {p}
    /\ abandoned' = abandoned

\* An error while an error is handled: nothing is promised of that batch.
Abandon(p, batch) ==
    /\ p \notin completed \cup abandoned
    /\ abandoned' = abandoned \cup {p}
    /\ \A f \in Places : \/ shown'[f] = shown[f]
                         \/ f \in batch /\ shown'[f] \in {Nothing, p}
    /\ completed' = completed

AtomicNext ==
    /\ \E p \in Publishers, batch \in Batches : Exchange(p, batch) \/ Abandon(p, batch)
    /\ replacing' = replacing

AtomicSpec == Start /\ [][AtomicNext]_<<shown, replacing, completed, abandoned>>
=============================================================================
