--------------------------- MODULE MCEngineSafety ---------------------------
(***************************************************************************)
(* Two instances of NativeEngine in one, as a constraint on the states TLC *)
(* goes on from: two threads with one model, which may be replaced,        *)
(* paused, cancelled and released; and one thread with every optional part *)
(* of a context, each of which may be replaced.                            *)
(***************************************************************************)
EXTENDS MCNativeEngine

MCAllRequests == ModelRequests \cup PartRequests

Undisturbed(t) == ~paused[t] /\ ~expired[t] /\ ~cancelled[t]

\* Before either: files are replaced that nobody has used yet.
AtRest ==
    /\ \A t \in Threads : pc[t] = "idle" /\ Undisturbed(t)
    /\ ~Resident /\ epoch = 0 /\ version[m] = 1

\* Only the model changes any more.  One thread at a time is paused, cancelled
\* or late; which one is left open: the threads stay interchangeable.
OneModel ==
    /\ \A t \in Threads : request[t] \in ModelRequests \cup {NoRequest}
    /\ \A f \in Files \ {m} : version[f] = MaxVersion /\ cacheKey[f] = 0 /\ loaded[f] = {}
    /\ \E t \in Threads : Undisturbed(t)

\* The other thread is in a release, between the increment and try_to_lock.
OneThread ==
    /\ \E t \in Threads : trying = {t} /\ pc[t] = "idle"
    /\ \A t \in Threads : Undisturbed(t)

OneModelOrOneThread == AtRest \/ OneModel \/ OneThread
=============================================================================
