------------------------- MODULE MCInferenceSession -------------------------
(***************************************************************************)
(* Small instances of InferenceSession for TLC.                            *)
(***************************************************************************)
EXTENDS InferenceSession

CONSTANTS s1, s2, k1, k2, kn

Arguments(k, files, place, hires) ==
    [key |-> k, sources |-> files, place |-> place, hires |-> hires]

\* Two retained models, one of them of one or two files and in two placements, a pipeline
\* for one request, and the native engine.
SessionRequests == {Arguments(k1, {s1, s2}, "resident", FALSE),
                    Arguments(k1, {s1}, "resident", FALSE),
                    Arguments(k1, {s1}, "offload", FALSE),
                    Arguments(k1, {s1}, "resident", TRUE),
                    Arguments(k2, {s2}, "offload", FALSE),
                    Arguments(NoKey, {s1}, "offload", FALSE),
                    Arguments(kn, {s2}, "resident", FALSE)}

\* One model with and without offloading, with and without HiRes.
HiresRequests == {Arguments(k1, {s1}, "resident", FALSE),
                  Arguments(k1, {s1}, "offload", TRUE)}
=============================================================================
