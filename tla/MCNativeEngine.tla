--------------------------- MODULE MCNativeEngine ---------------------------
(***************************************************************************)
(* Small instances of NativeEngine for TLC.  The requests of each instance *)
(* are built from the roles of its files.                                  *)
(***************************************************************************)
EXTENDS NativeEngine, TLC

CONSTANTS t1, t2, ext, m, c, l, q, i, r

Job(files, prepareOnly) == [files |-> files, prepareOnly |-> prepareOnly]

MCRole == [f \in Files |->
    CASE f = m -> "model" [] f = c -> "early" [] f = l -> "late"
      [] f = q -> "q8"    [] f = i -> "ip"    [] OTHER -> "refiner"]

\* Two threads that prepare or generate with the same model.
ModelRequests == {Job({m}, FALSE), Job({m}, TRUE)}

\* Requests that do and do not use the optional parts of one context.
PartRequests == {Job({m}, FALSE), Job({m, c}, FALSE), Job({m, i}, FALSE), Job({m, r}, FALSE),
                 Job({m, i, r}, TRUE), Job({m, q, l}, FALSE), Job({m, l}, FALSE), Job({m, q}, TRUE)}

\* One file: what matters is who holds the lock and who may stop.
ControlRequests == {Job({m}, FALSE)}

\* The threads are interchangeable where no temporal property is checked.
Symmetry == Permutations(Threads)
=============================================================================
