-------------------------- MODULE MCDetectionDedup --------------------------
(***************************************************************************)
(* Small instances of DetectionDedup for TLC: two workers, as the bus has   *)
(* for every subscriber, and a cache that is soon full.                     *)
(***************************************************************************)
EXTENDS DetectionDedup, TLC

CONSTANTS k1, k2, k3

Sure(k) == [key |-> k, sure |-> TRUE]
Weak(k) == [key |-> k, sure |-> FALSE]

\* Events with one finding, with two, and with one below the confidence.
SomeReports == {<<Sure(k1)>>, <<Sure(k2)>>, <<Sure(k3), Sure(k1)>>, <<Weak(k1)>>}

OneKey == {<<Sure(k1)>>}

\* The workers are interchangeable.
Symmetry == Permutations(Workers)
=============================================================================
