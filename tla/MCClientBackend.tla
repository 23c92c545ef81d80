--------------------------- MODULE MCClientBackend ---------------------------
(* Instances of ClientBackend for TLC: one io_service thread, as in the    *)
(* example programs, or two.                                               *)
EXTENDS ClientBackend, TLC

CONSTANTS w1, w2

OneWorker  == {w1}
TwoWorkers == {w1, w2}

Symmetry == Permutations(TwoWorkers)
=============================================================================
