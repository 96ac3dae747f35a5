------------------------- MODULE MCWorkerRefinement -------------------------
(* Two jobs, so that the queue can hold two whose order matters.  A run of *)
(* liveness properties: no symmetry.                                       *)
EXTENDS WorkerRefinement
=============================================================================
