------------------------------ MODULE MCWorker ------------------------------
(* Instances of Worker for TLC.  Jobs and servers are interchangeable:     *)
(* rowids, not names, order the queue.                                     *)
EXTENDS WorkerInv, TLC

JobSymmetry == Permutations(Jobs)
TwoSymmetry == Permutations(Jobs) \cup Permutations(Servers)
=============================================================================
