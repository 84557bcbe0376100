--------------------------- MODULE MCWorkerQueue ---------------------------
(* Small instances of WorkerQueue for TLC. *)
EXTENDS WorkerQueue, TLC

CONSTANTS w1, w2, k1, bad

Replicas == Permutations(Workers)
=============================================================================
