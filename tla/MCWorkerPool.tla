---------------------------- MODULE MCWorkerPool ----------------------------
(* Instances of WorkerPool for TLC.                                        *)
EXTENDS WorkerPool

CONSTANTS r1, r2, r3, r4

Req4 == {r1, r2, r3, r4}
=============================================================================
