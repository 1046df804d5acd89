----------------------------- MODULE MCWorkerQueue -----------------------------
(* Small instances of WorkerQueue; the configurations give the bounds.     *)
EXTENDS WorkerQueue
===============================================================================
