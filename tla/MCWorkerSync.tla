---------------------------- MODULE MCWorkerSync ----------------------------
(* Instances of WorkerSync for TLC. *)
EXTENDS WorkerSync, TLC

CONSTANTS manager, broker, t1, t2

OneManager == {manager}
OneBroker == {broker}
OneWorker == {w}
None == {}
TwoThreads == {t1, t2}
=============================================================================
