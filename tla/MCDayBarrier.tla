---------------------------- MODULE MCDayBarrier ----------------------------
(* Instances of DayBarrier for TLC. *)
EXTENDS DayBarrier

CONSTANTS manager, broker, worker

OneManager == {manager}
OneBroker == {broker}
OneWorker == {worker}
None == {}
=============================================================================
