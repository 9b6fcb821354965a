---------------------------- MODULE MCLogPipeline ----------------------------
(***************************************************************************)
(* Instances of LogPipeline. The store meets every fault and every fsync   *)
(* policy, with one caller or two; the logger drops messages and loses a   *)
(* record; as a sink the store holds the consumer up. A thread without a   *)
(* part of its own in a setup (the consumer where the store is alone, the  *)
(* worker where the logger is) is the second one that appends or logs.     *)
(***************************************************************************)
EXTENDS LogPipeline

CONSTANTS t1, w1, consumer

Setup(use, who, logs, reads, faults, policy, open, ring, appends, keys) ==
    [use |-> use, who |-> who, logs |-> logs, reads |-> reads, faults |-> faults,
     policy |-> policy, rebuild |-> open # "plain", truncate |-> open = "truncate",
     cap |-> ring[1], batch |-> ring[2], appends |-> appends, keys |-> keys]

One == {CHOOSE k \in Keys : TRUE}

MCSetups == {
    Setup("store", {t1}, 0, TRUE, {"kill", "fail"}, "each", "truncate", <<2, 2>>, 2, Keys),
    Setup("store", {t1, consumer}, 0, TRUE, {"novec", "fail"}, "everyN", "plain", <<2, 2>>, 2, Keys),
    Setup("store", {t1, consumer}, 0, FALSE, {"novec"}, "none", "plain", <<4, 2>>, 3, One),
    Setup("store", {t1, consumer}, 0, FALSE, {}, "none", "plain", <<4, 2>>, 4, One),
    Setup("store", {t1}, 0, FALSE, {"power", "novec"}, "each", "truncate", <<2, 2>>, 2, Keys),
    Setup("store", {t1}, 0, FALSE, {"power"}, "background", "truncate", <<2, 2>>, 2, Keys),
    Setup("store", {t1}, 0, FALSE, {"short", "novec", "kill"}, "interval", "rebuild", <<2, 2>>, 2, One),
    Setup("store", {t1}, 0, FALSE, {"seek", "put", "start", "scan"}, "none", "truncate", <<2, 2>>, 2, One),
    Setup("store", {t1}, 0, TRUE, {"scan", "put", "fail"}, "none", "rebuild", <<2, 2>>, 2, One),
    Setup("store", {t1}, 0, FALSE, {"scan", "kill"}, "each", "truncate", <<2, 2>>, 2, Keys),
    Setup("store", {t1}, 0, FALSE, {"power", "check"}, "none", "plain", <<2, 2>>, 2, Keys),
    Setup("store", {t1}, 0, TRUE, {"intr"}, "none", "plain", <<4, 2>>, 3, One),
    Setup("logger", {t1, w1}, 2, FALSE, {}, "none", "plain", <<2, 2>>, 0, One),
    Setup("sink", {t1}, 3, FALSE, {}, "none", "plain", <<2, 2>>, 4, One),
    Setup("sink", {t1}, 1, FALSE, {"fail"}, "none", "plain", <<2, 2>>, 4, One)}

\* The disk is full, and the worker of the store is among those who log.
FullDiskSetups == {Setup("sink", {t1}, 3, FALSE, {"fail"}, "none", "plain", <<2, 2>>, 5, One)}
=============================================================================
