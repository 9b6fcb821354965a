----------------------------- MODULE MCNetPools -----------------------------
(* An instance of NetPools for TLC. *)
EXTENDS NetPools

TwoOwners == {"o1", "o2"}
ThreeCallers == {"c1", "c2", "c3"}
TwoBuffers == {"b1", "b2"}
=============================================================================
