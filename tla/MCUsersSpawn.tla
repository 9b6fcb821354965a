---------------------------- MODULE MCUsersSpawn ----------------------------
(* An instance of UsersSpawn for TLC. *)
EXTENDS UsersSpawn

TwoThreads == {"t1", "t2"}
ThreeUsers == {"u1", "u2", "u3"}
=============================================================================
