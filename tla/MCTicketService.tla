-------------------------- MODULE MCTicketService --------------------------
(* Instances of TicketService for TLC. *)
EXTENDS TicketService, TLC

CONSTANTS u1, u2, u3, k1, k2, s1

TwoUsers == {u1, u2}
ThreeUsers == {u1, u2, u3}
OneWorker == {k1}
TwoWorkers == {k1, k2}
OneService == {s1}
NoUsers == {}
OneUser == {u1}
SameService == [c \in Users \cup Workers |-> s1]
Symmetry == Permutations(Users) \cup Permutations(Workers)
=============================================================================
