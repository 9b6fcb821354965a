---------------------------- MODULE MCRingBuffer ----------------------------
(* Instances of RingBuffer for TLC. *)
EXTENDS RingBuffer, TLC

CONSTANTS p1, p2, c1, c2, a, b

OneProducer == {p1}
TwoProducers == {p1, p2}
OneConsumer == {c1}
TwoConsumers == {c1, c2}
TwoItems == {a, b}
OneItem == {a}

(* Threads of one role are interchangeable, and so are the items. *)
Symmetry ==
    Permutations(TwoProducers) \cup Permutations(TwoConsumers)
        \cup Permutations(TwoItems)
=============================================================================
