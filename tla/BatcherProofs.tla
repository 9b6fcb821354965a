---------------------------- MODULE BatcherProofs ----------------------------
(***************************************************************************)
(* That pointers in the ring of a batcher have tokens, for any number of   *)
(* producers and consumers, any capacity and any size of a batch. The      *)
(* invariant counts: the pointers in the ring are at most the tokens, plus *)
(* the producers about to write one, plus the consumers that have just     *)
(* read one, plus those that are known to be missing.                      *)
(***************************************************************************)
EXTENDS Batcher, FiniteSetTheorems, TLAPS

BatcherTypeOK ==
    /\ cap \in Nat /\ batch \in Nat \ {0}
    /\ len \in Nat /\ tokens \in Nat /\ missed \in Nat
    /\ claiming \subseteq Producers /\ signalling \subseteq Producers
    /\ budget \in [Consumers -> 0..batch]

\* A thread is at one place of perf_batcher_enqueue, and only so many are
\* there as have come.
BatcherFinite ==
    /\ claiming \cap signalling = {}
    /\ IsFiniteSet(claiming) /\ IsFiniteSet(signalling) /\ IsFiniteSet(Fresh)
    /\ Cardinality(claiming) <= len

Covered == Filled <= tokens + Cardinality(signalling) + Cardinality(Fresh) + missed

BatcherInv == BatcherTypeOK /\ BatcherFinite /\ Covered

\* The sizes of the three sets are numbers.
LEMMA Sizes ==
    ASSUME BatcherFinite
    PROVE  /\ Cardinality(claiming) \in Nat
           /\ Cardinality(signalling) \in Nat
           /\ Cardinality(Fresh) \in Nat
BY FS_CardinalityType DEF BatcherFinite

\* perf_batcher_create starts with nothing in the ring.
LEMMA InitInv == BatcherInit => BatcherInv
<1> SUFFICES ASSUME BatcherInit PROVE BatcherInv
    OBVIOUS
<1>1. Fresh = {}
    BY DEF BatcherInit, Fresh
<1>2. IsFiniteSet({}) /\ Cardinality({}) = 0
    BY FS_EmptySet
<1> QED BY <1>1, <1>2 DEF BatcherInit, BatcherInv, BatcherTypeOK, BatcherFinite, Covered, Filled

\* The producer's three steps and the owner's silent one.
LEMMA ProducerKeeps ==
    ASSUME BatcherInv, NEW p \in Producers,
           Claim(p) \/ Fill(p) \/ Signal(p) \/ FillSilently(p)
    PROVE  BatcherInv'
<1> USE DEF BatcherInv, BatcherTypeOK, BatcherFinite, Covered, Filled
<1>0. /\ Cardinality(claiming) \in Nat
      /\ Cardinality(signalling) \in Nat
      /\ Cardinality(Fresh) \in Nat
    BY Sizes
<1>1. Fresh' = Fresh
    BY DEF Claim, Fill, Signal, FillSilently, Fresh
<1>2. /\ IsFiniteSet(claiming \cup {p})
      /\ Cardinality(claiming \cup {p})
            = IF p \in claiming THEN Cardinality(claiming) ELSE Cardinality(claiming) + 1
      /\ IsFiniteSet(signalling \cup {p})
      /\ Cardinality(signalling \cup {p})
            = IF p \in signalling THEN Cardinality(signalling) ELSE Cardinality(signalling) + 1
    BY FS_AddElement
<1>3. /\ IsFiniteSet(claiming \ {p})
      /\ Cardinality(claiming \ {p})
            = IF p \in claiming THEN Cardinality(claiming) - 1 ELSE Cardinality(claiming)
      /\ IsFiniteSet(signalling \ {p})
      /\ Cardinality(signalling \ {p})
            = IF p \in signalling THEN Cardinality(signalling) - 1 ELSE Cardinality(signalling)
    BY FS_RemoveElement
<1>4. CASE Claim(p)
    BY <1>0, <1>1, <1>2, <1>4 DEF Claim
<1>5. CASE Fill(p)
    BY <1>0, <1>1, <1>2, <1>3, <1>5 DEF Fill
<1>6. CASE Signal(p)
    BY <1>0, <1>1, <1>3, <1>6 DEF Signal
<1>7. CASE FillSilently(p)
    BY <1>0, <1>1, <1>3, <1>7 DEF FillSilently
<1> QED BY <1>4, <1>5, <1>6, <1>7

\* Reading a token, taking a pointer, or leaving. A consumer that takes a
\* pointer is no longer fresh, so that both sides of the count go down by one;
\* one that leaves empty-handed had spent its token for nothing, and that is
\* counted among the missing ones.
LEMMA ConsumerKeeps ==
    ASSUME BatcherInv, NEW c \in Consumers, Await(c) \/ Draw(c) \/ Leave(c)
    PROVE  BatcherInv'
<1> USE DEF BatcherInv, BatcherTypeOK, BatcherFinite, Covered, Filled
<1>0. /\ Cardinality(claiming) \in Nat
      /\ Cardinality(signalling) \in Nat
      /\ Cardinality(Fresh) \in Nat
    BY Sizes
<1>1. /\ IsFiniteSet(Fresh \cup {c})
      /\ Cardinality(Fresh \cup {c})
            = IF c \in Fresh THEN Cardinality(Fresh) ELSE Cardinality(Fresh) + 1
    BY FS_AddElement
<1>2. /\ IsFiniteSet(Fresh \ {c})
      /\ Cardinality(Fresh \ {c})
            = IF c \in Fresh THEN Cardinality(Fresh) - 1 ELSE Cardinality(Fresh)
      /\ Cardinality(Fresh \ {c}) \in Nat
    BY FS_RemoveElement, FS_CardinalityType
<1>3. CASE Await(c)
    <2>1. c \notin Fresh /\ Fresh' = Fresh \cup {c}
        BY <1>3 DEF Await, Fresh
    <2> QED BY <1>0, <1>1, <1>3, <2>1 DEF Await
<1>4. CASE Draw(c)
    <2>1. Fresh' = Fresh \ {c}
        BY <1>4 DEF Draw, TakeOne, Fresh
    <2>2. BatcherTypeOK' /\ Cardinality(claiming) <= len'
        BY <1>0, <1>4 DEF Draw, TakeOne
    <2>3. Cardinality(Fresh') \in Nat /\ Cardinality(Fresh') >= Cardinality(Fresh) - 1
        BY <1>0, <1>2, <2>1
    <2>4. Covered'
        BY <1>0, <1>4, <2>3 DEF Draw, TakeOne
    <2>5. IsFiniteSet(Fresh')
        BY <1>2, <2>1
    <2> QED BY <1>4, <2>2, <2>4, <2>5 DEF Draw, TakeOne
<1>5. CASE Leave(c)
    <2>1. Fresh' = Fresh \ {c}
        BY <1>5 DEF Leave, Fresh
    <2>2. BatcherTypeOK'
        BY <1>5 DEF Leave
    <2>3. /\ Cardinality(Fresh') \in Nat
          /\ Cardinality(Fresh') = IF c \in Fresh THEN Cardinality(Fresh) - 1 ELSE Cardinality(Fresh)
        BY <1>0, <1>2, <2>1
    <2>4. Covered'
        BY <1>0, <1>5, <2>3 DEF Leave
    <2>5. IsFiniteSet(Fresh')
        BY <1>2, <2>1
    <2> QED BY <1>5, <2>2, <2>4, <2>5 DEF Leave
<1> QED BY <1>3, <1>4, <1>5

\* Every call of perf/batcher.c keeps the count.
LEMMA NextInv ==
    ASSUME BatcherInv, [BatcherNext]_batcherVars
    PROVE  BatcherInv'
<1> USE DEF BatcherInv, BatcherTypeOK, BatcherFinite, Covered, Filled
<1>0. /\ Cardinality(claiming) \in Nat
      /\ Cardinality(signalling) \in Nat
      /\ Cardinality(Fresh) \in Nat
    BY Sizes
<1>1. CASE Drain
    <2>1. Fresh' = Fresh
        BY <1>1 DEF Drain, TakeOne, Fresh
    <2> QED BY <1>0, <1>1, <2>1 DEF Drain, TakeOne
<1>2. CASE Discard
    <2>1. Fresh' = {}
        BY <1>2 DEF Discard, Fresh
    <2>2. IsFiniteSet({}) /\ Cardinality({}) = 0
        BY FS_EmptySet
    <2> QED BY <1>2, <2>1, <2>2 DEF Discard
<1>3. CASE UNCHANGED batcherVars
    <2>1. Fresh' = Fresh
        BY <1>3 DEF batcherVars, Fresh
    <2> QED BY <1>3, <2>1 DEF batcherVars
<1> QED BY <1>1, <1>2, <1>3, ProducerKeeps, ConsumerKeeps DEF BatcherNext

\* Whenever all threads are outside perf_batcher_enqueue and
\* perf_batcher_next, no token is left and none is missing, the ring is
\* empty.
THEOREM BatcherStrandsNothing == BatcherSpec => []NothingStranded
<1>1. BatcherInv /\ [BatcherNext]_batcherVars => BatcherInv'
    BY NextInv
<1>2. BatcherInv => NothingStranded
    <2> SUFFICES ASSUME BatcherInv, Filled > 0, missed = 0,
                        ~(tokens > 0), signalling = {}, Fresh = {}
                 PROVE  FALSE
        BY DEF NothingStranded
    <2>1. Cardinality({}) = 0
        BY FS_EmptySet
    <2>2. Cardinality(claiming) \in Nat
        BY Sizes DEF BatcherInv
    <2> QED BY <2>1, <2>2 DEF BatcherInv, BatcherTypeOK, Covered, Filled
<1> QED BY InitInv, <1>1, <1>2, PTL DEF BatcherSpec
=============================================================================
