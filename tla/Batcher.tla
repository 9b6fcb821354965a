------------------------------- MODULE Batcher -------------------------------
(***************************************************************************)
(* What perf/batcher.c does for its callers: a ring of pointers with an    *)
(* eventfd that counts them. A producer puts its pointer into the ring and *)
(* then writes one token; a consumer blocks until it has read one token    *)
(* and then takes pointers until it has a batch or finds the ring empty.   *)
(* One token may be followed by many pointers and a later one by none, so  *)
(* tokens and pointers do not agree; the question is whether pointers can  *)
(* be left in the ring with every consumer blocked.                        *)
(*                                                                         *)
(* Only the number of pointers matters. The ring may look empty while it   *)
(* is not: a place that a producer has claimed and not yet filled hides    *)
(* the filled ones behind it (perf_ringbuf_dequeue, diff < 0), and then a  *)
(* token is spent for nothing. The owner may also use the ring directly,   *)
(* without a token, as the logger does for its notices and both owners do  *)
(* in their drains at shutdown.                                            *)
(*                                                                         *)
(* batcher.h allows one producer and one consumer; the logger and the      *)
(* store have several, which the ring of ringbuf.c bears. The write to the *)
(* eventfd is taken to succeed: where it fails the call returns 0 with the *)
(* pointer in the ring and no token for it, like the owner's direct use.   *)
(***************************************************************************)
EXTENDS Integers, FiniteSets

CONSTANTS
    Producers,  \* the threads that call perf_batcher_enqueue
    Consumers   \* the threads that call perf_batcher_next

VARIABLES
    cap, batch, \* the capacity of rb and batch_size, fixed at creation
    len,        \* the places claimed or filled in rb
    claiming,   \* producers that have claimed a place and not yet filled it
    signalling, \* producers that have filled it and not yet written the token
    tokens,     \* the value of efd, a semaphore
    budget,     \* how much each consumer may still take for its token
    missed      \* history: tokens that the filled places may be short of

batcherVars == <<cap, batch, len, claiming, signalling, tokens, budget, missed>>

\* The pointers in the ring.
Filled == len - Cardinality(claiming)

\* Consumers that have read a token and taken nothing for it yet.
Fresh == {c \in Consumers : budget[c] = batch}

\* perf_batcher_create, for a ring just created.
BatcherInit ==
    /\ cap \in Nat /\ batch \in Nat \ {0}
    /\ len = 0
    /\ claiming = {} /\ signalling = {}
    /\ tokens = 0
    /\ budget = [c \in Consumers |-> 0]
    /\ missed = 0

\* perf_batcher_enqueue: the producer claims a place in the ring. When the
\* ring is full the call returns -1 and nothing has changed.
Claim(p) ==
    /\ p \notin claiming \cup signalling
    /\ len < cap
    /\ len' = len + 1
    /\ claiming' = claiming \cup {p}
    /\ UNCHANGED <<cap, batch, signalling, tokens, budget, missed>>

\* It fills the place.
Fill(p) ==
    /\ p \in claiming
    /\ claiming' = claiming \ {p}
    /\ signalling' = signalling \cup {p}
    /\ UNCHANGED <<cap, batch, len, tokens, budget, missed>>

\* It writes one token for the consumers.
Signal(p) ==
    /\ p \in signalling
    /\ signalling' = signalling \ {p}
    /\ tokens' = tokens + 1
    /\ UNCHANGED <<cap, batch, len, claiming, budget, missed>>

\* A place filled by perf_ringbuf_enqueue, without a token.
FillSilently(p) ==
    /\ p \in claiming
    /\ claiming' = claiming \ {p}
    /\ missed' = missed + 1
    /\ UNCHANGED <<cap, batch, len, signalling, tokens, budget>>

\* perf_batcher_next blocks here until there is a token.
Await(c) ==
    /\ budget[c] = 0
    /\ tokens > 0
    /\ tokens' = tokens - 1
    /\ budget' = [budget EXCEPT ![c] = batch]
    /\ UNCHANGED <<cap, batch, len, claiming, signalling, missed>>

\* One pointer leaves the ring.
TakeOne ==
    /\ Filled > 0
    /\ len' = len - 1
    /\ missed' = IF Filled = 1 THEN 0 ELSE missed
    /\ UNCHANGED <<cap, batch, claiming, signalling, tokens>>

Draw(c) ==
    /\ budget[c] > 0
    /\ TakeOne
    /\ budget' = [budget EXCEPT ![c] = @ - 1]

\* The ring is empty, or looks so because of a producer at work. A consumer
\* that leaves without anything has spent its token for nothing.
Leave(c) ==
    /\ budget[c] > 0
    /\ len = 0 \/ claiming # {}
    /\ budget' = [budget EXCEPT ![c] = 0]
    /\ missed' = IF c \in Fresh /\ Filled > 0 THEN missed + 1 ELSE missed
    /\ UNCHANGED <<cap, batch, len, claiming, signalling, tokens>>

\* The owner takes a pointer without a token.
Drain == TakeOne /\ UNCHANGED budget

\* The owner destroys ring and batcher, or its process dies.
Discard ==
    /\ len' = 0
    /\ claiming' = {} /\ signalling' = {}
    /\ tokens' = 0
    /\ budget' = [c \in Consumers |-> 0]
    /\ missed' = 0
    /\ UNCHANGED <<cap, batch>>

BatcherNext ==
    \/ \E p \in Producers : Claim(p) \/ Fill(p) \/ Signal(p) \/ FillSilently(p)
    \/ \E c \in Consumers : Await(c) \/ Draw(c) \/ Leave(c)
    \/ Drain
    \/ Discard

BatcherSpec == BatcherInit /\ [][BatcherNext]_batcherVars

\* Nothing is left behind with everyone asleep unless a token is missing:
\* while there are pointers in the ring and none was put there without a
\* token or had its token spent behind an unfilled place, there is a token
\* for the next consumer, or a producer about to write one, or a consumer
\* that has a whole batch to take (batcher.c:83-96, 172-185).
NothingStranded ==
    Filled > 0 /\ missed = 0 => \/ tokens > 0
                                \/ signalling # {}
                                \/ Fresh # {}
=============================================================================
