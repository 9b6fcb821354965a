---------------------------- MODULE BoundedQueue ----------------------------
(***************************************************************************)
(* What the callers of perf/ringbuf.c rely on: a FIFO queue of at most Cap *)
(* pointers. A successful enqueue appends, a successful dequeue hands the  *)
(* oldest pointer to the calling thread, and a call that fails (full or    *)
(* empty) changes nothing. `got' is the pointer a dequeuing thread has     *)
(* been given and has not yet returned with.                               *)
(*                                                                         *)
(* Any number of threads may call. ringbuf.h promises this to a single     *)
(* producer and a single consumer only; ringbuf.c claims its places by     *)
(* compare-and-swap, and the logger and the buffer pools rely on it.       *)
(***************************************************************************)
EXTENDS Naturals, Sequences

CONSTANTS
    Cap,        \* the capacity of the queue
    Items,      \* the pointers callers enqueue
    Threads,    \* the calling threads
    NoItem      \* what a thread that is not dequeuing holds

VARIABLES queue, got

vars == <<queue, got>>

Init ==
    /\ queue = <<>>
    /\ got = [t \in Threads |-> NoItem]

Enqueue(x) ==
    /\ Len(queue) < Cap
    /\ queue' = Append(queue, x)
    /\ UNCHANGED got

Dequeue(t) ==
    /\ queue # <<>>
    /\ got[t] = NoItem
    /\ got' = [got EXCEPT ![t] = Head(queue)]
    /\ queue' = Tail(queue)

Return(t) ==
    /\ got[t] # NoItem
    /\ got' = [got EXCEPT ![t] = NoItem]
    /\ UNCHANGED queue

Next ==
    \/ \E x \in Items : Enqueue(x)
    \/ \E t \in Threads : Dequeue(t) \/ Return(t)

Spec == Init /\ [][Next]_vars
=============================================================================
