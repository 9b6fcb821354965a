----------------------------- MODULE RingBuffer -----------------------------
(***************************************************************************)
(* The lock-free bounded ring of libs/ring0/postoffice/perf/ringbuf.c, at  *)
(* the grain of its atomic operations: every load, compare-and-swap and    *)
(* store of head, tail, a slot's sequence number or a slot's item is one   *)
(* step, and any number of threads call enqueue, dequeue, count and peek.  *)
(*                                                                         *)
(* head, tail and seq are size_t in the code and only ever compared by     *)
(* signed difference, so they are natural numbers here; tail & mask is     *)
(* tail % Cap because perf_ringbuf_create accepts powers of two only.      *)
(***************************************************************************)
EXTENDS Naturals

CONSTANTS
    Producers,  \* threads that may call perf_ringbuf_enqueue
    Consumers,  \* threads that may call dequeue and peek_at
    Items,      \* the pointers enqueued
    Cap,        \* rb->cap
    MaxPos,     \* bound: no enqueue starts once tail has reached it
    NoItem      \* content of a slot nobody has written yet

Threads == Producers \cup Consumers

(***************************************************************************)
(* perf_ringbuf_create accepts every power of two, 1 included. The ring    *)
(* needs two slots: with one, a full slot looks free to the next lap.      *)
(***************************************************************************)
ASSUME CapAssumption == Cap \in Nat \ {0}
ASSUME BoundAssumption == MaxPos \in Nat
ASSUME ItemAssumption == NoItem \notin Items

VARIABLES
    head, tail, \* the read and the write index
    seq,        \* sequence number of each slot
    item,       \* pointer stored in each slot
    pc,         \* where each thread is in the call it is making
    pos,        \* its local copy of tail or head
    val         \* the pointer it enqueues, or has dequeued

vars == <<head, tail, seq, item, pc, pos, val>>

Slots == 0..(Cap - 1)
Slot(p) == p % Cap

EnqPc == {"enq_seq", "enq_reload", "enq_cas", "enq_item", "enq_publish"}
DeqPc == {"deq_seq", "deq_reload", "deq_cas", "deq_item", "deq_release"}
PeekPc == {"peek_seq", "peek_item"}

TypeOK ==
    /\ head \in Nat
    /\ tail \in Nat
    /\ seq \in [Slots -> Nat]
    /\ item \in [Slots -> Items \cup {NoItem}]
    /\ pc \in [Threads -> {"idle", "count"} \cup EnqPc \cup DeqPc \cup PeekPc]
    /\ pos \in [Threads -> Nat]
    /\ val \in [Threads -> Items \cup {NoItem}]

Init ==
    /\ head = 0
    /\ tail = 0
    /\ seq = [i \in Slots |-> i]
    /\ item = [i \in Slots |-> NoItem]
    /\ pc = [t \in Threads |-> "idle"]
    /\ pos = [t \in Threads |-> 0]
    /\ val = [t \in Threads |-> NoItem]

Goto(t, label) == pc' = [pc EXCEPT ![t] = label]

-----------------------------------------------------------------------------
(* perf_ringbuf_enqueue *)

EnqStart(t, x) ==
    /\ t \in Producers
    /\ pc[t] = "idle"
    /\ tail < MaxPos
    /\ pos' = [pos EXCEPT ![t] = tail]
    /\ val' = [val EXCEPT ![t] = x]
    /\ Goto(t, "enq_seq")
    /\ UNCHANGED <<head, tail, seq, item>>

(* Mutant: any mismatch counts as full, a stale copy of tail included. *)
EnqLoadSeqGivesUp(t) ==
    /\ pc[t] = "enq_seq"
    /\ LET s == seq[Slot(pos[t])] IN
           \/ s = pos[t] /\ Goto(t, "enq_cas") /\ UNCHANGED val
           \/ /\ s # pos[t]
              /\ Goto(t, "idle")
              /\ val' = [val EXCEPT ![t] = NoItem]
    /\ UNCHANGED <<head, tail, seq, item, pos>>

(* diff = seq - tail decides: claim the slot, report full, or start over.  *)
EnqLoadSeq(t) ==
    /\ pc[t] = "enq_seq"
    /\ LET s == seq[Slot(pos[t])] IN
           \/ s = pos[t] /\ Goto(t, "enq_cas") /\ UNCHANGED val
           \/ /\ s < pos[t]
              /\ Goto(t, "idle")
              /\ val' = [val EXCEPT ![t] = NoItem]
           \/ s > pos[t] /\ Goto(t, "enq_reload") /\ UNCHANGED val
    /\ UNCHANGED <<head, tail, seq, item, pos>>

EnqReload(t) ==
    /\ pc[t] = "enq_reload"
    /\ pos' = [pos EXCEPT ![t] = tail]
    /\ Goto(t, "enq_seq")
    /\ UNCHANGED <<head, tail, seq, item, val>>

(* Mutant: a store of tail + 1 where the code has a compare-and-swap. *)
EnqClaimBlind(t) ==
    /\ pc[t] = "enq_cas"
    /\ tail' = pos[t] + 1
    /\ Goto(t, "enq_item")
    /\ UNCHANGED <<head, seq, item, pos, val>>

EnqClaim(t) ==
    /\ pc[t] = "enq_cas"
    /\ tail = pos[t]
    /\ tail' = tail + 1
    /\ Goto(t, "enq_item")
    /\ UNCHANGED <<head, seq, item, pos, val>>

(* The exchange is weak: it may fail although tail is unchanged, and a     *)
(* failure reloads the expected value.                                     *)
EnqCasFail(t) ==
    /\ pc[t] = "enq_cas"
    /\ pos' = [pos EXCEPT ![t] = tail]
    /\ Goto(t, "enq_seq")
    /\ UNCHANGED <<head, tail, seq, item, val>>

(* Mutant: the slot is published before its item is written. *)
EnqItemEarly(t) ==
    /\ pc[t] = "enq_item"
    /\ seq' = [seq EXCEPT ![Slot(pos[t])] = pos[t] + 1]
    /\ Goto(t, "enq_publish")
    /\ UNCHANGED <<head, tail, item, pos, val>>

EnqItem(t) ==
    /\ pc[t] = "enq_item"
    /\ item' = [item EXCEPT ![Slot(pos[t])] = val[t]]
    /\ Goto(t, "enq_publish")
    /\ UNCHANGED <<head, tail, seq, pos, val>>

EnqPublish(t) ==
    /\ pc[t] = "enq_publish"
    /\ seq' = [seq EXCEPT ![Slot(pos[t])] = pos[t] + 1]
    /\ val' = [val EXCEPT ![t] = NoItem]
    /\ Goto(t, "idle")
    /\ UNCHANGED <<head, tail, item, pos>>

-----------------------------------------------------------------------------
(* perf_ringbuf_dequeue *)

DeqStart(t) ==
    /\ t \in Consumers
    /\ pc[t] = "idle"
    /\ pos' = [pos EXCEPT ![t] = head]
    /\ Goto(t, "deq_seq")
    /\ UNCHANGED <<head, tail, seq, item, val>>

(* diff = seq - (head + 1) decides: claim, report empty, or start over.    *)
DeqLoadSeq(t) ==
    /\ pc[t] = "deq_seq"
    /\ LET s == seq[Slot(pos[t])] IN
           \/ s = pos[t] + 1 /\ Goto(t, "deq_cas")
           \/ s < pos[t] + 1 /\ Goto(t, "idle")
           \/ s > pos[t] + 1 /\ Goto(t, "deq_reload")
    /\ UNCHANGED <<head, tail, seq, item, pos, val>>

DeqReload(t) ==
    /\ pc[t] = "deq_reload"
    /\ pos' = [pos EXCEPT ![t] = head]
    /\ Goto(t, "deq_seq")
    /\ UNCHANGED <<head, tail, seq, item, val>>

DeqClaim(t) ==
    /\ pc[t] = "deq_cas"
    /\ head = pos[t]
    /\ head' = head + 1
    /\ Goto(t, "deq_item")
    /\ UNCHANGED <<tail, seq, item, pos, val>>

DeqCasFail(t) ==
    /\ pc[t] = "deq_cas"
    /\ pos' = [pos EXCEPT ![t] = head]
    /\ Goto(t, "deq_seq")
    /\ UNCHANGED <<head, tail, seq, item, val>>

DeqItem(t) ==
    /\ pc[t] = "deq_item"
    /\ val' = [val EXCEPT ![t] = item[Slot(pos[t])]]
    /\ Goto(t, "deq_release")
    /\ UNCHANGED <<head, tail, seq, item, pos>>

(* The slot gets the sequence number of its next lap: head + mask + 1.     *)
DeqRelease(t) ==
    /\ pc[t] = "deq_release"
    /\ seq' = [seq EXCEPT ![Slot(pos[t])] = pos[t] + Cap]
    /\ val' = [val EXCEPT ![t] = NoItem]
    /\ Goto(t, "idle")
    /\ UNCHANGED <<head, tail, item, pos>>

-----------------------------------------------------------------------------
(* perf_ringbuf_count: two relaxed loads, head first *)

CountLoadHead(t) ==
    /\ pc[t] = "idle"
    /\ pos' = [pos EXCEPT ![t] = head]
    /\ Goto(t, "count")
    /\ UNCHANGED <<head, tail, seq, item, val>>

Counted(h, t) == IF t > h THEN t - h ELSE 0

CountLoadTail(t) ==
    /\ pc[t] = "count"
    /\ Goto(t, "idle")
    /\ UNCHANGED <<head, tail, seq, item, pos, val>>

(* perf_ringbuf_peek_at, of which perf_ringbuf_peek is the case idx = 0 *)

PeekLoadHead(t, idx) ==
    /\ t \in Consumers
    /\ pc[t] = "idle"
    /\ pos' = [pos EXCEPT ![t] = head + idx]
    /\ Goto(t, "peek_seq")
    /\ UNCHANGED <<head, tail, seq, item, val>>

(* Mutant: compares with a claimed, not with a published slot. *)
PeekLoadSeqClaimed(t) ==
    /\ pc[t] = "peek_seq"
    /\ \/ pos[t] < tail /\ Goto(t, "peek_item")
       \/ pos[t] >= tail /\ Goto(t, "idle")
    /\ UNCHANGED <<head, tail, seq, item, pos, val>>

PeekLoadSeq(t) ==
    /\ pc[t] = "peek_seq"
    /\ \/ seq[Slot(pos[t])] = pos[t] + 1 /\ Goto(t, "peek_item")
       \/ seq[Slot(pos[t])] # pos[t] + 1 /\ Goto(t, "idle")
    /\ UNCHANGED <<head, tail, seq, item, pos, val>>

PeekItem(t) ==
    /\ pc[t] = "peek_item"
    /\ Goto(t, "idle")
    /\ UNCHANGED <<head, tail, seq, item, pos, val>>

-----------------------------------------------------------------------------
Enqueue(t) ==
    \/ \E x \in Items : EnqStart(t, x)
    \/ EnqLoadSeq(t) \/ EnqReload(t) \/ EnqClaim(t) \/ EnqCasFail(t)
    \/ EnqItem(t) \/ EnqPublish(t)

Dequeue(t) ==
    \/ DeqStart(t) \/ DeqLoadSeq(t) \/ DeqReload(t) \/ DeqClaim(t)
    \/ DeqCasFail(t) \/ DeqItem(t) \/ DeqRelease(t)

Observe(t) ==
    \/ CountLoadHead(t) \/ CountLoadTail(t)
    \/ \E idx \in Slots : PeekLoadHead(t, idx)
    \/ PeekLoadSeq(t) \/ PeekItem(t)

Next == \E t \in Threads : Enqueue(t) \/ Dequeue(t) \/ Observe(t)

Spec == Init /\ [][Next]_vars

-----------------------------------------------------------------------------
(* Properties *)

Writing(t) == pc[t] \in {"enq_item", "enq_publish"}
Reading(t) == pc[t] \in {"deq_item", "deq_release"}

(***************************************************************************)
(* Between the exchange on tail or head and the store that releases the    *)
(* slot, the thread owns the slot alone: the plain (non-atomic) accesses   *)
(* to slot->item of two calls never overlap.                               *)
(***************************************************************************)
SlotOwnership ==
    \A t, u \in Threads :
        (t # u /\ (Writing(t) \/ Reading(t)) /\ (Writing(u) \/ Reading(u)))
            => Slot(pos[t]) # Slot(pos[u])

(***************************************************************************)
(* Never more than Cap claimed entries, and never fewer than none: no      *)
(* enqueue overwrites an entry that was not dequeued, no dequeue passes    *)
(* the producers.                                                          *)
(***************************************************************************)
NeverOverfull == head <= tail /\ tail <= head + Cap

EmptyReturn ==
    \A t \in Threads :
        (pc[t] = "deq_seq" /\ pc'[t] = "idle")
            => \/ head = tail
               \/ \E u \in Threads : Writing(u) /\ pos[u] = head

FullReturn ==
    \A t \in Threads :
        (pc[t] = "enq_seq" /\ pc'[t] = "idle")
            => \/ tail = head + Cap
               \/ \E u \in Threads : Reading(u) /\ pos[u] + Cap = tail

ZeroReturn ==
    \A t \in Threads :
        (pc[t] = "count" /\ pc'[t] = "idle" /\ Counted(pos[t], tail) = 0)
            => head = tail

(***************************************************************************)
(* The answers callers act on are true when they are given. A dequeue      *)
(* returns -1 (`Empty') only when nothing is queued or the producer that   *)
(* claimed the oldest entry has not published it; an enqueue returns -1    *)
(* (full) only when Cap entries are queued or a consumer still holds the   *)
(* slot the next entry would go to; and 0 from perf_ringbuf_count, which   *)
(* is two loads, is exact at the second: the flush worker's exit test      *)
(* relies on it.                                                           *)
(***************************************************************************)
ReturnsAreHonest == [][EmptyReturn /\ FullReturn /\ ZeroReturn]_vars

(***************************************************************************)
(* peek_at reads a published entry as long as nobody has dequeued it: with *)
(* one consumer, which is the one that peeks, it is always a queued entry. *)
(***************************************************************************)
PeekSeesQueued ==
    \A t \in Threads :
        (pc[t] = "peek_item" /\ pos[t] >= head)
            => pos[t] < tail /\ seq[Slot(pos[t])] = pos[t] + 1

-----------------------------------------------------------------------------
(***************************************************************************)
(* The ring implements BoundedQueue. An entry is queued from the exchange  *)
(* on tail to the exchange on head; until it is published its value is the *)
(* one its producer is about to write.                                     *)
(***************************************************************************)
Writer(p) == CHOOSE t \in Threads : Writing(t) /\ pos[t] = p

ValueAt(p) ==
    IF seq[Slot(p)] = p + 1 THEN item[Slot(p)] ELSE val[Writer(p)]

QueueView == [i \in 1..(tail - head) |-> ValueAt(head + i - 1)]

GotView ==
    [t \in Threads |->
        CASE pc[t] = "deq_item" -> item[Slot(pos[t])]
          [] pc[t] = "deq_release" -> val[t]
          [] OTHER -> NoItem]

Abs == INSTANCE BoundedQueue WITH queue <- QueueView, got <- GotView

(***************************************************************************)
(* perf_ringbuf_enqueue and perf_ringbuf_dequeue are a FIFO queue of       *)
(* capacity Cap for any number of producers and consumers.                 *)
(***************************************************************************)
IsBoundedQueue == Abs!Spec
=============================================================================
