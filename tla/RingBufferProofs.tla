-------------------------- MODULE RingBufferProofs --------------------------
(***************************************************************************)
(* Proofs about RingBuffer for every number of threads, every set of items *)
(* and every capacity of at least two.                                     *)
(***************************************************************************)
EXTENDS RingBuffer, TLAPS

(***************************************************************************)
(* Arithmetic of the slot index, the only facts about % that are used.     *)
(***************************************************************************)
LEMMA DivMod ==
    ASSUME NEW p \in Nat
    PROVE  /\ p \div Cap \in Nat
           /\ p % Cap \in 0..(Cap - 1)
           /\ p = Cap * (p \div Cap) + (p % Cap)
BY CapAssumption, SMT

LEMMA ProductGap ==
    ASSUME NEW a \in Nat, NEW b \in Nat, a < b
    PROVE  Cap * a + Cap <= Cap * b
<1>1. PICK d \in Nat : b = a + 1 + d
  BY SMT
<1>2. Cap * b = Cap * a + Cap + Cap * d
  BY <1>1, CapAssumption, SMT
<1>3. Cap * d \in Nat
  BY CapAssumption, SMT
<1> QED BY <1>2, <1>3, CapAssumption, SMT

LEMMA SlotInRange ==
    ASSUME NEW p \in Nat PROVE Slot(p) \in Slots
BY CapAssumption, SMT DEF Slot, Slots

LEMMA SlotPeriodic ==
    ASSUME NEW p \in Nat PROVE Slot(p + Cap) = Slot(p)
<1> DEFINE a == p \div Cap
           b == (p + Cap) \div Cap
           r == p % Cap
           s == (p + Cap) % Cap
<1>0. p + Cap \in Nat /\ Cap \in Nat /\ Cap > 0
  BY CapAssumption
<1>1. a \in Nat /\ r \in 0..(Cap - 1) /\ p = Cap * a + r
  BY DivMod
<1>2. b \in Nat /\ s \in 0..(Cap - 1) /\ p + Cap = Cap * b + s
  BY DivMod, <1>0
<1> HIDE DEF a, b, r, s
<1>3. Cap * (a + 1) = Cap * a + Cap /\ Cap * a \in Nat /\ Cap * b \in Nat
  BY <1>0, <1>1, <1>2, SMT
<1>4. ~(a + 1 < b)
  <2> SUFFICES ASSUME a + 1 < b PROVE FALSE
    OBVIOUS
  <2>1. Cap * (a + 1) + Cap <= Cap * b
    BY ProductGap, <1>1, <1>2
  <2> QED BY <2>1, <1>0, <1>1, <1>2, <1>3, SMT
<1>5. ~(b < a + 1)
  <2> SUFFICES ASSUME b < a + 1 PROVE FALSE
    OBVIOUS
  <2>1. Cap * b + Cap <= Cap * (a + 1)
    BY ProductGap, <1>1, <1>2
  <2> QED BY <2>1, <1>0, <1>1, <1>2, <1>3, SMT
<1>6. b = a + 1
  BY <1>1, <1>2, <1>4, <1>5, SMT
<1>7. r = s
  BY <1>0, <1>1, <1>2, <1>3, <1>6, SMT
<1> QED BY <1>7 DEF Slot, r, s

LEMMA SlotInjective ==
    ASSUME NEW p \in Nat, NEW q \in Nat, p < q, q < p + Cap
    PROVE  Slot(p) # Slot(q)
<1> SUFFICES ASSUME p % Cap = q % Cap PROVE FALSE
  BY DEF Slot
<1> DEFINE a == p \div Cap
           b == q \div Cap
           r == p % Cap
<1>0. Cap \in Nat /\ Cap > 0
  BY CapAssumption
<1>1. a \in Nat /\ r \in 0..(Cap - 1) /\ p = Cap * a + r
  BY DivMod
<1>2. b \in Nat /\ q = Cap * b + r
  BY DivMod
<1> HIDE DEF a, b, r
<1>3. Cap * a \in Nat /\ Cap * b \in Nat
  BY <1>0, <1>1, <1>2, SMT
<1>4. Cap * a < Cap * b
  BY <1>0, <1>1, <1>2, <1>3, SMT
<1>5. CASE a < b
  <2>1. Cap * a + Cap <= Cap * b
    BY ProductGap, <1>1, <1>2, <1>5
  <2> QED BY <2>1, <1>0, <1>1, <1>2, <1>3, SMT
<1>6. CASE b < a
  <2>1. Cap * b + Cap <= Cap * a
    BY ProductGap, <1>1, <1>2, <1>6
  <2> QED BY <2>1, <1>0, <1>3, <1>4, SMT
<1>7. CASE a = b
  BY <1>3, <1>4, <1>7, SMT
<1> QED BY <1>1, <1>2, <1>5, <1>6, <1>7, SMT

-----------------------------------------------------------------------------
(***************************************************************************)
(* The inductive invariant. A position p stands for the p-th enqueue ever  *)
(* made; slot Slot(p) serves positions head .. head + Cap - 1 once each.   *)
(***************************************************************************)

(* A queued position is published, or its producer is still writing it.    *)
ClaimedSeq ==
    \A p \in Nat : (head <= p /\ p < tail) =>
        \/ seq[Slot(p)] = p + 1
        \/ /\ seq[Slot(p)] = p
           /\ \E t \in Threads : Writing(t) /\ pos[t] = p

(* A position not yet claimed has its slot free, or the consumer of the    *)
(* previous lap has not released it.                                       *)
FreeSeq ==
    \A p \in Nat : (tail <= p /\ p < head + Cap) =>
        \/ seq[Slot(p)] = p
        \/ /\ seq[Slot(p)] + Cap = p + 1
           /\ \E t \in Threads : Reading(t) /\ pos[t] + Cap = p

WriterPos ==
    \A t \in Threads : Writing(t) =>
        head <= pos[t] /\ pos[t] < tail /\ seq[Slot(pos[t])] = pos[t]

ReaderPos ==
    \A t \in Threads : Reading(t) =>
        pos[t] < head /\ tail <= pos[t] + Cap /\ seq[Slot(pos[t])] = pos[t] + 1

OnePerPosition ==
    \A t, u \in Threads : t # u =>
        /\ (Writing(t) /\ Writing(u)) => pos[t] # pos[u]
        /\ (Reading(t) /\ Reading(u)) => pos[t] # pos[u]

(* What a thread knows of its possibly stale copy of tail or head.         *)
EnqLocal ==
    \A t \in Threads :
        /\ pc[t] \in {"enq_seq", "enq_reload", "enq_cas"} =>
              pos[t] <= tail /\ (pos[t] < tail => pos[t] <= seq[Slot(pos[t])])
        /\ pc[t] = "enq_cas" => pos[t] <= seq[Slot(pos[t])]

DeqLocal ==
    \A t \in Threads :
        /\ pc[t] \in {"deq_seq", "deq_reload", "deq_cas"} =>
              pos[t] <= head /\ (pos[t] < head => pos[t] + 1 <= seq[Slot(pos[t])])
        /\ pc[t] = "deq_cas" => pos[t] + 1 <= seq[Slot(pos[t])]
        /\ pc[t] = "count" => pos[t] <= head
        /\ pc[t] \in PeekPc => pos[t] < head + Cap
        /\ pc[t] = "peek_item" => pos[t] + 1 <= seq[Slot(pos[t])]

IndInv ==
    /\ TypeOK
    /\ NeverOverfull
    /\ ClaimedSeq
    /\ FreeSeq
    /\ WriterPos
    /\ ReaderPos
    /\ OnePerPosition
    /\ EnqLocal
    /\ DeqLocal

LEMMA WindowInjective ==
    ASSUME NEW p \in Nat, NEW q \in Nat, TypeOK, p # q,
           head <= p, p < head + Cap, head <= q, q < head + Cap
    PROVE  Slot(p) # Slot(q)
<1>0. Cap \in Nat /\ head \in Nat
  BY CapAssumption DEF TypeOK
<1>1. CASE p < q
  BY <1>0, <1>1, SlotInjective, SMT
<1>2. CASE q < p
  BY <1>0, <1>2, SlotInjective, SMT
<1> QED BY <1>1, <1>2, SMT

LEMMA InitEstablishes == Init => IndInv
<1> SUFFICES ASSUME Init PROVE IndInv
  OBVIOUS
<1> USE CapAssumption DEF Init
<1>1. TypeOK
  BY DEF TypeOK, Slots
<1>2. NeverOverfull
  BY SMT DEF NeverOverfull
<1>3. \A t \in Threads : pc[t] = "idle"
  OBVIOUS
<1>4. ClaimedSeq
  BY SMT DEF ClaimedSeq
<1>5. FreeSeq
  <2>1. \A p \in Nat : p < Cap => Slot(p) = p /\ p \in Slots
    BY SMT DEF Slot, Slots
  <2> QED BY <2>1, SMT DEF FreeSeq
<1> QED
  BY <1>1, <1>2, <1>3, <1>4, <1>5
  DEF IndInv, WriterPos, ReaderPos, OnePerPosition, EnqLocal, DeqLocal,
      Writing, Reading

LEMMA TypeStep == ASSUME TypeOK, [Next]_vars PROVE TypeOK'
<1> USE DEF TypeOK, Goto
<1>0. Cap \in Nat
  BY CapAssumption
<1>1. CASE UNCHANGED vars
  BY <1>1 DEF vars
<1>2. ASSUME NEW t \in Threads, Enqueue(t) PROVE TypeOK'
  <2>1. ASSUME NEW x \in Items, EnqStart(t, x) PROVE TypeOK'
    BY <2>1 DEF EnqStart, EnqPc
  <2>2. CASE EnqLoadSeq(t)
    BY <2>2 DEF EnqLoadSeq, EnqPc
  <2>3. CASE EnqReload(t)
    BY <2>3 DEF EnqReload, EnqPc
  <2>4. CASE EnqClaim(t)
    BY <2>4 DEF EnqClaim, EnqPc
  <2>5. CASE EnqCasFail(t)
    BY <2>5 DEF EnqCasFail, EnqPc
  <2>6. CASE EnqItem(t)
    BY <2>6 DEF EnqItem, EnqPc
  <2>7. CASE EnqPublish(t)
    <3>1. pos[t] + 1 \in Nat
      BY <1>0
    <3>2. seq' \in [Slots -> Nat]
      BY <2>7, <3>1 DEF EnqPublish
    <3>3. pc' \in [Threads -> {"idle", "count"} \cup EnqPc \cup DeqPc \cup PeekPc]
      BY <2>7 DEF EnqPublish
    <3> QED BY <2>7, <3>2, <3>3 DEF EnqPublish
  <2> QED BY <1>2, <2>1, <2>2, <2>3, <2>4, <2>5, <2>6, <2>7 DEF Enqueue
<1>3. ASSUME NEW t \in Threads, Dequeue(t) PROVE TypeOK'
  <2>1. CASE DeqStart(t)
    BY <2>1 DEF DeqStart, DeqPc
  <2>2. CASE DeqLoadSeq(t)
    BY <2>2 DEF DeqLoadSeq, DeqPc
  <2>3. CASE DeqReload(t)
    BY <2>3 DEF DeqReload, DeqPc
  <2>4. CASE DeqClaim(t)
    BY <2>4 DEF DeqClaim, DeqPc
  <2>5. CASE DeqCasFail(t)
    BY <2>5 DEF DeqCasFail, DeqPc
  <2>6. CASE DeqItem(t)
    BY <2>6, SlotInRange DEF DeqItem, DeqPc
  <2>7. CASE DeqRelease(t)
    <3>1. pos[t] + Cap \in Nat
      BY <1>0
    <3>2. seq' \in [Slots -> Nat]
      BY <2>7, <3>1 DEF DeqRelease
    <3>3. pc' \in [Threads -> {"idle", "count"} \cup EnqPc \cup DeqPc \cup PeekPc]
      BY <2>7 DEF DeqRelease
    <3> QED BY <2>7, <3>2, <3>3 DEF DeqRelease
  <2> QED BY <1>3, <2>1, <2>2, <2>3, <2>4, <2>5, <2>6, <2>7 DEF Dequeue
<1>4. ASSUME NEW t \in Threads, Observe(t) PROVE TypeOK'
  <2>1. CASE CountLoadHead(t)
    BY <2>1 DEF CountLoadHead
  <2>2. CASE CountLoadTail(t)
    BY <2>2 DEF CountLoadTail
  <2>3. ASSUME NEW idx \in Slots, PeekLoadHead(t, idx) PROVE TypeOK'
    <3>1. head + idx \in Nat
      BY <1>0 DEF Slots
    <3> QED BY <2>3, <3>1 DEF PeekLoadHead, PeekPc
  <2>4. CASE PeekLoadSeq(t)
    BY <2>4 DEF PeekLoadSeq, PeekPc
  <2>5. CASE PeekItem(t)
    BY <2>5 DEF PeekItem
  <2> QED BY <1>4, <2>1, <2>2, <2>3, <2>4, <2>5 DEF Observe
<1> QED BY <1>1, <1>2, <1>3, <1>4 DEF Next

-----------------------------------------------------------------------------
(* The conjuncts about slots and their owners, without the local copies. *)
Ownership ==
    NeverOverfull /\ ClaimedSeq /\ FreeSeq /\ WriterPos /\ ReaderPos /\ OnePerPosition

(***************************************************************************)
(* A step that moves no index, publishes nothing and leaves the owners of  *)
(* slots where they are keeps Ownership.                                   *)
(***************************************************************************)
LEMMA LocalStep ==
    ASSUME IndInv, NEW t \in Threads,
           UNCHANGED <<head, tail, seq>>,
           \A u \in Threads : u # t => pc'[u] = pc[u] /\ pos'[u] = pos[u],
           Writing(t)' <=> Writing(t),
           Reading(t)' <=> Reading(t),
           (Writing(t) \/ Reading(t)) => pos'[t] = pos[t]
    PROVE  Ownership'
<1>1. \A u \in Threads :
        /\ Writing(u)' <=> Writing(u)
        /\ Reading(u)' <=> Reading(u)
        /\ (Writing(u) \/ Reading(u)) => pos'[u] = pos[u]
  BY DEF Writing, Reading
<1>2. NeverOverfull'
  BY DEF IndInv, NeverOverfull
<1>3. ClaimedSeq'
  BY <1>1 DEF IndInv, ClaimedSeq, Writing, Reading
<1>4. FreeSeq'
  BY <1>1 DEF IndInv, FreeSeq, Writing, Reading
<1>5. WriterPos'
  BY <1>1 DEF IndInv, WriterPos, Writing, Reading
<1>6. ReaderPos'
  BY <1>1 DEF IndInv, ReaderPos, Writing, Reading
<1>7. OnePerPosition'
  BY <1>1 DEF IndInv, OnePerPosition, Writing, Reading
<1> QED BY <1>2, <1>3, <1>4, <1>5, <1>6, <1>7 DEF Ownership

(***************************************************************************)
(* Sequence numbers only grow, so what a thread knows of the slot its      *)
(* stale copy points to stays true.                                        *)
(***************************************************************************)
LEMMA LocalsKept ==
    ASSUME IndInv, TypeOK', NEW t \in Threads,
           head <= head', tail <= tail',
           \A i \in Slots : seq[i] <= seq'[i],
           tail' # tail => tail' = tail + 1 /\ tail <= seq'[Slot(tail)],
           head' # head => head' = head + 1 /\ head + 1 <= seq'[Slot(head)],
           \A u \in Threads : u # t => pc'[u] = pc[u] /\ pos'[u] = pos[u],
           pc'[t] \notin EnqPc \cup DeqPc \cup PeekPc \cup {"count"} \/ Writing(t)' \/ Reading(t)'
    PROVE  EnqLocal' /\ DeqLocal'
<1>1. \A u \in Threads : pos[u] \in Nat /\ Slot(pos[u]) \in Slots
  BY SlotInRange DEF IndInv, TypeOK
<1>2. head \in Nat /\ tail \in Nat /\ head' \in Nat /\ tail' \in Nat
  BY DEF IndInv, TypeOK
<1>3. \A i \in Slots : seq[i] \in Nat /\ seq'[i] \in Nat
  BY DEF IndInv, TypeOK
<1>4. \A u \in Threads :
        pc'[u] \in {"enq_seq", "enq_reload", "enq_cas", "deq_seq", "deq_reload",
                    "deq_cas", "count", "peek_seq", "peek_item"} => u # t
  BY DEF Writing, Reading, EnqPc, DeqPc, PeekPc
<1>5. EnqLocal'
  <2> SUFFICES ASSUME NEW u \in Threads,
                      pc'[u] \in {"enq_seq", "enq_reload", "enq_cas"}
               PROVE  /\ pos'[u] <= tail'
                      /\ pos'[u] < tail' => pos'[u] <= seq'[Slot(pos'[u])]
                      /\ pc'[u] = "enq_cas" => pos'[u] <= seq'[Slot(pos'[u])]
    BY DEF EnqLocal
  <2>1. u # t /\ pc'[u] = pc[u] /\ pos'[u] = pos[u]
    BY <1>4
  <2>2. /\ pos[u] <= tail
        /\ pos[u] < tail => pos[u] <= seq[Slot(pos[u])]
        /\ pc[u] = "enq_cas" => pos[u] <= seq[Slot(pos[u])]
    BY <2>1 DEF IndInv, EnqLocal
  <2>3. seq[Slot(pos[u])] <= seq'[Slot(pos[u])]
    BY <1>1
  <2> QED BY <1>1, <1>2, <1>3, <2>1, <2>2, <2>3, SMT
<1>6. DeqLocal'
  <2>1. ASSUME NEW u \in Threads, pc'[u] \in {"deq_seq", "deq_reload", "deq_cas"}
        PROVE  /\ pos'[u] <= head'
               /\ pos'[u] < head' => pos'[u] + 1 <= seq'[Slot(pos'[u])]
               /\ pc'[u] = "deq_cas" => pos'[u] + 1 <= seq'[Slot(pos'[u])]
    <3>1. u # t /\ pc'[u] = pc[u] /\ pos'[u] = pos[u]
      BY <1>4, <2>1
    <3>2. /\ pos[u] <= head
          /\ pos[u] < head => pos[u] + 1 <= seq[Slot(pos[u])]
          /\ pc[u] = "deq_cas" => pos[u] + 1 <= seq[Slot(pos[u])]
      BY <2>1, <3>1 DEF IndInv, DeqLocal
    <3>3. seq[Slot(pos[u])] <= seq'[Slot(pos[u])]
      BY <1>1
    <3> QED BY <1>1, <1>2, <1>3, <3>1, <3>2, <3>3, SMT
  <2>2. ASSUME NEW u \in Threads, pc'[u] = "count" PROVE pos'[u] <= head'
    <3>1. u # t /\ pc'[u] = pc[u] /\ pos'[u] = pos[u]
      BY <1>4, <2>2
    <3>2. pos[u] <= head
      BY <2>2, <3>1 DEF IndInv, DeqLocal
    <3> QED BY <1>1, <1>2, <3>1, <3>2, SMT
  <2>3. ASSUME NEW u \in Threads, pc'[u] \in {"peek_seq", "peek_item"}
        PROVE  /\ pos'[u] < head' + Cap
               /\ pc'[u] = "peek_item" => pos'[u] + 1 <= seq'[Slot(pos'[u])]
    <3>1. u # t /\ pc'[u] = pc[u] /\ pos'[u] = pos[u]
      BY <1>4, <2>3
    <3>2. /\ pos[u] < head + Cap
          /\ pc[u] = "peek_item" => pos[u] + 1 <= seq[Slot(pos[u])]
      BY <2>3, <3>1 DEF IndInv, DeqLocal, PeekPc
    <3>3. seq[Slot(pos[u])] <= seq'[Slot(pos[u])]
      BY <1>1
    <3> QED BY <1>1, <1>2, <1>3, <3>1, <3>2, <3>3, CapAssumption, SMT
  <2> QED BY <2>1, <2>2, <2>3 DEF DeqLocal, PeekPc
<1> QED BY <1>5, <1>6

-----------------------------------------------------------------------------
(* The four steps that move an index or hand a slot over. *)

(***************************************************************************)
(* The exchange on tail succeeds only on a free slot. With one slot the    *)
(* sequence number of a published entry, head + 1, is also the number the  *)
(* next position waits for: this is where Cap >= 2 is needed.              *)
(***************************************************************************)
LEMMA ClaimFindsFreeSlot ==
    ASSUME Cap >= 2, IndInv, NEW t \in Threads, EnqClaim(t)
    PROVE  tail < head + Cap /\ seq[Slot(tail)] = tail
<1>0. /\ Cap \in Nat /\ head \in Nat /\ tail \in Nat
      /\ head <= tail /\ tail <= head + Cap
  BY CapAssumption DEF IndInv, TypeOK, NeverOverfull
<1>1. tail <= seq[Slot(tail)]
  BY DEF EnqClaim, IndInv, EnqLocal
<1>2. tail # head + Cap
  <2> SUFFICES ASSUME tail = head + Cap PROVE FALSE
    OBVIOUS
  <2>1. Slot(tail) = Slot(head)
    BY <1>0, SlotPeriodic
  <2>2. head <= head /\ head < tail
    BY <1>0
  <2>3. seq[Slot(head)] = head + 1 \/ seq[Slot(head)] = head
    BY <1>0, <2>2 DEF IndInv, ClaimedSeq
  <2> QED BY <1>0, <1>1, <2>1, <2>3
<1>3. seq[Slot(tail)] = tail \/ seq[Slot(tail)] + Cap = tail + 1
  BY <1>0, <1>2 DEF IndInv, FreeSeq
<1>4. seq[Slot(tail)] \in Nat
  BY <1>0, SlotInRange DEF IndInv, TypeOK
<1> QED BY <1>0, <1>1, <1>2, <1>3, <1>4

LEMMA EnqClaimStep ==
    ASSUME Cap >= 2, IndInv, TypeOK', NEW t \in Threads, EnqClaim(t)
    PROVE  IndInv'
<1>0. /\ Cap \in Nat /\ head \in Nat /\ tail \in Nat
      /\ head <= tail /\ tail < head + Cap
      /\ pos[t] = tail /\ seq[Slot(tail)] = tail
  BY CapAssumption, ClaimFindsFreeSlot DEF IndInv, TypeOK, NeverOverfull, EnqClaim
<1>1. /\ tail' = tail + 1 /\ head' = head /\ seq' = seq /\ pos' = pos
      /\ ~Writing(t) /\ ~Reading(t) /\ Writing(t)' /\ ~Reading(t)'
      /\ \A u \in Threads : u # t => pc'[u] = pc[u]
  BY DEF EnqClaim, Goto, IndInv, TypeOK, Writing, Reading
<1>2. \A u \in Threads :
        pos[u] \in Nat /\ Slot(pos[u]) \in Slots /\ seq[Slot(pos[u])] \in Nat
  BY SlotInRange DEF IndInv, TypeOK
<1>3. NeverOverfull'
  BY <1>0, <1>1 DEF NeverOverfull
<1>4. ClaimedSeq'
  <2> SUFFICES ASSUME NEW p \in Nat, head <= p, p < tail + 1
               PROVE  \/ seq[Slot(p)] = p + 1
                      \/ /\ seq[Slot(p)] = p
                         /\ \E u \in Threads : Writing(u)' /\ pos[u] = p
    BY <1>1 DEF ClaimedSeq, Writing
  <2>1. CASE p = tail
    BY <1>0, <1>1, <2>1
  <2>2. CASE p # tail
    <3>1. p < tail
      BY <1>0, <2>2
    <3>2. \A u \in Threads : Writing(u) => Writing(u)'
      BY <1>1 DEF Writing
    <3> QED BY <3>1, <3>2 DEF IndInv, ClaimedSeq, Writing
  <2> QED BY <2>1, <2>2
<1>5. FreeSeq'
  <2> SUFFICES ASSUME NEW p \in Nat, tail + 1 <= p, p < head + Cap
               PROVE  \/ seq[Slot(p)] = p
                      \/ /\ seq[Slot(p)] + Cap = p + 1
                         /\ \E u \in Threads : Reading(u)' /\ pos[u] + Cap = p
    BY <1>1 DEF FreeSeq, Reading
  <2>1. tail <= p
    BY <1>0
  <2>2. \A u \in Threads : Reading(u) => Reading(u)'
    BY <1>1 DEF Reading
  <2> QED BY <2>1, <2>2 DEF IndInv, FreeSeq, Reading
<1>6. WriterPos'
  <2> SUFFICES ASSUME NEW u \in Threads, Writing(u)'
               PROVE  head <= pos[u] /\ pos[u] < tail + 1 /\ seq[Slot(pos[u])] = pos[u]
    BY <1>1 DEF WriterPos, Writing
  <2>1. CASE u = t
    BY <1>0, <2>1
  <2>2. CASE u # t
    <3>1. Writing(u)
      BY <1>1, <2>2 DEF Writing
    <3> QED BY <1>0, <1>2, <3>1 DEF IndInv, WriterPos
  <2> QED BY <2>1, <2>2
<1>7. ReaderPos'
  <2> SUFFICES ASSUME NEW u \in Threads, Reading(u)'
               PROVE  /\ pos[u] < head
                      /\ tail + 1 <= pos[u] + Cap
                      /\ seq[Slot(pos[u])] = pos[u] + 1
    BY <1>1 DEF ReaderPos, Reading
  <2>1. Reading(u)
    BY <1>1 DEF Reading
  <2>2. pos[u] < head /\ tail <= pos[u] + Cap /\ seq[Slot(pos[u])] = pos[u] + 1
    BY <2>1 DEF IndInv, ReaderPos
  <2>3. Slot(pos[u] + Cap) = Slot(pos[u])
    BY <1>2, SlotPeriodic
  <2>4. pos[u] + Cap # tail
    BY <1>0, <1>2, <2>2, <2>3
  <2> QED BY <1>0, <1>2, <2>2, <2>4
<1>8. OnePerPosition'
  <2>1. \A u \in Threads :
          u # t => (Writing(u)' <=> Writing(u)) /\ (Reading(u)' <=> Reading(u))
    BY <1>1 DEF Writing, Reading
  <2>2. \A u \in Threads : Writing(u) => pos[u] < tail
    BY DEF IndInv, WriterPos
  <2>3. \A u \in Threads : Writing(u) => pos[u] # tail
    BY <1>0, <1>2, <2>2
  <2> QED BY <1>0, <1>1, <2>1, <2>3 DEF IndInv, OnePerPosition, Writing, Reading
<1>9. EnqLocal' /\ DeqLocal'
  <2>1. \A i \in Slots : seq[i] \in Nat /\ seq[i] <= seq'[i]
    BY <1>1 DEF IndInv, TypeOK
  <2>2. tail <= seq'[Slot(tail)] /\ head <= head' /\ tail <= tail'
    BY <1>0, <1>1
  <2> QED BY <1>0, <1>1, <2>1, <2>2, LocalsKept
<1> QED
  BY <1>3, <1>4, <1>5, <1>6, <1>7, <1>8, <1>9 DEF IndInv

(* The exchange on head succeeds only on a published entry. *)
LEMMA ClaimFindsEntry ==
    ASSUME IndInv, NEW t \in Threads, DeqClaim(t)
    PROVE  head < tail /\ seq[Slot(head)] = head + 1
<1>0. /\ Cap \in Nat /\ Cap > 0 /\ head \in Nat /\ tail \in Nat
      /\ head <= tail /\ tail <= head + Cap
  BY CapAssumption DEF IndInv, TypeOK, NeverOverfull
<1>1. head + 1 <= seq[Slot(head)]
  BY DEF DeqClaim, IndInv, DeqLocal
<1>2. seq[Slot(head)] \in Nat
  BY <1>0, SlotInRange DEF IndInv, TypeOK
<1>3. head # tail
  <2> SUFFICES ASSUME head = tail PROVE FALSE
    OBVIOUS
  <2>1. tail <= head /\ head < head + Cap
    BY <1>0
  <2>2. seq[Slot(head)] = head \/ seq[Slot(head)] + Cap = head + 1
    BY <1>0, <2>1 DEF IndInv, FreeSeq
  <2> QED BY <1>0, <1>1, <1>2, <2>2
<1>4. head <= head /\ head < tail
  BY <1>0, <1>3
<1>5. seq[Slot(head)] = head + 1 \/ seq[Slot(head)] = head
  BY <1>0, <1>4 DEF IndInv, ClaimedSeq
<1> QED BY <1>0, <1>1, <1>2, <1>4, <1>5

LEMMA DeqClaimStep ==
    ASSUME IndInv, TypeOK', NEW t \in Threads, DeqClaim(t)
    PROVE  IndInv'
<1>0. /\ Cap \in Nat /\ Cap > 0 /\ head \in Nat /\ tail \in Nat
      /\ head < tail /\ tail <= head + Cap
      /\ pos[t] = head /\ seq[Slot(head)] = head + 1
  BY CapAssumption, ClaimFindsEntry DEF IndInv, TypeOK, NeverOverfull, DeqClaim
<1>1. /\ tail' = tail /\ head' = head + 1 /\ seq' = seq /\ pos' = pos
      /\ ~Writing(t) /\ ~Reading(t) /\ ~Writing(t)' /\ Reading(t)'
      /\ \A u \in Threads : u # t => pc'[u] = pc[u]
  BY DEF DeqClaim, Goto, IndInv, TypeOK, Writing, Reading
<1>2. \A u \in Threads :
        pos[u] \in Nat /\ Slot(pos[u]) \in Slots /\ seq[Slot(pos[u])] \in Nat
  BY SlotInRange DEF IndInv, TypeOK
<1>3. NeverOverfull'
  BY <1>0, <1>1 DEF NeverOverfull
<1>4. ClaimedSeq'
  <2> SUFFICES ASSUME NEW p \in Nat, head + 1 <= p, p < tail
               PROVE  \/ seq[Slot(p)] = p + 1
                      \/ /\ seq[Slot(p)] = p
                         /\ \E u \in Threads : Writing(u)' /\ pos[u] = p
    BY <1>1 DEF ClaimedSeq, Writing
  <2>1. head <= p
    BY <1>0
  <2>2. \A u \in Threads : Writing(u) => Writing(u)'
    BY <1>1 DEF Writing
  <2> QED BY <2>1, <2>2 DEF IndInv, ClaimedSeq, Writing
<1>5. FreeSeq'
  <2> SUFFICES ASSUME NEW p \in Nat, tail <= p, p < head + 1 + Cap
               PROVE  \/ seq[Slot(p)] = p
                      \/ /\ seq[Slot(p)] + Cap = p + 1
                         /\ \E u \in Threads : Reading(u)' /\ pos[u] + Cap = p
    BY <1>1 DEF FreeSeq, Reading
  <2>1. CASE p = head + Cap
    <3>1. Slot(p) = Slot(head)
      BY <1>0, <2>1, SlotPeriodic
    <3>2. seq[Slot(p)] + Cap = p + 1 /\ pos[t] + Cap = p
      BY <1>0, <2>1, <3>1
    <3> QED BY <1>1, <3>2
  <2>2. CASE p # head + Cap
    <3>1. p < head + Cap
      BY <1>0, <2>2
    <3>2. \A u \in Threads : Reading(u) => Reading(u)'
      BY <1>1 DEF Reading
    <3> QED BY <3>1, <3>2 DEF IndInv, FreeSeq, Reading
  <2> QED BY <2>1, <2>2
<1>6. WriterPos'
  <2> SUFFICES ASSUME NEW u \in Threads, Writing(u)'
               PROVE  head + 1 <= pos[u] /\ pos[u] < tail /\ seq[Slot(pos[u])] = pos[u]
    BY <1>1 DEF WriterPos, Writing
  <2>1. Writing(u)
    BY <1>1 DEF Writing
  <2>2. head <= pos[u] /\ pos[u] < tail /\ seq[Slot(pos[u])] = pos[u]
    BY <2>1 DEF IndInv, WriterPos
  <2>3. pos[u] # head
    BY <1>0, <2>2
  <2> QED BY <1>0, <1>2, <2>2, <2>3
<1>7. ReaderPos'
  <2> SUFFICES ASSUME NEW u \in Threads, Reading(u)'
               PROVE  /\ pos[u] < head + 1
                      /\ tail <= pos[u] + Cap
                      /\ seq[Slot(pos[u])] = pos[u] + 1
    BY <1>1 DEF ReaderPos, Reading
  <2>1. CASE u = t
    BY <1>0, <2>1
  <2>2. CASE u # t
    <3>1. Reading(u)
      BY <1>1, <2>2 DEF Reading
    <3> QED BY <1>0, <1>2, <3>1 DEF IndInv, ReaderPos
  <2> QED BY <2>1, <2>2
<1>8. OnePerPosition'
  <2>1. \A u \in Threads :
          u # t => (Writing(u)' <=> Writing(u)) /\ (Reading(u)' <=> Reading(u))
    BY <1>1 DEF Writing, Reading
  <2>2. \A u \in Threads : Reading(u) => pos[u] < head
    BY DEF IndInv, ReaderPos
  <2>3. \A u \in Threads : Reading(u) => pos[u] # head
    BY <1>0, <1>2, <2>2
  <2> QED BY <1>0, <1>1, <2>1, <2>3 DEF IndInv, OnePerPosition, Writing, Reading
<1>9. EnqLocal' /\ DeqLocal'
  <2>1. \A i \in Slots : seq[i] \in Nat /\ seq[i] <= seq'[i]
    BY <1>1 DEF IndInv, TypeOK
  <2>2. head + 1 <= seq'[Slot(head)] /\ head <= head' /\ tail <= tail'
    BY <1>0, <1>1
  <2> QED BY <1>0, <1>1, <2>1, <2>2, LocalsKept
<1> QED
  BY <1>3, <1>4, <1>5, <1>6, <1>7, <1>8, <1>9 DEF IndInv

(***************************************************************************)
(* The position of the current lap that a slot's owner works for.          *)
(***************************************************************************)
LEMMA OwnersApart ==
    ASSUME IndInv, NEW t \in Threads, NEW u \in Threads, t # u,
           Writing(t) \/ Reading(t), Writing(u) \/ Reading(u)
    PROVE  Slot(pos[t]) # Slot(pos[u])
<1>0. /\ Cap \in Nat /\ Cap > 0 /\ head \in Nat /\ tail \in Nat
      /\ head <= tail /\ tail <= head + Cap /\ TypeOK
      /\ pos[t] \in Nat /\ pos[u] \in Nat
  BY CapAssumption DEF IndInv, TypeOK, NeverOverfull
<1> DEFINE lap(v) == IF Writing(v) THEN pos[v] ELSE pos[v] + Cap
<1>1. ASSUME NEW v \in {t, u}
      PROVE  /\ lap(v) \in Nat /\ head <= lap(v) /\ lap(v) < head + Cap
             /\ Slot(lap(v)) = Slot(pos[v])
  <2>1. CASE Writing(v)
    BY <1>0, <2>1 DEF IndInv, WriterPos
  <2>2. CASE ~Writing(v)
    <3>1. Reading(v)
      BY <2>2
    <3>2. pos[v] < head /\ tail <= pos[v] + Cap
      BY <3>1 DEF IndInv, ReaderPos
    <3>3. Slot(pos[v] + Cap) = Slot(pos[v])
      BY <1>0, SlotPeriodic
    <3> QED BY <1>0, <2>2, <3>2, <3>3
  <2> QED BY <2>1, <2>2
<1>2. lap(t) # lap(u)
  <2>1. CASE Writing(t) /\ Writing(u)
    BY <2>1 DEF IndInv, OnePerPosition
  <2>2. CASE Writing(t) /\ ~Writing(u)
    <3>1. pos[t] < tail /\ tail <= pos[u] + Cap
      BY <2>2 DEF IndInv, WriterPos, ReaderPos
    <3> QED BY <1>0, <2>2, <3>1
  <2>3. CASE ~Writing(t) /\ Writing(u)
    <3>1. pos[u] < tail /\ tail <= pos[t] + Cap
      BY <2>3 DEF IndInv, WriterPos, ReaderPos
    <3> QED BY <1>0, <2>3, <3>1
  <2>4. CASE ~Writing(t) /\ ~Writing(u)
    <3>1. pos[t] # pos[u]
      BY <2>4 DEF IndInv, OnePerPosition
    <3> QED BY <1>0, <2>4, <3>1
  <2> QED BY <2>1, <2>2, <2>3, <2>4
<1> HIDE DEF lap
<1>3. Slot(lap(t)) # Slot(lap(u))
  BY <1>0, <1>1, <1>2, WindowInjective
<1> QED BY <1>1, <1>3

LEMMA EnqPublishStep ==
    ASSUME IndInv, TypeOK', NEW t \in Threads, EnqPublish(t)
    PROVE  IndInv'
<1> DEFINE own == Slot(pos[t])
<1>0. /\ Cap \in Nat /\ Cap > 0 /\ head \in Nat /\ tail \in Nat
      /\ head <= tail /\ tail <= head + Cap
      /\ pos[t] \in Nat /\ own \in Slots /\ TypeOK
  BY CapAssumption, SlotInRange DEF IndInv, TypeOK, NeverOverfull
<1>1. /\ tail' = tail /\ head' = head /\ pos' = pos
      /\ Writing(t) /\ ~Reading(t) /\ ~Writing(t)' /\ ~Reading(t)' /\ pc'[t] = "idle"
      /\ \A u \in Threads : u # t => pc'[u] = pc[u]
  BY DEF EnqPublish, Goto, IndInv, TypeOK, Writing, Reading
<1>2. \A u \in Threads :
        pos[u] \in Nat /\ Slot(pos[u]) \in Slots /\ seq[Slot(pos[u])] \in Nat
  BY SlotInRange DEF IndInv, TypeOK
<1>3. seq'[own] = pos[t] + 1 /\ \A i \in Slots : i # own => seq'[i] = seq[i]
  BY <1>0 DEF EnqPublish, IndInv, TypeOK
<1>4. head <= pos[t] /\ pos[t] < tail /\ seq[own] = pos[t]
  BY <1>1 DEF IndInv, WriterPos
<1>5. ASSUME NEW q \in Nat, head <= q, q < head + Cap, q # pos[t]
      PROVE  Slot(q) # own /\ seq'[Slot(q)] = seq[Slot(q)]
  <2>1. pos[t] \in Nat /\ head <= pos[t] /\ pos[t] < head + Cap
    BY <1>0, <1>4
  <2>2. Slot(pos[t]) = own
    BY <1>0, SlotPeriodic
  <2>3. Slot(q) # own
    BY <1>0, <1>5, <2>1, <2>2, WindowInjective
  <2> QED BY <1>3, <2>3, SlotInRange
<1>6. ASSUME NEW u \in Threads, u # t, Writing(u) \/ Reading(u)
      PROVE  Slot(pos[u]) # own /\ seq'[Slot(pos[u])] = seq[Slot(pos[u])]
  <2>1. Slot(pos[u]) # own
    BY <1>1, <1>6, OwnersApart
  <2> QED BY <1>2, <1>3, <2>1
<1> HIDE DEF own
<1>7. \A u \in Threads :
        /\ Writing(u)' <=> (Writing(u) /\ u # t)
        /\ Reading(u)' <=> (Reading(u) /\ u # t)
  BY <1>1 DEF Writing, Reading
<1>8. NeverOverfull'
  BY <1>0, <1>1 DEF NeverOverfull
<1>9. ClaimedSeq'
  <2> SUFFICES ASSUME NEW p \in Nat, head <= p, p < tail
               PROVE  \/ seq'[Slot(p)] = p + 1
                      \/ /\ seq'[Slot(p)] = p
                         /\ \E u \in Threads : Writing(u)' /\ pos[u] = p
    BY <1>1 DEF ClaimedSeq, Writing
  <2>1. CASE p = pos[t]
    BY <1>3, <2>1 DEF own
  <2>2. CASE p # pos[t]
    <3>1. seq'[Slot(p)] = seq[Slot(p)]
      BY <1>0, <1>4, <1>5, <2>2
    <3>2. \A u \in Threads : (Writing(u) /\ pos[u] = p) => Writing(u)'
      BY <1>1, <1>7, <2>2
    <3> QED BY <3>1, <3>2 DEF IndInv, ClaimedSeq, Writing
  <2> QED BY <2>1, <2>2
<1>10. FreeSeq'
  <2> SUFFICES ASSUME NEW p \in Nat, tail <= p, p < head + Cap
               PROVE  \/ seq'[Slot(p)] = p
                      \/ /\ seq'[Slot(p)] + Cap = p + 1
                         /\ \E u \in Threads : Reading(u)' /\ pos[u] + Cap = p
    BY <1>1 DEF FreeSeq, Reading
  <2>1. seq'[Slot(p)] = seq[Slot(p)]
    BY <1>0, <1>4, <1>5
  <2>2. \A u \in Threads : (Reading(u) /\ pos[u] + Cap = p) => Reading(u)'
    BY <1>0, <1>1, <1>2, <1>7
  <2> QED BY <2>1, <2>2 DEF IndInv, FreeSeq, Reading
<1>11. WriterPos'
  <2> SUFFICES ASSUME NEW u \in Threads, Writing(u)'
               PROVE  head <= pos[u] /\ pos[u] < tail /\ seq'[Slot(pos[u])] = pos[u]
    BY <1>1 DEF WriterPos, Writing
  <2>1. Writing(u) /\ u # t
    BY <1>7
  <2> QED BY <1>6, <2>1 DEF IndInv, WriterPos
<1>12. ReaderPos'
  <2> SUFFICES ASSUME NEW u \in Threads, Reading(u)'
               PROVE  /\ pos[u] < head
                      /\ tail <= pos[u] + Cap
                      /\ seq'[Slot(pos[u])] = pos[u] + 1
    BY <1>1 DEF ReaderPos, Reading
  <2>1. Reading(u) /\ u # t
    BY <1>7
  <2> QED BY <1>6, <2>1 DEF IndInv, ReaderPos
<1>13. OnePerPosition'
  BY <1>1, <1>7 DEF IndInv, OnePerPosition, Writing, Reading
<1>14. EnqLocal' /\ DeqLocal'
  <2>1. \A i \in Slots : seq[i] \in Nat
    BY DEF IndInv, TypeOK
  <2>2. seq[own] <= seq'[own]
    BY <1>0, <1>3, <1>4
  <2>3. \A i \in Slots : seq[i] <= seq'[i]
    BY <1>3, <2>1, <2>2
  <2>4. head <= head' /\ tail <= tail'
    BY <1>0, <1>1
  <2>5. pc'[t] \notin EnqPc \cup DeqPc \cup PeekPc \cup {"count"}
    BY <1>1 DEF EnqPc, DeqPc, PeekPc
  <2> QED BY <1>1, <2>3, <2>4, <2>5, LocalsKept
<1> QED
  BY <1>8, <1>9, <1>10, <1>11, <1>12, <1>13, <1>14 DEF IndInv

LEMMA DeqReleaseStep ==
    ASSUME IndInv, TypeOK', NEW t \in Threads, DeqRelease(t)
    PROVE  IndInv'
<1> DEFINE own == Slot(pos[t])
<1>0. /\ Cap \in Nat /\ Cap > 0 /\ head \in Nat /\ tail \in Nat
      /\ head <= tail /\ tail <= head + Cap
      /\ pos[t] \in Nat /\ own \in Slots /\ TypeOK
  BY CapAssumption, SlotInRange DEF IndInv, TypeOK, NeverOverfull
<1>1. /\ tail' = tail /\ head' = head /\ pos' = pos
      /\ Reading(t) /\ ~Writing(t) /\ ~Writing(t)' /\ ~Reading(t)' /\ pc'[t] = "idle"
      /\ \A u \in Threads : u # t => pc'[u] = pc[u]
  BY DEF DeqRelease, Goto, IndInv, TypeOK, Writing, Reading
<1>2. \A u \in Threads :
        pos[u] \in Nat /\ Slot(pos[u]) \in Slots /\ seq[Slot(pos[u])] \in Nat
  BY SlotInRange DEF IndInv, TypeOK
<1>3. seq'[own] = pos[t] + Cap /\ \A i \in Slots : i # own => seq'[i] = seq[i]
  BY <1>0 DEF DeqRelease, IndInv, TypeOK
<1>4. pos[t] < head /\ tail <= pos[t] + Cap /\ seq[own] = pos[t] + 1
  BY <1>1 DEF IndInv, ReaderPos
<1>5. ASSUME NEW q \in Nat, head <= q, q < head + Cap, q # pos[t] + Cap
      PROVE  Slot(q) # own /\ seq'[Slot(q)] = seq[Slot(q)]
  <2>1. pos[t] + Cap \in Nat /\ head <= pos[t] + Cap /\ pos[t] + Cap < head + Cap
    BY <1>0, <1>4
  <2>2. Slot(pos[t] + Cap) = own
    BY <1>0, SlotPeriodic
  <2>3. Slot(q) # own
    BY <1>0, <1>5, <2>1, <2>2, WindowInjective
  <2> QED BY <1>3, <2>3, SlotInRange
<1>6. ASSUME NEW u \in Threads, u # t, Writing(u) \/ Reading(u)
      PROVE  Slot(pos[u]) # own /\ seq'[Slot(pos[u])] = seq[Slot(pos[u])]
  <2>1. Slot(pos[u]) # own
    BY <1>1, <1>6, OwnersApart
  <2> QED BY <1>2, <1>3, <2>1
<1> HIDE DEF own
<1>7. \A u \in Threads :
        /\ Writing(u)' <=> (Writing(u) /\ u # t)
        /\ Reading(u)' <=> (Reading(u) /\ u # t)
  BY <1>1 DEF Writing, Reading
<1>8. NeverOverfull'
  BY <1>0, <1>1 DEF NeverOverfull
<1>9. ClaimedSeq'
  <2> SUFFICES ASSUME NEW p \in Nat, head <= p, p < tail
               PROVE  \/ seq'[Slot(p)] = p + 1
                      \/ /\ seq'[Slot(p)] = p
                         /\ \E u \in Threads : Writing(u)' /\ pos[u] = p
    BY <1>1 DEF ClaimedSeq, Writing
  <2>1. seq'[Slot(p)] = seq[Slot(p)]
    BY <1>0, <1>4, <1>5
  <2>2. \A u \in Threads : (Writing(u) /\ pos[u] = p) => Writing(u)'
    BY <1>1, <1>7
  <2> QED BY <2>1, <2>2 DEF IndInv, ClaimedSeq, Writing
<1>10. FreeSeq'
  <2> SUFFICES ASSUME NEW p \in Nat, tail <= p, p < head + Cap
               PROVE  \/ seq'[Slot(p)] = p
                      \/ /\ seq'[Slot(p)] + Cap = p + 1
                         /\ \E u \in Threads : Reading(u)' /\ pos[u] + Cap = p
    BY <1>1 DEF FreeSeq, Reading
  <2>1. CASE p = pos[t] + Cap
    <3>1. Slot(p) = own
      BY <1>0, <2>1, SlotPeriodic DEF own
    <3> QED BY <1>3, <2>1, <3>1
  <2>2. CASE p # pos[t] + Cap
    <3>1. seq'[Slot(p)] = seq[Slot(p)]
      BY <1>0, <1>4, <1>5, <2>2
    <3>2. \A u \in Threads : (Reading(u) /\ pos[u] + Cap = p) => Reading(u)'
      BY <1>0, <1>1, <1>2, <1>7, <2>2
    <3> QED BY <3>1, <3>2 DEF IndInv, FreeSeq, Reading
  <2> QED BY <2>1, <2>2
<1>11. WriterPos'
  <2> SUFFICES ASSUME NEW u \in Threads, Writing(u)'
               PROVE  head <= pos[u] /\ pos[u] < tail /\ seq'[Slot(pos[u])] = pos[u]
    BY <1>1 DEF WriterPos, Writing
  <2>1. Writing(u) /\ u # t
    BY <1>7
  <2> QED BY <1>6, <2>1 DEF IndInv, WriterPos
<1>12. ReaderPos'
  <2> SUFFICES ASSUME NEW u \in Threads, Reading(u)'
               PROVE  /\ pos[u] < head
                      /\ tail <= pos[u] + Cap
                      /\ seq'[Slot(pos[u])] = pos[u] + 1
    BY <1>1 DEF ReaderPos, Reading
  <2>1. Reading(u) /\ u # t
    BY <1>7
  <2> QED BY <1>6, <2>1 DEF IndInv, ReaderPos
<1>13. OnePerPosition'
  BY <1>1, <1>7 DEF IndInv, OnePerPosition, Writing, Reading
<1>14. EnqLocal' /\ DeqLocal'
  <2>1. \A i \in Slots : seq[i] \in Nat
    BY DEF IndInv, TypeOK
  <2>2. seq[own] <= seq'[own]
    BY <1>0, <1>3, <1>4
  <2>3. \A i \in Slots : seq[i] <= seq'[i]
    BY <1>3, <2>1, <2>2
  <2>4. head <= head' /\ tail <= tail'
    BY <1>0, <1>1
  <2>5. pc'[t] \notin EnqPc \cup DeqPc \cup PeekPc \cup {"count"}
    BY <1>1 DEF EnqPc, DeqPc, PeekPc
  <2> QED BY <1>1, <2>3, <2>4, <2>5, LocalsKept
<1> QED
  BY <1>8, <1>9, <1>10, <1>11, <1>12, <1>13, <1>14 DEF IndInv

-----------------------------------------------------------------------------
(***************************************************************************)
(* The remaining steps touch the thread's own copies only. What the thread *)
(* must know of its new copy is the last four hypotheses.                 *)
(***************************************************************************)
LEMMA CopyStep ==
    ASSUME IndInv, TypeOK', NEW t \in Threads,
           UNCHANGED <<head, tail, seq>>,
           \A u \in Threads : u # t => pc'[u] = pc[u] /\ pos'[u] = pos[u],
           Writing(t)' <=> Writing(t),
           Reading(t)' <=> Reading(t),
           (Writing(t) \/ Reading(t)) => pos'[t] = pos[t],
           pc'[t] \in {"enq_seq", "enq_reload", "enq_cas"} =>
               /\ pos'[t] <= tail
               /\ pos'[t] < tail => pos'[t] <= seq[Slot(pos'[t])]
               /\ pc'[t] = "enq_cas" => pos'[t] <= seq[Slot(pos'[t])],
           pc'[t] \in {"deq_seq", "deq_reload", "deq_cas"} =>
               /\ pos'[t] <= head
               /\ pos'[t] < head => pos'[t] + 1 <= seq[Slot(pos'[t])]
               /\ pc'[t] = "deq_cas" => pos'[t] + 1 <= seq[Slot(pos'[t])],
           pc'[t] = "count" => pos'[t] <= head,
           pc'[t] \in {"peek_seq", "peek_item"} =>
               /\ pos'[t] < head + Cap
               /\ pc'[t] = "peek_item" => pos'[t] + 1 <= seq[Slot(pos'[t])]
    PROVE  IndInv'
<1>1. Ownership'
  BY LocalStep
<1>2. EnqLocal'
  BY DEF IndInv, EnqLocal
<1>3. DeqLocal'
  BY DEF IndInv, DeqLocal, PeekPc
<1> QED BY <1>1, <1>2, <1>3 DEF IndInv, Ownership

LEMMA IndStep ==
    ASSUME Cap >= 2, IndInv, [Next]_vars PROVE IndInv'
<1>0. TypeOK' /\ TypeOK
  BY TypeStep DEF IndInv
<1>1. CASE UNCHANGED vars
  BY <1>1 DEF vars, IndInv, TypeOK, NeverOverfull, ClaimedSeq, FreeSeq, WriterPos,
              ReaderPos, OnePerPosition, EnqLocal, DeqLocal, Writing, Reading
<1>2. ASSUME NEW t \in Threads, Enqueue(t) PROVE IndInv'
  <2>0. tail \in Nat /\ pos[t] \in Nat /\ seq[Slot(pos[t])] \in Nat
    BY <1>0, SlotInRange DEF TypeOK
  <2>1. ASSUME NEW x \in Items, EnqStart(t, x) PROVE IndInv'
    <3>1. /\ UNCHANGED <<head, tail, seq>> /\ pc[t] = "idle" /\ pc'[t] = "enq_seq"
          /\ pos'[t] = tail
          /\ \A u \in Threads : u # t => pc'[u] = pc[u] /\ pos'[u] = pos[u]
      BY <1>0, <2>1 DEF EnqStart, Goto, TypeOK
    <3> QED BY <1>0, <2>0, <3>1, CopyStep DEF Writing, Reading
  <2>2. CASE EnqLoadSeq(t)
    <3>1. /\ UNCHANGED <<head, tail, seq, pos>> /\ pc[t] = "enq_seq"
          /\ pc'[t] \in {"enq_cas", "idle", "enq_reload"}
          /\ pc'[t] = "enq_cas" => seq[Slot(pos[t])] = pos[t]
          /\ \A u \in Threads : u # t => pc'[u] = pc[u]
      BY <1>0, <2>0, <2>2 DEF EnqLoadSeq, Goto, TypeOK
    <3>2. pos[t] <= tail /\ (pos[t] < tail => pos[t] <= seq[Slot(pos[t])])
      BY <3>1 DEF IndInv, EnqLocal
    <3>3. pc'[t] = "enq_cas" => pos[t] <= seq[Slot(pos[t])]
      BY <2>0, <3>1
    <3> QED BY <1>0, <3>1, <3>2, <3>3, CopyStep DEF Writing, Reading
  <2>3. CASE EnqReload(t) \/ EnqCasFail(t)
    <3>1. /\ UNCHANGED <<head, tail, seq>> /\ pc[t] \in {"enq_reload", "enq_cas"}
          /\ pc'[t] = "enq_seq" /\ pos'[t] = tail
          /\ \A u \in Threads : u # t => pc'[u] = pc[u] /\ pos'[u] = pos[u]
      BY <1>0, <2>3 DEF EnqReload, EnqCasFail, Goto, TypeOK
    <3> QED BY <1>0, <2>0, <3>1, CopyStep DEF Writing, Reading
  <2>4. CASE EnqClaim(t)
    BY <1>0, <2>4, EnqClaimStep
  <2>5. CASE EnqItem(t)
    <3>1. /\ UNCHANGED <<head, tail, seq, pos>> /\ pc[t] = "enq_item"
          /\ pc'[t] = "enq_publish"
          /\ \A u \in Threads : u # t => pc'[u] = pc[u]
      BY <1>0, <2>5 DEF EnqItem, Goto, TypeOK
    <3> QED BY <1>0, <3>1, CopyStep DEF Writing, Reading
  <2>6. CASE EnqPublish(t)
    BY <1>0, <2>6, EnqPublishStep
  <2> QED BY <1>2, <2>1, <2>2, <2>3, <2>4, <2>5, <2>6 DEF Enqueue
<1>3. ASSUME NEW t \in Threads, Dequeue(t) PROVE IndInv'
  <2>0. head \in Nat /\ pos[t] \in Nat /\ seq[Slot(pos[t])] \in Nat
    BY <1>0, SlotInRange DEF TypeOK
  <2>1. CASE DeqStart(t) \/ DeqReload(t) \/ DeqCasFail(t)
    <3>1. /\ UNCHANGED <<head, tail, seq>>
          /\ pc[t] \in {"idle", "deq_reload", "deq_cas"}
          /\ pc'[t] = "deq_seq" /\ pos'[t] = head
          /\ \A u \in Threads : u # t => pc'[u] = pc[u] /\ pos'[u] = pos[u]
      BY <1>0, <2>1 DEF DeqStart, DeqReload, DeqCasFail, Goto, TypeOK
    <3> QED BY <1>0, <2>0, <3>1, CopyStep DEF Writing, Reading
  <2>2. CASE DeqLoadSeq(t)
    <3>1. /\ UNCHANGED <<head, tail, seq, pos>> /\ pc[t] = "deq_seq"
          /\ pc'[t] \in {"deq_cas", "idle", "deq_reload"}
          /\ pc'[t] = "deq_cas" => seq[Slot(pos[t])] = pos[t] + 1
          /\ \A u \in Threads : u # t => pc'[u] = pc[u]
      BY <1>0, <2>0, <2>2 DEF DeqLoadSeq, Goto, TypeOK
    <3>2. pos[t] <= head /\ (pos[t] < head => pos[t] + 1 <= seq[Slot(pos[t])])
      BY <3>1 DEF IndInv, DeqLocal
    <3>3. pc'[t] = "deq_cas" => pos[t] + 1 <= seq[Slot(pos[t])]
      BY <2>0, <3>1
    <3> QED BY <1>0, <3>1, <3>2, <3>3, CopyStep DEF Writing, Reading
  <2>3. CASE DeqClaim(t)
    BY <1>0, <2>3, DeqClaimStep
  <2>4. CASE DeqItem(t)
    <3>1. /\ UNCHANGED <<head, tail, seq, pos>> /\ pc[t] = "deq_item"
          /\ pc'[t] = "deq_release"
          /\ \A u \in Threads : u # t => pc'[u] = pc[u]
      BY <1>0, <2>4 DEF DeqItem, Goto, TypeOK
    <3> QED BY <1>0, <3>1, CopyStep DEF Writing, Reading
  <2>5. CASE DeqRelease(t)
    BY <1>0, <2>5, DeqReleaseStep
  <2> QED BY <1>3, <2>1, <2>2, <2>3, <2>4, <2>5 DEF Dequeue
<1>4. ASSUME NEW t \in Threads, Observe(t) PROVE IndInv'
  <2>1. CASE CountLoadHead(t)
    <3>1. /\ UNCHANGED <<head, tail, seq>> /\ pc[t] = "idle" /\ pc'[t] = "count"
          /\ pos'[t] = head /\ head <= head
          /\ \A u \in Threads : u # t => pc'[u] = pc[u] /\ pos'[u] = pos[u]
      BY <1>0, <2>1 DEF CountLoadHead, Goto, TypeOK
    <3> QED BY <1>0, <3>1, CopyStep DEF Writing, Reading
  <2>2. CASE CountLoadTail(t) \/ PeekLoadSeq(t) \/ PeekItem(t)
    <3>1. /\ UNCHANGED <<head, tail, seq, pos>>
          /\ pc[t] \in {"count", "peek_seq", "peek_item"}
          /\ pc'[t] \in {"idle", "peek_item"}
          /\ pc'[t] = "peek_item" =>
                pc[t] = "peek_seq" /\ seq[Slot(pos[t])] = pos[t] + 1
          /\ \A u \in Threads : u # t => pc'[u] = pc[u]
      BY <1>0, <2>2 DEF CountLoadTail, PeekLoadSeq, PeekItem, Goto, TypeOK
    <3>2. pc'[t] = "peek_item" =>
              pos[t] < head + Cap /\ pos[t] + 1 <= seq[Slot(pos[t])]
      BY <1>0, <3>1, SlotInRange DEF IndInv, DeqLocal, PeekPc, TypeOK
    <3> QED BY <1>0, <3>1, <3>2, CopyStep DEF Writing, Reading
  <2>3. ASSUME NEW idx \in Slots, PeekLoadHead(t, idx) PROVE IndInv'
    <3>1. /\ UNCHANGED <<head, tail, seq>> /\ pc[t] = "idle" /\ pc'[t] = "peek_seq"
          /\ pos'[t] = head + idx
          /\ \A u \in Threads : u # t => pc'[u] = pc[u] /\ pos'[u] = pos[u]
      BY <1>0, <2>3 DEF PeekLoadHead, Goto, TypeOK
    <3>2. pos'[t] < head + Cap
      BY <1>0, <3>1, CapAssumption DEF Slots, TypeOK
    <3> QED BY <1>0, <3>1, <3>2, CopyStep DEF Writing, Reading
  <2> QED BY <1>4, <2>1, <2>2, <2>3 DEF Observe
<1> QED BY <1>1, <1>2, <1>3, <1>4 DEF Next

-----------------------------------------------------------------------------
(* IndInv holds in every reachable state of a ring of two slots or more. *)
LEMMA Inductive == ASSUME Cap >= 2 PROVE Spec => []IndInv
<1>1. Init => IndInv
  BY InitEstablishes
<1>2. IndInv /\ [Next]_vars => IndInv'
  BY IndStep
<1> QED BY <1>1, <1>2, PTL DEF Spec

(* Every load, store and exchange keeps the ring's state well typed. *)
THEOREM TypeCorrect == Spec => []TypeOK
<1>1. Init => TypeOK
  BY InitEstablishes DEF IndInv
<1>2. TypeOK /\ [Next]_vars => TypeOK'
  BY TypeStep
<1> QED BY <1>1, <1>2, PTL DEF Spec

(***************************************************************************)
(* slot->item is never accessed by two calls at once, whatever the number  *)
(* of producers and consumers.                                             *)
(***************************************************************************)
THEOREM OwnershipSafe == ASSUME Cap >= 2 PROVE Spec => []SlotOwnership
<1>1. IndInv => SlotOwnership
  BY OwnersApart DEF SlotOwnership
<1> QED BY <1>1, Inductive, PTL

(* The ring never holds more than Cap entries and never loses one. *)
THEOREM OverfullSafe == ASSUME Cap >= 2 PROVE Spec => []NeverOverfull
<1>1. IndInv => NeverOverfull
  BY DEF IndInv
<1> QED BY <1>1, Inductive, PTL

(***************************************************************************)
(* A thread that is the one changing its pc from "deq_seq" or "enq_seq" to *)
(* "idle" has just seen a smaller sequence number than it needs.           *)
(***************************************************************************)
LEMMA FailedCall ==
    ASSUME TypeOK, Next, NEW t \in Threads, pc'[t] = "idle"
    PROVE  /\ pc[t] = "deq_seq" => seq[Slot(pos[t])] < pos[t] + 1
           /\ pc[t] = "enq_seq" => seq[Slot(pos[t])] < pos[t]
<1> USE DEF TypeOK, Goto
<1>1. PICK u \in Threads : Enqueue(u) \/ Dequeue(u) \/ Observe(u)
  BY DEF Next
<1>2. CASE t # u
  BY <1>1, <1>2 DEF Enqueue, Dequeue, Observe, EnqStart, EnqLoadSeq, EnqReload,
     EnqClaim, EnqCasFail, EnqItem, EnqPublish, DeqStart, DeqLoadSeq, DeqReload,
     DeqClaim, DeqCasFail, DeqItem, DeqRelease, CountLoadHead, CountLoadTail,
     PeekLoadHead, PeekLoadSeq, PeekItem
<1>3. CASE t = u
  BY <1>1, <1>3 DEF Enqueue, Dequeue, Observe, EnqStart, EnqLoadSeq, EnqReload,
     EnqClaim, EnqCasFail, EnqItem, EnqPublish, DeqStart, DeqLoadSeq, DeqReload,
     DeqClaim, DeqCasFail, DeqItem, DeqRelease, CountLoadHead, CountLoadTail,
     PeekLoadHead, PeekLoadSeq, PeekItem
<1> QED BY <1>2, <1>3

(***************************************************************************)
(* The answers empty, full and 0 are true when they are given.             *)
(***************************************************************************)
THEOREM ReturnsSafe == ASSUME Cap >= 2 PROVE Spec => ReturnsAreHonest
<1>1. ASSUME IndInv, Next PROVE EmptyReturn
  <2> SUFFICES ASSUME NEW t \in Threads,
                      pc[t] = "deq_seq", pc'[t] = "idle"
               PROVE  \/ head = tail
                      \/ \E u \in Threads : Writing(u) /\ pos[u] = head
    BY DEF EmptyReturn
  <2>0. /\ head \in Nat /\ tail \in Nat /\ pos[t] \in Nat /\ head <= tail
        /\ seq[Slot(pos[t])] \in Nat
    BY <1>1, SlotInRange DEF IndInv, TypeOK, NeverOverfull
  <2>1. seq[Slot(pos[t])] < pos[t] + 1
    BY FailedCall, <1>1 DEF IndInv
  <2>2. pos[t] <= head /\ (pos[t] < head => pos[t] + 1 <= seq[Slot(pos[t])])
    BY <1>1 DEF IndInv, DeqLocal
  <2>3. pos[t] = head
    BY <2>0, <2>1, <2>2
  <2>4. CASE head < tail
    <3>1. seq[Slot(head)] # head + 1
      BY <2>0, <2>1, <2>3
    <3> QED BY <2>0, <2>4, <3>1, <1>1 DEF IndInv, ClaimedSeq
  <2> QED BY <2>0, <2>4
<1>2. ASSUME IndInv, Next PROVE FullReturn
  <2> SUFFICES ASSUME NEW t \in Threads,
                      pc[t] = "enq_seq", pc'[t] = "idle"
               PROVE  \/ tail = head + Cap
                      \/ \E u \in Threads : Reading(u) /\ pos[u] + Cap = tail
    BY DEF FullReturn
  <2>0. /\ Cap \in Nat /\ head \in Nat /\ tail \in Nat /\ pos[t] \in Nat
        /\ tail <= head + Cap /\ seq[Slot(pos[t])] \in Nat
    BY <1>2, CapAssumption, SlotInRange DEF IndInv, TypeOK, NeverOverfull
  <2>1. seq[Slot(pos[t])] < pos[t]
    BY FailedCall, <1>2 DEF IndInv
  <2>2. pos[t] <= tail /\ (pos[t] < tail => pos[t] <= seq[Slot(pos[t])])
    BY <1>2 DEF IndInv, EnqLocal
  <2>3. pos[t] = tail
    BY <2>0, <2>1, <2>2
  <2>4. CASE tail < head + Cap
    <3>1. seq[Slot(tail)] # tail /\ tail <= tail
      BY <2>0, <2>1, <2>3
    <3> QED BY <2>0, <2>4, <3>1, <1>2 DEF IndInv, FreeSeq
  <2> QED BY <2>0, <2>4
<1>3. ASSUME IndInv, Next PROVE ZeroReturn
  <2> SUFFICES ASSUME NEW t \in Threads, pc[t] = "count",
                      Counted(pos[t], tail) = 0
               PROVE  head = tail
    BY DEF ZeroReturn
  <2>1. head \in Nat /\ tail \in Nat /\ pos[t] \in Nat /\ head <= tail
    BY <1>3 DEF IndInv, TypeOK, NeverOverfull
  <2>2. pos[t] <= head
    BY <1>3 DEF IndInv, DeqLocal
  <2>3. ~(tail > pos[t])
    BY <2>1 DEF Counted
  <2> QED BY <2>1, <2>2, <2>3
<1>4. IndInv /\ [Next]_vars => [EmptyReturn /\ FullReturn /\ ZeroReturn]_vars
  BY <1>1, <1>2, <1>3
<1> QED BY <1>4, Inductive, PTL DEF Spec, ReturnsAreHonest

(***************************************************************************)
(* What peek_at reads is published, unless a consumer has taken it.        *)
(***************************************************************************)
THEOREM PeekSafe == ASSUME Cap >= 2 PROVE Spec => []PeekSeesQueued
<1>1. IndInv => PeekSeesQueued
  <2> SUFFICES ASSUME IndInv, NEW t \in Threads, pc[t] = "peek_item", pos[t] >= head
               PROVE  pos[t] < tail /\ seq[Slot(pos[t])] = pos[t] + 1
    BY DEF PeekSeesQueued
  <2>1. /\ head \in Nat /\ tail \in Nat /\ pos[t] \in Nat /\ Cap \in Nat
        /\ seq[Slot(pos[t])] \in Nat
    BY SlotInRange, CapAssumption DEF IndInv, TypeOK
  <2>2. pos[t] < head + Cap /\ pos[t] + 1 <= seq[Slot(pos[t])]
    BY DEF IndInv, DeqLocal, PeekPc
  <2>3. pos[t] < tail
    <3> SUFFICES ASSUME tail <= pos[t] PROVE FALSE
      BY <2>1
    <3>1. \/ seq[Slot(pos[t])] = pos[t]
          \/ seq[Slot(pos[t])] + Cap = pos[t] + 1
      BY <2>1, <2>2 DEF IndInv, FreeSeq
    <3> QED BY <2>1, <2>2, <3>1
  <2>4. seq[Slot(pos[t])] = pos[t] + 1 \/ seq[Slot(pos[t])] = pos[t]
    BY <2>1, <2>3 DEF IndInv, ClaimedSeq
  <2> QED BY <2>1, <2>2, <2>3, <2>4
<1> QED BY <1>1, Inductive, PTL
=============================================================================
