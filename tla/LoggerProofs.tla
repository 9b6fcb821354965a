---------------------------- MODULE LoggerProofs ----------------------------
(***************************************************************************)
(* That the records of the logger are never shared and always find room in *)
(* the ring, for any number of logging threads and any capacity.           *)
(***************************************************************************)
EXTENDS Logger, FiniteSetTheorems, TLAPS

Entry == Records \cup {LSent}

LogType == [pc : {"idle", "release", "put", "fill", "token", "check", "sync", "synced"},
            rec : Records \cup {NoRec}]

PoolTypes ==
    /\ lring \in Seq(Entry) /\ lbatch \in Seq(Entry) /\ lfree \in Seq(Records)
    /\ lg \in [Loggers -> LogType]
    /\ \A t \in Loggers : lg[t].pc \in {"release", "put"} => lg[t].rec \in Records
    /\ dpc = "recycle" => lbatch # <<>> /\ Head(lbatch) # LSent

\* No sentinel is about before it has been sent.
Stopping == spc \in {"up", "send"} => LSent \notin Range(lring) \cup Range(lbatch)

\* Nothing, not even the sentinel, is twice in s, or in s and in r.
Unique(s) == \A i, j \in 1..Len(s) : s[i] = s[j] => i = j
Parted(s, r) == Range(s) \cap Range(r) = {}

Placed(r) == r \in Range(lfree) \cup Range(lring) \cup Range(lbatch)

OneOwner ==
    /\ Unique(lfree) /\ Unique(lring) /\ Unique(lbatch)
    /\ Parted(lfree, lring) /\ Parted(lfree, lbatch) /\ Parted(lring, lbatch)
    /\ \A t \in Loggers : lg[t].pc \in {"release", "put"} => ~Placed(lg[t].rec)
    /\ \A t, u \in Loggers : t # u /\ {lg[t].pc, lg[u].pc} \subseteq {"release", "put"} =>
           lg[t].rec # lg[u].rec

PoolInv == PoolTypes /\ Stopping /\ OneOwner

-----------------------------------------------------------------------------
(* Sequences in which nothing is found twice. *)

\* Neither the sentinel nor "no record" is a record of the pool.
LEMMA RecordsPlain == LSent \notin Records /\ NoRec \notin Records
BY LSentAssumption, LCapAssumption DEF Records, NoRec

\* What is left after a dequeue, and what has been dequeued.
LEMMA RangeTail ==
    ASSUME NEW S, NEW s \in Seq(S), s # <<>>
    PROVE  /\ Range(s) = Range(Tail(s)) \cup {Head(s)}
           /\ Head(s) \in S /\ Tail(s) \in Seq(S)
<1>1. Len(s) \in Nat \ {0} /\ Tail(s) \in Seq(S) /\ Len(Tail(s)) = Len(s) - 1
    OBVIOUS
<1>2. \A i \in 1..Len(Tail(s)) : Tail(s)[i] = s[i + 1]
    OBVIOUS
<1>3. DOMAIN s = 1..Len(s) /\ DOMAIN Tail(s) = 1..(Len(s) - 1)
    BY <1>1
<1>4. ASSUME NEW x \in Range(s) PROVE x \in Range(Tail(s)) \cup {Head(s)}
    <2>1. PICK i \in 1..Len(s) : x = s[i]
        BY <1>3 DEF Range
    <2>2. CASE i = 1
        BY <2>1, <2>2
    <2>3. CASE i # 1
        <3>1. i - 1 \in DOMAIN Tail(s) /\ Tail(s)[i - 1] = s[i]
            BY <1>1, <1>2, <1>3, <2>3
        <3> QED BY <2>1, <3>1, Zenon DEF Range
    <2> QED BY <2>2, <2>3
<1>5. ASSUME NEW x \in Range(Tail(s)) PROVE x \in Range(s)
    <2>1. PICK i \in 1..(Len(s) - 1) : x = Tail(s)[i]
        BY <1>3 DEF Range
    <2>2. i + 1 \in DOMAIN s /\ x = s[i + 1]
        BY <1>1, <1>2, <1>3, <2>1
    <2> QED BY <2>2 DEF Range
<1>6. Head(s) \in Range(s) /\ Head(s) \in S
    <2>1. 1 \in DOMAIN s /\ Head(s) = s[1] /\ s[1] \in S
        BY <1>1, <1>3
    <2> QED BY <2>1 DEF Range
<1> QED BY <1>1, <1>4, <1>5, <1>6

\* What is there after an enqueue.
LEMMA RangeAppend ==
    ASSUME NEW S, NEW s \in Seq(S), NEW x \in S
    PROVE  Range(Append(s, x)) = Range(s) \cup {x} /\ Append(s, x) \in Seq(S)
<1>1. /\ Len(s) \in Nat /\ DOMAIN s = 1..Len(s) /\ DOMAIN Append(s, x) = 1..(Len(s) + 1)
      /\ \A i \in 1..Len(s) : Append(s, x)[i] = s[i]
      /\ Append(s, x)[Len(s) + 1] = x
      /\ Append(s, x) \in Seq(S)
    OBVIOUS
<1>2. ASSUME NEW y \in Range(Append(s, x)) PROVE y \in Range(s) \cup {x}
    <2>1. PICK i \in 1..(Len(s) + 1) : y = Append(s, x)[i]
        BY <1>1 DEF Range
    <2>2. (i \in DOMAIN s /\ y = s[i]) \/ y = x
        BY <1>1, <2>1
    <2> QED BY <2>2 DEF Range
<1>3. ASSUME NEW y \in Range(s) PROVE y \in Range(Append(s, x))
    <2>1. PICK i \in 1..Len(s) : y = s[i]
        BY <1>1 DEF Range
    <2>2. i \in DOMAIN Append(s, x) /\ y = Append(s, x)[i]
        BY <1>1, <2>1
    <2> QED BY <2>2 DEF Range
<1>4. x \in Range(Append(s, x))
    <2>1. Len(s) + 1 \in DOMAIN Append(s, x)
        BY <1>1
    <2> QED BY <1>1, <2>1 DEF Range
<1> QED BY <1>1, <1>2, <1>3, <1>4

\* A record that has been dequeued is not in the queue any more.
LEMMA UniqueTail ==
    ASSUME NEW S, NEW s \in Seq(S), s # <<>>, Unique(s)
    PROVE  Unique(Tail(s)) /\ Head(s) \notin Range(Tail(s))
<1>1. /\ Len(s) \in Nat \ {0} /\ Len(Tail(s)) = Len(s) - 1
      /\ DOMAIN Tail(s) = 1..(Len(s) - 1) /\ Head(s) = s[1]
      /\ \A i \in 1..(Len(s) - 1) : Tail(s)[i] = s[i + 1]
    OBVIOUS
<1>2. Unique(Tail(s))
    <2> SUFFICES ASSUME NEW i \in 1..Len(Tail(s)), NEW j \in 1..Len(Tail(s)),
                        Tail(s)[i] = Tail(s)[j]
                 PROVE  i = j
        BY DEF Unique
    <2>1. /\ i + 1 \in 1..Len(s) /\ j + 1 \in 1..Len(s)
          /\ Tail(s)[i] = s[i + 1] /\ Tail(s)[j] = s[j + 1]
        BY <1>1
    <2>2. i + 1 = j + 1
        BY <2>1 DEF Unique
    <2> QED BY <1>1, <2>2
<1>3. ASSUME Head(s) \in Range(Tail(s)) PROVE FALSE
    <2>1. PICK i \in 1..(Len(s) - 1) : Head(s) = Tail(s)[i]
        BY <1>1, <1>3 DEF Range
    <2>2. i + 1 \in 1..Len(s) /\ 1 \in 1..Len(s) /\ i + 1 # 1 /\ s[1] = s[i + 1]
        BY <1>1, <2>1
    <2> QED BY <2>2 DEF Unique
<1> QED BY <1>2, <1>3

\* A record that was not in the queue is there once after its enqueue.
LEMMA UniqueAppend ==
    ASSUME NEW S, NEW s \in Seq(S), NEW x \in S, Unique(s), x \notin Range(s)
    PROVE  Unique(Append(s, x))
<1>1. /\ Len(s) \in Nat /\ DOMAIN s = 1..Len(s) /\ Len(Append(s, x)) = Len(s) + 1
      /\ \A i \in 1..Len(s) : Append(s, x)[i] = s[i]
      /\ Append(s, x)[Len(s) + 1] = x
    OBVIOUS
<1>2. \A i \in 1..Len(s) : s[i] \in Range(s)
    BY <1>1 DEF Range
<1> SUFFICES ASSUME NEW i \in 1..(Len(s) + 1), NEW j \in 1..(Len(s) + 1),
                    Append(s, x)[i] = Append(s, x)[j]
             PROVE  i = j
    BY <1>1 DEF Unique
<1>3. CASE i \in 1..Len(s) /\ j \in 1..Len(s)
    BY <1>1, <1>3 DEF Unique
<1>4. CASE i = Len(s) + 1 \/ j = Len(s) + 1
    BY <1>1, <1>2, <1>4
<1> QED BY <1>1, <1>3, <1>4

-----------------------------------------------------------------------------
(* The invariant. *)

\* The positions of a queue of n entries are n.
LEMMA Positions ==
    ASSUME NEW n \in Nat
    PROVE  IsFiniteSet(1..n) /\ Cardinality(1..n) = n
<1>1. IsFiniteSet(1..n) /\ Cardinality(1..n) = IF 1 > n THEN 0 ELSE n - 1 + 1
    BY FS_Interval
<1>2. (IF 1 > n THEN 0 ELSE n - 1 + 1) = n
    OBVIOUS
<1> QED BY <1>1, <1>2

\* The entries of ring and batch are different, and one of the LCap things
\* that can be queued is not among them: the sentinel before it is sent, or
\* the record in a thread's hands.
LEMMA Room ==
    ASSUME PoolInv, spc = "send" \/ \E t \in Loggers : lg[t].pc = "put"
    PROVE  Len(lring) + Len(lbatch) < LCap
<1> DEFINE m == Len(lring)
           n == Len(lring) + Len(lbatch)
           f == [i \in 1..n |-> IF i <= m THEN lring[i] ELSE lbatch[i - m]]
<1>1. m \in Nat /\ Len(lbatch) \in Nat /\ n \in Nat /\ LCap - 1 \in Nat
    BY LCapAssumption DEF PoolInv, PoolTypes
<1>2. PICK x \in Entry : x \notin Range(lring) \cup Range(lbatch)
    <2>1. CASE spc = "send"
        BY <2>1 DEF PoolInv, Stopping, Entry
    <2>2. CASE \E t \in Loggers : lg[t].pc = "put"
        BY <2>2 DEF PoolInv, PoolTypes, OneOwner, Placed, Entry
    <2> QED BY <2>1, <2>2
<1> DEFINE Others == Entry \ {x}
<1>4. DOMAIN lring = 1..m /\ DOMAIN lbatch = 1..Len(lbatch)
    BY DEF PoolInv, PoolTypes
<1>5. /\ \A i \in 1..m : lring[i] \in Range(lring) /\ lring[i] \in Others
      /\ \A i \in 1..Len(lbatch) : lbatch[i] \in Range(lbatch) /\ lbatch[i] \in Others
    <2>1. /\ \A i \in 1..m : lring[i] \in Range(lring)
          /\ \A i \in 1..Len(lbatch) : lbatch[i] \in Range(lbatch)
        BY <1>4 DEF Range
    <2>2. /\ \A i \in 1..m : lring[i] \in Entry
          /\ \A i \in 1..Len(lbatch) : lbatch[i] \in Entry
        BY <1>4 DEF PoolInv, PoolTypes
    <2> QED BY <1>2, <2>1, <2>2
<1>6. \A i \in 1..m, j \in 1..Len(lbatch) : lring[i] # lbatch[j]
    BY <1>5 DEF PoolInv, OneOwner, Parted
<1>7. /\ \A i, j \in 1..m : lring[i] = lring[j] => i = j
      /\ \A i, j \in 1..Len(lbatch) : lbatch[i] = lbatch[j] => i = j
    BY DEF PoolInv, OneOwner, Unique
<1> HIDE DEF Others
<1>8. \A i \in 1..n : i \in 1..m \/ (i > m /\ i - m \in 1..Len(lbatch))
    BY <1>1
<1>9. f \in [1..n -> Others]
    BY <1>1, <1>5, <1>8
<1>10. \A i, j \in 1..n : f[i] = f[j] => i = j
    <2> SUFFICES ASSUME NEW i \in 1..n, NEW j \in 1..n, f[i] = f[j] PROVE i = j
        OBVIOUS
    <2>1. CASE i <= m /\ j <= m
        BY <1>1, <1>7, <1>8, <2>1
    <2>2. CASE i > m /\ j > m
        <3>1. i - m \in 1..Len(lbatch) /\ j - m \in 1..Len(lbatch)
            BY <1>1, <1>8, <2>2
        <3>2. lbatch[i - m] = lbatch[j - m]
            BY <1>1, <2>2
        <3>3. i - m = j - m
            BY <1>7, <3>1, <3>2
        <3> QED BY <1>1, <3>3
    <2>3. CASE i <= m /\ j > m
        BY <1>1, <1>6, <1>8, <2>3
    <2>4. CASE i > m /\ j <= m
        BY <1>1, <1>6, <1>8, <2>4
    <2> QED BY <1>1, <2>1, <2>2, <2>3, <2>4
<1>11. f \in Injection(1..n, Others)
    BY <1>9, <1>10 DEF Injection, IsInjective
<1>12. IsFiniteSet(Others) /\ Cardinality(Others) = LCap - 1
    <2>1. IsFiniteSet(Records) /\ Cardinality(Records) = LCap - 1
        BY <1>1, Positions DEF Records
    <2>2. IsFiniteSet(Entry) /\ Cardinality(Entry) = LCap
        BY <2>1, FS_AddElement, LSentAssumption, LCapAssumption DEF Entry
    <2> QED BY <1>2, <2>2, FS_RemoveElement DEF Others
<1>13. Cardinality(1..n) <= LCap - 1
    BY <1>11, <1>12, FS_Injection
<1>14. Cardinality(1..n) = n
    BY <1>1, Positions
<1> QED BY <1>1, <1>13, <1>14, LCapAssumption

\* With its records apart and room for each of them the pool fits the ring.
LEMMA InvFits == PoolInv => PoolFits
<1> SUFFICES ASSUME PoolInv PROVE PoolFits
    OBVIOUS
<1>1. \A t \in Loggers : InHand(t) \cap (Range(lfree) \cup Range(lring) \cup Range(lbatch)) = {}
    BY DEF PoolInv, OneOwner, Placed, InHand
<1>2. \A t, u \in Loggers : t # u => InHand(t) \cap InHand(u) = {}
    BY DEF PoolInv, OneOwner, InHand
<1>3. /\ Once(lfree) /\ Once(lring) /\ Once(lbatch)
      /\ Apart(lfree, lring) /\ Apart(lfree, lbatch) /\ Apart(lring, lbatch)
    BY DEF PoolInv, OneOwner, Unique, Parted, Once, Apart
<1> QED BY <1>1, <1>2, <1>3, Room DEF PoolFits

\* po_logger_init.
LEMMA InitPool == LoggerInit => PoolInv
<1> SUFFICES ASSUME LoggerInit PROVE PoolInv
    OBVIOUS
<1>1. Range(lring) = {} /\ Range(lbatch) = {}
    BY DEF LoggerInit, Range
<1>2. lfree \in Seq(Records) /\ Len(lfree) = LCap - 1 /\ \A i \in 1..Len(lfree) : lfree[i] = i
    BY LCapAssumption DEF LoggerInit, Records
<1>3. PoolTypes
    BY <1>2 DEF LoggerInit, PoolTypes, LogIdle, LogType, Entry
<1>4. Stopping
    BY <1>1 DEF LoggerInit, Stopping, LogIdle
<1>5. Unique(lfree) /\ Unique(lring) /\ Unique(lbatch)
    BY <1>2 DEF LoggerInit, Unique
<1>6. OneOwner
    BY <1>1, <1>5 DEF LoggerInit, OneOwner, Parted, LogIdle
<1> QED BY <1>3, <1>4, <1>6 DEF PoolInv

-----------------------------------------------------------------------------
(* Steps of a logging thread. *)

\* A thread moves on, with the record it had in its hands or with none.
LEMMA ThreadMoves ==
    ASSUME PoolInv, NEW t \in Loggers, NEW r \in LogType,
           lg' = [lg EXCEPT ![t] = r],
           UNCHANGED <<lfree, lring, lbatch, dpc, spc>>,
           r.pc \in {"release", "put"} =>
               lg[t].pc \in {"release", "put"} /\ r.rec = lg[t].rec
    PROVE  PoolInv'
<1>1. \A u \in Loggers : lg'[u] = IF u = t THEN r ELSE lg[u]
    BY DEF PoolInv, PoolTypes
<1>2. PoolTypes'
    BY <1>1 DEF PoolInv, PoolTypes
<1>3. Stopping'
    BY DEF PoolInv, Stopping
<1>4. OneOwner'
    BY <1>1 DEF PoolInv, OneOwner, Unique, Parted, Placed
<1> QED BY <1>2, <1>3, <1>4 DEF PoolInv

\* A thread takes the first record of the free list.
LEMMA ThreadTakes ==
    ASSUME PoolInv, NEW t \in Loggers, NEW x,
           lg[t].pc \notin {"release", "put"}, TakeRecord(t, x),
           UNCHANGED <<lring, lbatch, dpc, spc>>
    PROVE  PoolInv'
<1> DEFINE h == Head(lfree)
<1>1. lfree \in Seq(Records) /\ lfree # <<>> /\ lfree' = Tail(lfree)
    BY DEF PoolInv, PoolTypes, TakeRecord
<1>2. Range(lfree) = Range(lfree') \cup {h} /\ h \in Records /\ lfree' \in Seq(Records)
    BY <1>1, RangeTail
<1>3. h # LSent
    BY <1>2, RecordsPlain
<1>4. Unique(lfree') /\ h \notin Range(lfree')
    BY <1>1, <1>3, UniqueTail DEF PoolInv, OneOwner
<1>5. \A u \in Loggers : lg'[u] = IF u = t THEN [pc |-> "release", rec |-> h] ELSE lg[u]
    BY DEF PoolInv, PoolTypes, TakeRecord
<1>6. h \notin Range(lring) \cup Range(lbatch)
    BY <1>2, <1>3 DEF PoolInv, OneOwner, Parted
<1>7. PoolTypes'
    <2>1. lg' \in [Loggers -> LogType]
        BY <1>2 DEF PoolInv, PoolTypes, TakeRecord, LogType
    <2> QED BY <1>2, <1>5, <2>1 DEF PoolInv, PoolTypes
<1>8. Stopping'
    BY DEF PoolInv, Stopping
<1>9. OneOwner'
    <2>1. (Unique(lring) /\ Unique(lbatch) /\ Parted(lring, lbatch))'
        BY DEF PoolInv, OneOwner, Unique, Parted
    <2>2. (Parted(lfree, lring) /\ Parted(lfree, lbatch))'
        BY <1>2 DEF PoolInv, OneOwner, Parted
    <2>3. \A u \in Loggers : lg'[u].pc \in {"release", "put"} => ~Placed(lg[u].rec)'
        BY <1>2, <1>4, <1>5, <1>6 DEF PoolInv, OneOwner, Placed
    <2>4. \A u \in Loggers : u # t /\ lg[u].pc \in {"release", "put"} => lg[u].rec # h
        BY <1>2 DEF PoolInv, OneOwner, Placed
    <2>5. \A u, v \in Loggers : u # v /\ {lg'[u].pc, lg'[v].pc} \subseteq {"release", "put"} =>
              lg'[u].rec # lg'[v].rec
        BY <1>5, <2>4 DEF PoolInv, OneOwner
    <2> QED BY <1>4, <2>1, <2>2, <2>3, <2>5 DEF OneOwner, Unique
<1> QED BY <1>7, <1>8, <1>9 DEF PoolInv

\* enqueue_record claims a place for the record.
LEMMA ThreadPuts ==
    ASSUME PoolInv, NEW t \in Loggers, LogPut(t)
    PROVE  PoolInv'
<1> DEFINE x == lg[t].rec
<1>1. /\ lg[t].pc = "put" /\ x \in Records /\ x \in Entry
      /\ lring \in Seq(Entry) /\ lring' = Append(lring, x)
    BY DEF PoolInv, PoolTypes, LogPut, Entry
<1>2. Range(lring') = Range(lring) \cup {x} /\ lring' \in Seq(Entry)
    BY <1>1, RangeAppend
<1>3. x # LSent /\ x \notin Range(lfree) \cup Range(lring) \cup Range(lbatch)
    BY <1>1, RecordsPlain DEF PoolInv, OneOwner, Placed
<1>4. Unique(lring')
    BY <1>1, <1>3, UniqueAppend DEF PoolInv, OneOwner
<1>5. \A u \in Loggers : lg'[u] = IF u = t THEN [pc |-> "fill", rec |-> x] ELSE lg[u]
    BY DEF PoolInv, PoolTypes, LogPut, LogType
<1>6. UNCHANGED <<lfree, lbatch, dpc, spc>>
    BY DEF LogPut, poolVars
<1>7. PoolTypes'
    <2>1. lg' \in [Loggers -> LogType]
        BY DEF PoolInv, PoolTypes, LogPut, LogType
    <2> QED BY <1>2, <1>5, <1>6, <2>1 DEF PoolInv, PoolTypes
<1>8. Stopping'
    BY <1>2, <1>3, <1>6 DEF PoolInv, Stopping
<1>9. OneOwner'
    <2>1. (Unique(lfree) /\ Unique(lbatch) /\ Parted(lfree, lbatch))'
        BY <1>6 DEF PoolInv, OneOwner, Unique, Parted
    <2>2. (Parted(lfree, lring) /\ Parted(lring, lbatch))'
        BY <1>2, <1>3, <1>6 DEF PoolInv, OneOwner, Parted
    <2>3. \A u \in Loggers : u # t /\ lg[u].pc \in {"release", "put"} => lg[u].rec # x
        BY <1>1 DEF PoolInv, OneOwner
    <2>4. \A u \in Loggers : lg'[u].pc \in {"release", "put"} => ~Placed(lg[u].rec)'
        BY <1>2, <1>5, <1>6, <2>3 DEF PoolInv, OneOwner, Placed
    <2>5. \A u, v \in Loggers : u # v /\ {lg'[u].pc, lg'[v].pc} \subseteq {"release", "put"} =>
              lg'[u].rec # lg'[v].rec
        BY <1>5 DEF PoolInv, OneOwner
    <2> QED BY <1>4, <2>1, <2>2, <2>4, <2>5 DEF OneOwner, Unique
<1> QED BY <1>7, <1>8, <1>9 DEF PoolInv

\* po_logger_logv, step by step.
LEMMA ThreadStep ==
    ASSUME PoolInv, NEW t \in Loggers, LogTake(t) \/ LogStep(t) \/ SyncStep(t)
    PROVE  PoolInv'
<1>1. lg[t] \in LogType
    BY DEF PoolInv, PoolTypes
<1>3. LogIdle \in LogType
    BY DEF LogIdle, LogType
<1>4. CASE LogTake(t)
    <2>1. CASE TakeRecord(t, <<t, logged[t] + 1>>)
        BY <1>4, <2>1, ThreadTakes DEF LogTake, ringVars
    <2>2. CASE ~TakeRecord(t, <<t, logged[t] + 1>>)
        <3> DEFINE r == [lg[t] EXCEPT !.pc = IF IsPowerOfTwo(Cardinality(dropped) + 1)
                                              THEN "sync" ELSE "idle"]
        <3>1. r \in LogType /\ r.pc \in {"sync", "idle"}
            BY <1>1 DEF LogType
        <3>2. lg' = [lg EXCEPT ![t] = r] /\ UNCHANGED <<lfree, lring, lbatch, dpc, spc>>
            BY <1>4, <2>2 DEF LogTake, ringVars, poolVars
        <3> HIDE DEF r
        <3> QED BY <3>1, <3>2, ThreadMoves, Zenon
    <2> QED BY <2>1, <2>2
<1>5. CASE LogRelease(t)
    <2> DEFINE r == [lg[t] EXCEPT !.pc = "put"]
    <2>1. r \in LogType /\ r.rec = lg[t].rec /\ lg[t].pc = "release"
        BY <1>1, <1>5 DEF LogType, LogRelease
    <2>2. lg' = [lg EXCEPT ![t] = r] /\ UNCHANGED <<lfree, lring, lbatch, dpc, spc>>
        BY <1>5 DEF LogRelease, ringVars
    <2> HIDE DEF r
    <2> QED BY <2>1, <2>2, ThreadMoves, Zenon
<1>6. CASE LogPut(t)
    BY <1>6, ThreadPuts
<1>7. CASE LogFill(t)
    <2> DEFINE r == IF content[lg[t].rec] = Notice THEN LogIdle ELSE [LogIdle EXCEPT !.pc = "token"]
    <2>1. r \in LogType /\ r.pc \in {"idle", "token"}
        BY <1>3 DEF LogType, LogIdle
    <2>2. lg' = [lg EXCEPT ![t] = r] /\ UNCHANGED <<lfree, lring, lbatch, dpc, spc>>
        BY <1>7 DEF LogFill, ringVars, poolVars
    <2> HIDE DEF r
    <2> QED BY <2>1, <2>2, ThreadMoves, Zenon
<1>8. CASE LogToken(t)
    <2> DEFINE r == [lg[t] EXCEPT !.pc = "check"]
    <2>1. r \in LogType /\ r.pc = "check"
        BY <1>1 DEF LogType
    <2>2. lg' = [lg EXCEPT ![t] = r] /\ UNCHANGED <<lfree, lring, lbatch, dpc, spc>>
        BY <1>8 DEF LogToken, poolVars
    <2> HIDE DEF r
    <2> QED BY <2>1, <2>2, ThreadMoves, Zenon
<1>9. CASE LogCheck(t)
    <2>1. CASE TakeRecord(t, Notice)
        BY <1>9, <2>1, ThreadTakes DEF LogCheck, ringVars
    <2>2. CASE ~TakeRecord(t, Notice)
        <3>1. PICK r \in {LogIdle, [lg[t] EXCEPT !.pc = "sync"]} :
                  lg' = [lg EXCEPT ![t] = r] /\ UNCHANGED <<lfree, lring, lbatch, dpc, spc>>
            BY <1>9, <2>2 DEF LogCheck, ringVars, poolVars
        <3>2. r \in LogType /\ r.pc \in {"idle", "sync"}
            BY <1>1, <1>3 DEF LogType, LogIdle
        <3> QED BY <3>1, <3>2, ThreadMoves, Zenon
    <2> QED BY <2>1, <2>2
<1>10. CASE LogSync(t)
    <2> DEFINE r == [lg[t] EXCEPT !.pc = "synced"]
    <2>1. r \in LogType /\ r.pc = "synced"
        BY <1>1 DEF LogType
    <2>2. lg' = [lg EXCEPT ![t] = r] /\ UNCHANGED <<lfree, lring, lbatch, dpc, spc>>
        BY <1>10 DEF LogSync, ringVars, poolVars
    <2> HIDE DEF r
    <2> QED BY <2>1, <2>2, ThreadMoves, Zenon
<1>11. CASE LogSynced(t)
    <2>1. lg' = [lg EXCEPT ![t] = LogIdle] /\ UNCHANGED <<lfree, lring, lbatch, dpc, spc>>
        BY <1>11 DEF LogSynced, ringVars, poolVars
    <2>2. LogIdle.pc = "idle"
        BY DEF LogIdle
    <2> QED BY <1>3, <2>1, <2>2, ThreadMoves, Zenon
<1> QED BY <1>4, <1>5, <1>6, <1>7, <1>8, <1>9, <1>10, <1>11 DEF LogStep, SyncStep

-----------------------------------------------------------------------------
(* Steps of the consumer. *)

\* It moves on and touches no record.
LEMMA ConsumerMoves ==
    ASSUME PoolInv, dpc' # "recycle" \/ (lbatch # <<>> /\ Head(lbatch) # LSent),
           UNCHANGED <<lfree, lring, lbatch, lg, spc>>
    PROVE  PoolInv'
BY Zenon DEF PoolInv, PoolTypes, Stopping, OneOwner, Unique, Parted, Placed

\* An entry moves from the ring to the batch. The batch may have been given up
\* before, after the final drain has looked at it.
LEMMA ConsumerDraws ==
    ASSUME PoolInv, lring # <<>>, lring' = Tail(lring), dpc' # "recycle",
           lbatch' = Append(lbatch, Head(lring)) \/ lbatch' = <<Head(lring)>>,
           UNCHANGED <<lfree, lg, spc>>
    PROVE  PoolInv'
<1> DEFINE h == Head(lring)
<1>1. lring \in Seq(Entry) /\ lbatch \in Seq(Entry) /\ <<>> \in Seq(Entry)
    BY DEF PoolInv, PoolTypes
<1>2. Range(lring) = Range(lring') \cup {h} /\ h \in Entry /\ lring' \in Seq(Entry)
    BY <1>1, RangeTail
<1>3. Unique(lring') /\ h \notin Range(lring')
    BY <1>1, UniqueTail DEF PoolInv, OneOwner
<1>4. PICK b \in {lbatch, <<>>} : lbatch' = Append(b, h)
    <2>1. <<h>> = Append(<<>>, h)
        OBVIOUS
    <2> QED BY <2>1
<1>5. b \in Seq(Entry) /\ Range(b) \subseteq Range(lbatch) /\ Unique(b)
    <2>1. Range(<<>>) = {} /\ Unique(<<>>)
        BY DEF Range, Unique
    <2> QED BY <1>1, <2>1, Zenon DEF PoolInv, OneOwner
<1>6. Range(lbatch') = Range(b) \cup {h} /\ lbatch' \in Seq(Entry)
    BY <1>2, <1>4, <1>5, RangeAppend
<1>7. h \notin Range(b)
    BY <1>2, <1>5 DEF PoolInv, OneOwner, Parted
<1>8. Unique(lbatch')
    BY <1>2, <1>4, <1>5, <1>7, UniqueAppend
<1>9. PoolTypes'
    BY <1>2, <1>6 DEF PoolInv, PoolTypes
<1>10. Stopping'
    BY <1>2, <1>5, <1>6 DEF PoolInv, Stopping
<1>11. OneOwner'
    <2>1. (Parted(lfree, lring) /\ Parted(lfree, lbatch) /\ Parted(lring, lbatch))'
        BY <1>2, <1>3, <1>5, <1>6 DEF PoolInv, OneOwner, Parted
    <2>2. \A t \in Loggers : lg'[t].pc \in {"release", "put"} => ~Placed(lg[t].rec)'
        BY <1>2, <1>5, <1>6 DEF PoolInv, OneOwner, Placed
    <2> QED BY <1>3, <1>8, <2>1, <2>2 DEF PoolInv, OneOwner, Unique
<1> QED BY <1>9, <1>10, <1>11 DEF PoolInv

\* The first entry of the batch is given back or given up.
LEMMA ConsumerReturns ==
    ASSUME PoolInv, lbatch # <<>>, lbatch' = Tail(lbatch), dpc' # "recycle",
           lfree' = lfree \/ (Head(lbatch) # LSent /\ lfree' = Append(lfree, Head(lbatch))),
           UNCHANGED <<lring, lg, spc>>
    PROVE  PoolInv'
<1> DEFINE h == Head(lbatch)
<1>1. lfree \in Seq(Records) /\ lbatch \in Seq(Entry)
    BY DEF PoolInv, PoolTypes
<1>2. Range(lbatch) = Range(lbatch') \cup {h} /\ h \in Entry /\ lbatch' \in Seq(Entry)
    BY <1>1, RangeTail
<1>3. Unique(lbatch') /\ h \notin Range(lbatch')
    BY <1>1, UniqueTail DEF PoolInv, OneOwner
<1>4. CASE lfree' = lfree
    <2>1. PoolTypes'
        BY <1>2, <1>4 DEF PoolInv, PoolTypes
    <2>2. Stopping'
        BY <1>2 DEF PoolInv, Stopping
    <2>3. OneOwner'
        BY <1>2, <1>3, <1>4 DEF PoolInv, OneOwner, Unique, Parted, Placed
    <2> QED BY <2>1, <2>2, <2>3 DEF PoolInv
<1>5. CASE h # LSent /\ lfree' = Append(lfree, h)
    <2>1. h \in Records
        BY <1>2, <1>5 DEF Entry
    <2>2. Range(lfree') = Range(lfree) \cup {h} /\ lfree' \in Seq(Records)
        BY <1>1, <1>5, <2>1, RangeAppend
    <2>3. h \notin Range(lfree) /\ h \notin Range(lring)
        BY <1>2, <1>5 DEF PoolInv, OneOwner, Parted
    <2>4. Unique(lfree')
        BY <1>1, <1>5, <2>1, <2>3, UniqueAppend DEF PoolInv, OneOwner
    <2>5. PoolTypes'
        BY <1>2, <2>2 DEF PoolInv, PoolTypes
    <2>6. Stopping'
        BY <1>2 DEF PoolInv, Stopping
    <2>7. (Parted(lfree, lring) /\ Parted(lfree, lbatch) /\ Parted(lring, lbatch))'
        BY <1>2, <1>3, <1>5, <2>2, <2>3 DEF PoolInv, OneOwner, Parted
    <2>8. \A t \in Loggers : lg'[t].pc \in {"release", "put"} => ~Placed(lg[t].rec)'
        BY <1>2, <2>2 DEF PoolInv, OneOwner, Placed
    <2>9. OneOwner'
        BY <1>3, <2>4, <2>7, <2>8 DEF PoolInv, OneOwner, Unique
    <2> QED BY <2>5, <2>6, <2>9 DEF PoolInv
<1> QED BY <1>4, <1>5

\* worker_main, step by step.
LEMMA ConsumerStep ==
    ASSUME PoolInv, DrainStep \/ WriteStep
    PROVE  PoolInv'
<1>1. CASE DrainLoop
    BY <1>1, ConsumerMoves DEF DrainLoop, ringVars, poolVars
<1>2. CASE DrainToken
    BY <1>2, ConsumerMoves DEF DrainToken, poolVars
<1>3. CASE DrainDraw
    BY <1>3, ConsumerDraws DEF DrainDraw, TakeEntry, RingLooksEmpty, poolVars
<1>4. CASE DrainDrawn
    BY <1>4, ConsumerMoves DEF DrainDrawn, ringVars, poolVars
<1>5. CASE DrainSkip
    <2>1. CASE lbatch = <<>>
        BY <1>5, <2>1, ConsumerMoves DEF DrainSkip, ringVars, poolVars
    <2>2. CASE lbatch # <<>>
        BY <1>5, <2>2, ConsumerReturns DEF DrainSkip, ringVars, poolVars
    <2> QED BY <2>1, <2>2
<1>6. CASE DrainFinal
    <2>1. CASE RingLooksEmpty
        BY <1>6, <2>1, ConsumerMoves DEF DrainFinal, TakeEntry, poolVars
    <2>2. CASE ~RingLooksEmpty
        BY <1>6, <2>2, ConsumerDraws DEF DrainFinal, TakeEntry, RingLooksEmpty, poolVars
    <2> QED BY <2>1, <2>2
<1>7. CASE DrainWrite
    BY <1>7, ConsumerMoves DEF DrainWrite, ringVars, poolVars
<1>8. CASE DrainRecycle
    <2>1. lbatch # <<>> /\ Head(lbatch) # LSent
        BY <1>8 DEF PoolInv, PoolTypes, DrainRecycle
    <2> QED BY <1>8, <2>1, ConsumerReturns DEF DrainRecycle, ringVars
<1> QED BY <1>1, <1>2, <1>3, <1>4, <1>5, <1>6, <1>7, <1>8 DEF DrainStep, WriteStep

-----------------------------------------------------------------------------
(* Shutdown, and all steps together. *)

\* po_logger_shutdown, step by step. Its sentinel is queued once.
LEMMA ShutdownKeeps ==
    ASSUME PoolInv, ShutdownStart \/ ShutdownStep
    PROVE  PoolInv'
<1>1. CASE ShutdownStart
    BY <1>1 DEF ShutdownStart, ringVars, poolVars, PoolInv, PoolTypes, Stopping, OneOwner, Unique,
                Parted, Placed
<1>2. CASE ShutdownSend
    <2>1. lring \in Seq(Entry) /\ LSent \in Entry
        BY DEF PoolInv, PoolTypes, Entry
    <2>2. Range(lring') = Range(lring) \cup {LSent} /\ lring' \in Seq(Entry)
        BY <1>2, <2>1, RangeAppend DEF ShutdownSend
    <2>3. LSent \notin Range(lring) /\ LSent \notin Range(lbatch) /\ LSent \notin Range(lfree)
        <3>1. Range(lfree) \subseteq Records
            BY DEF PoolInv, PoolTypes, Range
        <3> QED BY <1>2, <3>1, RecordsPlain DEF ShutdownSend, PoolInv, Stopping
    <2>4. Unique(lring')
        BY <1>2, <2>1, <2>3, UniqueAppend DEF ShutdownSend, PoolInv, OneOwner
    <2>5. PoolTypes'
        BY <1>2, <2>2 DEF ShutdownSend, poolVars, PoolInv, PoolTypes
    <2>6. Stopping'
        BY <1>2 DEF ShutdownSend, Stopping
    <2>7. (Parted(lfree, lring) /\ Parted(lfree, lbatch) /\ Parted(lring, lbatch))'
        BY <1>2, <2>2, <2>3 DEF ShutdownSend, poolVars, PoolInv, OneOwner, Parted
    <2>8. \A t \in Loggers : lg'[t].pc \in {"release", "put"} => ~Placed(lg[t].rec)'
        BY <1>2, <2>2, RecordsPlain DEF ShutdownSend, poolVars, PoolInv, PoolTypes, OneOwner, Placed
    <2>9. OneOwner'
        BY <1>2, <2>4, <2>7, <2>8 DEF ShutdownSend, poolVars, PoolInv, OneOwner, Unique
    <2> QED BY <2>5, <2>6, <2>9 DEF PoolInv
<1>3. CASE ShutdownFill \/ ShutdownToken \/ ShutdownJoin
    BY <1>3 DEF ShutdownFill, ShutdownToken, ShutdownJoin, ringVars, poolVars, PoolInv, PoolTypes,
                Stopping, OneOwner, Unique, Parted, Placed
<1> QED BY <1>1, <1>2, <1>3 DEF ShutdownStep

\* Every step of the logger keeps its records apart.
LEMMA StepPool == PoolInv /\ [LoggerNext]_logVars => PoolInv'
<1> SUFFICES ASSUME PoolInv, [LoggerNext]_logVars PROVE PoolInv'
    OBVIOUS
<1>1. CASE LoggerNext
    BY <1>1, ThreadStep, ConsumerStep, ShutdownKeeps DEF LoggerNext
<1>2. CASE UNCHANGED logVars
    BY <1>2 DEF logVars, PoolInv, PoolTypes, Stopping, OneOwner, Unique, Parted, Placed
<1> QED BY <1>1, <1>2

\* For any number of threads and any capacity, a record of the logger is never
\* in two places, and an enqueue into g_ring finds room: enqueue_record never
\* falls back on an overflow policy.
THEOREM PoolAlwaysFits == LoggerSpec => []PoolFits
<1>1. LoggerInit => PoolInv
    BY InitPool
<1>2. PoolInv => PoolFits
    BY InvFits
<1> QED BY <1>1, <1>2, StepPool, PTL DEF LoggerSpec
-----------------------------------------------------------------------------
(* The ring and its eventfd are a batcher's. *)

\* Every thread that claims a place has a record of its own in the ring; the
\* batch is empty when worker_main asks for one and never longer than it may.
Claims ==
    /\ \A t \in Loggers : lg[t].pc = "fill" => lg[t].rec \in Records /\ lg[t].rec \in Range(lring)
    /\ \A t, u \in Loggers : t # u /\ lg[t].pc = "fill" /\ lg[u].pc = "fill" =>
           lg[t].rec # lg[u].rec
    /\ spc = "fill" => LSent \in Range(lring)
    /\ dpc \in {"loop", "wait", "final"} => lbatch = <<>>
    /\ dpc = "draw" => Len(lbatch) <= LBatch

\* If each member of C has an entry of its own in s, and none has the first,
\* then s is longer than C is large.
LEMMA OneFree ==
    ASSUME NEW S, NEW s \in Seq(S), s # <<>>, NEW C, NEW g,
           \A c \in C : g[c] \in Range(s) /\ g[c] # Head(s),
           \A c, d \in C : g[c] = g[d] => c = d
    PROVE  Len(s) - Cardinality(C) > 0
<1> DEFINE n == Len(s) - 1
           At(c, i) == Tail(s)[i] = g[c]
           f == [c \in C |-> CHOOSE i \in 1..n : At(c, i)]
<1>1. /\ Len(s) \in Nat /\ n \in Nat /\ DOMAIN Tail(s) = 1..n
    OBVIOUS
<1>2. \A c \in C : \E i \in 1..n : At(c, i)
    <2>1. Range(s) = Range(Tail(s)) \cup {Head(s)}
        BY RangeTail
    <2> QED BY <1>1, <2>1, Zenon DEF Range
<1>3. \A c \in C : f[c] \in 1..n /\ At(c, f[c])
    BY <1>2, Zenon
<1> HIDE DEF n
<1>4. f \in [C -> 1..n]
    BY <1>3, Zenon
<1>5. ASSUME NEW c \in C, NEW d \in C, f[c] = f[d] PROVE c = d
    <2>1. Tail(s)[f[c]] = g[c] /\ Tail(s)[f[d]] = g[d]
        BY <1>3, Zenon
    <2>2. g[c] = g[d]
        BY <1>5, <2>1, Zenon
    <2> QED BY <2>2, Zenon
<1>6. f \in Injection(C, 1..n)
    BY <1>4, <1>5, Zenon DEF Injection, IsInjective
<1>7. IsFiniteSet(1..n) /\ Cardinality(1..n) = n
    BY <1>1, Positions
<1>8. IsFiniteSet(C) /\ Cardinality(C) <= n
    BY <1>6, <1>7, FS_Injection
<1>9. Cardinality(C) \in Nat
    BY <1>8, FS_CardinalityType
<1> QED BY <1>1, <1>8, <1>9 DEF n

\* What worker_main takes out is an entry that has been filled.
LEMMA SomeFilled ==
    ASSUME PoolInv, Claims, ~RingLooksEmpty
    PROVE  LFilled > 0
<1> DEFINE g == [c \in LClaiming |-> IF c = Stopper THEN LSent ELSE lg[c].rec]
<1>1. lring \in Seq(Entry) /\ lring # <<>>
    BY DEF PoolInv, PoolTypes, RingLooksEmpty
<1>2. \A c \in LClaiming : \/ c = Stopper /\ spc = "fill" /\ g[c] = LSent
                           \/ c \in Loggers /\ c # Stopper /\ lg[c].pc = "fill" /\ g[c] = lg[c].rec
    BY LSentAssumption DEF LClaiming
<1> HIDE DEF g
<1>3. \A c \in LClaiming : g[c] \in Range(lring) /\ g[c] # Head(lring)
    BY <1>2 DEF Claims, RingLooksEmpty
<1>4. \A c, d \in LClaiming : g[c] = g[d] => c = d
    <2> SUFFICES ASSUME NEW c \in LClaiming, NEW d \in LClaiming, g[c] = g[d] PROVE c = d
        OBVIOUS
    <2>1. c = Stopper \/ g[c] \in Records
        BY <1>2 DEF Claims
    <2>2. d = Stopper \/ g[d] \in Records
        BY <1>2 DEF Claims
    <2>3. CASE c = Stopper \/ d = Stopper
        BY <1>2, <2>1, <2>2, <2>3, LSentAssumption
    <2>4. CASE c # Stopper /\ d # Stopper
        BY <1>2, <2>4 DEF Claims
    <2> QED BY <2>3, <2>4
<1>5. Len(lring) - Cardinality(LClaiming) > 0
    BY <1>1, <1>3, <1>4, OneFree
<1> QED BY <1>5 DEF LFilled

\* Logger and Batcher count alike.
LEMMA SameFilled == LB!Filled = LFilled
BY DEF LB!Filled, LFilled, LB!Cardinality, Cardinality

\* A step of a thread that touches neither ring nor eventfd.
LEMMA ThreadElsewhere ==
    ASSUME PoolInv, Claims, NEW t \in Loggers, NEW r,
           lg' = [lg EXCEPT ![t] = r],
           lg[t].pc \notin {"fill", "token"}, r.pc \notin {"fill", "token"},
           UNCHANGED <<lring, lefd, lmissed, lbatch, dpc, spc>>
    PROVE  Claims' /\ UNCHANGED LB!batcherVars
<1>1. \A u \in Loggers : lg'[u] = IF u = t THEN r ELSE lg[u]
    BY DEF PoolInv, PoolTypes
<1>2. Claims'
    BY <1>1 DEF Claims
<1>3. LClaiming' = LClaiming /\ LSignalling' = LSignalling
    BY <1>1 DEF LClaiming, LSignalling
<1>4. LBudget' = LBudget
    BY DEF LBudget
<1> QED BY <1>2, <1>3, <1>4 DEF LB!batcherVars

\* A thread claims a place, fills it and writes the token.
LEMMA ThreadRefines ==
    ASSUME PoolInv, Claims, NEW t \in Loggers, LogTake(t) \/ LogStep(t) \/ SyncStep(t)
    PROVE  Claims' /\ [LB!BatcherNext]_(LB!batcherVars)
<1>0. t # Stopper /\ lg \in [Loggers -> LogType]
    BY LSentAssumption DEF PoolInv, PoolTypes
<1>1. CASE LogTake(t) \/ LogRelease(t) \/ LogCheck(t) \/ LogSync(t) \/ LogSynced(t)
    <2>1. /\ lg[t].pc \notin {"fill", "token"}
          /\ UNCHANGED <<lring, lefd, lmissed, lbatch, dpc, spc>>
        BY <1>1 DEF LogTake, LogRelease, LogCheck, LogSync, LogSynced, ringVars
    <2>2. PICK r : lg' = [lg EXCEPT ![t] = r] /\ r.pc \notin {"fill", "token"}
        <3>1. CASE LogTake(t)
            BY <1>0, <3>1 DEF LogTake, TakeRecord, LogType
        <3>2. CASE LogCheck(t)
            BY <1>0, <3>2 DEF LogCheck, TakeRecord, LogIdle, LogType
        <3>3. CASE LogRelease(t) \/ LogSync(t) \/ LogSynced(t)
            BY <1>0, <3>3 DEF LogRelease, LogSync, LogSynced, LogIdle, LogType
        <3> QED BY <1>1, <3>1, <3>2, <3>3
    <2> QED BY <2>1, <2>2, ThreadElsewhere, Zenon
<1>2. CASE LogPut(t)
    <2> DEFINE x == lg[t].rec
    <2>1. /\ lg[t].pc = "put" /\ Len(lring) < LCap /\ lring' = Append(lring, x)
          /\ x \in Records /\ x \in Entry /\ lring \in Seq(Entry) /\ x \notin Range(lring)
          /\ UNCHANGED <<lefd, lmissed, lbatch, dpc, spc>>
        BY <1>2 DEF LogPut, PoolInv, PoolTypes, OneOwner, Placed, Entry
    <2>2. \A u \in Loggers : lg'[u] = IF u = t THEN [pc |-> "fill", rec |-> x] ELSE lg[u]
        BY <1>0, <1>2 DEF LogPut, LogType
    <2>3. Range(lring') = Range(lring) \cup {x} /\ Len(lring') = Len(lring) + 1
        BY <2>1, RangeAppend
    <2>4. Claims'
        BY <2>1, <2>2, <2>3 DEF Claims
    <2>5. /\ LClaiming' = LClaiming \cup {t} /\ LSignalling' = LSignalling
          /\ t \notin LClaiming \cup LSignalling
        BY <1>0, <2>1, <2>2 DEF LClaiming, LSignalling
    <2>6. LBudget' = LBudget
        BY <2>1, Zenon DEF LBudget
    <2>7. LB!Claim(t)
        BY <2>1, <2>3, <2>5, <2>6 DEF LB!Claim
    <2> QED BY <2>4, <2>7, Zenon DEF LB!BatcherNext
<1>3. CASE LogFill(t)
    <2> DEFINE r == IF content[lg[t].rec] = Notice THEN LogIdle ELSE [LogIdle EXCEPT !.pc = "token"]
    <2>0. r.pc \in {"idle", "token"} /\ (r.pc = "idle" <=> content[lg[t].rec] = Notice)
        BY DEF LogIdle
    <2>1. /\ r.pc \in {"idle", "token"} /\ lg' = [lg EXCEPT ![t] = r]
          /\ lmissed' = IF r.pc = "idle" THEN lmissed + 1 ELSE lmissed
        BY <1>3, <2>0 DEF LogFill
    <2> HIDE DEF r
    <2>2. lg[t].pc = "fill" /\ UNCHANGED <<lring, lefd, lbatch, dpc, spc>>
        BY <1>3 DEF LogFill
    <2>3. \A u \in Loggers : lg'[u] = IF u = t THEN r ELSE lg[u]
        BY <1>0, <2>1
    <2>4. Claims'
        BY <2>1, <2>2, <2>3 DEF Claims
    <2>5. /\ LClaiming' = LClaiming \ {t} /\ t \in LClaiming
          /\ LSignalling' = IF r.pc = "idle" THEN LSignalling ELSE LSignalling \cup {t}
        BY <1>0, <2>1, <2>2, <2>3 DEF LClaiming, LSignalling
    <2>6. LBudget' = LBudget
        BY <2>2 DEF LBudget
    <2>7. LB!Fill(t) \/ LB!FillSilently(t)
        BY <2>1, <2>2, <2>5, <2>6 DEF LB!Fill, LB!FillSilently
    <2> QED BY <2>4, <2>7, Zenon DEF LB!BatcherNext
<1>4. CASE LogToken(t)
    <2>1. /\ lg[t].pc = "token" /\ lefd' = lefd + 1
          /\ UNCHANGED <<lring, lmissed, lbatch, dpc, spc>>
        BY <1>4 DEF LogToken
    <2>2. \A u \in Loggers : lg'[u].rec = lg[u].rec /\ lg'[u].pc = IF u = t THEN "check" ELSE lg[u].pc
        BY <1>0, <1>4 DEF LogToken, LogType
    <2>3. Claims'
        BY <2>1, <2>2 DEF Claims
    <2>4. /\ LSignalling' = LSignalling \ {t} /\ t \in LSignalling /\ LClaiming' = LClaiming
        BY <1>0, <2>1, <2>2 DEF LClaiming, LSignalling
    <2>5. LBudget' = LBudget
        BY <2>1 DEF LBudget
    <2>6. LB!Signal(t)
        BY <2>1, <2>4, <2>5, Zenon DEF LB!Signal
    <2> QED BY <2>3, <2>6, Zenon DEF LB!BatcherNext
<1> QED BY <1>1, <1>2, <1>3, <1>4, Zenon DEF LogStep, SyncStep

\* A step of worker_main or of shutdown that touches neither.
LEMMA OthersElsewhere ==
    ASSUME Claims, UNCHANGED <<lring, lefd, lmissed, lg>>,
           (dpc # "draw" /\ dpc' # "draw") \/ UNCHANGED <<dpc, lbatch>>,
           dpc' \in {"loop", "wait", "final"} => lbatch' = <<>>,
           spc' = spc \/ (spc \notin {"fill", "token"} /\ spc' \notin {"fill", "token"})
    PROVE  Claims' /\ UNCHANGED LB!batcherVars
<1>1. Claims'
    BY DEF Claims
<1>2. LClaiming' = LClaiming /\ LSignalling' = LSignalling
    BY DEF LClaiming, LSignalling
<1>3. LBudget' = LBudget
    BY DEF LBudget
<1> QED BY <1>1, <1>2, <1>3 DEF LB!batcherVars

\* One entry leaves the ring.
LEMMA EntryTaken ==
    ASSUME PoolInv, Claims, TakeEntry, UNCHANGED <<lefd, lg, spc>>,
           dpc' \notin {"loop", "wait", "final"}, dpc' = "draw" => Len(lbatch') <= LBatch
    PROVE  Claims' /\ LB!TakeOne
<1>1. lring \in Seq(Entry) /\ lring # <<>> /\ lring' = Tail(lring)
    BY DEF PoolInv, PoolTypes, TakeEntry, RingLooksEmpty
<1>2. Range(lring) = Range(lring') \cup {Head(lring)} /\ Len(lring') = Len(lring) - 1
    BY <1>1, RangeTail
<1>3. /\ \A t \in Loggers : lg[t].pc = "fill" => lg[t].rec # Head(lring)
      /\ spc = "fill" => LSent # Head(lring)
    BY DEF TakeEntry, RingLooksEmpty
<1>4. Claims'
    BY <1>2, <1>3 DEF Claims
<1>5. LClaiming' = LClaiming /\ LSignalling' = LSignalling
    BY DEF LClaiming, LSignalling
<1>6. LFilled > 0
    BY SomeFilled DEF TakeEntry
<1>7. lmissed' = IF LFilled = 1 THEN 0 ELSE lmissed
    BY Zenon DEF TakeEntry
<1> QED BY <1>2, <1>4, <1>5, <1>6, <1>7, SameFilled DEF LB!TakeOne

\* The consumer reads a token and takes entries for it; its last drain takes
\* them without one.
LEMMA ConsumerRefines ==
    ASSUME PoolInv, Claims, DrainStep \/ WriteStep
    PROVE  Claims' /\ [LB!BatcherNext]_(LB!batcherVars)
<1> DEFINE c == "worker_main"
<1>0. lbatch \in Seq(Entry) /\ LBatch \in Nat \ {0}
    BY LCapAssumption DEF PoolInv, PoolTypes
<1>1. CASE DrainLoop \/ DrainSkip \/ WriteStep
    BY <1>1, OthersElsewhere, Zenon
       DEF DrainLoop, DrainSkip, WriteStep, DrainWrite, DrainRecycle, ringVars, Claims
<1>2. CASE DrainToken
    <2>1. /\ dpc = "wait" /\ dpc' = "draw" /\ lefd > 0 /\ lefd' = lefd - 1
          /\ UNCHANGED <<lring, lmissed, lg, lbatch, spc>>
        BY <1>2 DEF DrainToken
    <2>2. lbatch = <<>>
        BY <2>1 DEF Claims
    <2>3. Claims'
        BY <1>0, <2>1, <2>2 DEF Claims
    <2>4. LClaiming' = LClaiming /\ LSignalling' = LSignalling
        BY <2>1 DEF LClaiming, LSignalling
    <2>5. LBudget' = [LBudget EXCEPT ![c] = LBatch] /\ LBudget[c] = 0
        BY <1>0, <2>1, <2>2 DEF LBudget
    <2>6. LB!Await(c)
        BY <2>1, <2>4, <2>5 DEF LB!Await
    <2> QED BY <2>3, <2>6, Zenon DEF LB!BatcherNext
<1>3. CASE DrainDraw
    <2>1. /\ dpc = "draw" /\ dpc' = dpc /\ Len(lbatch) < LBatch /\ TakeEntry
          /\ lbatch' = Append(lbatch, Head(lring)) /\ UNCHANGED <<lefd, lg, spc>>
        BY <1>3 DEF DrainDraw
    <2>2. Len(lbatch') = Len(lbatch) + 1
        <3>1. lring \in Seq(Entry) /\ lring # <<>>
            BY <2>1 DEF PoolInv, PoolTypes, TakeEntry, RingLooksEmpty
        <3> QED BY <1>0, <2>1, <3>1
    <2>3. Claims' /\ LB!TakeOne
        BY <1>0, <2>1, <2>2, EntryTaken
    <2>4. LBudget' = [LBudget EXCEPT ![c] = LBudget[c] - 1] /\ LBudget[c] > 0
        BY <1>0, <2>1, <2>2 DEF LBudget
    <2>5. LB!Draw(c)
        BY <2>3, <2>4, Zenon DEF LB!Draw
    <2> QED BY <2>3, <2>5, Zenon DEF LB!BatcherNext
<1>4. CASE DrainDrawn
    <2>1. /\ dpc = "draw" /\ dpc' = "write" /\ (RingLooksEmpty \/ Len(lbatch) = LBatch)
          /\ lmissed' = IF lbatch = <<>> /\ LFilled > 0 THEN lmissed + 1 ELSE lmissed
          /\ UNCHANGED <<lring, lefd, lg, lbatch, spc>>
        BY <1>4 DEF DrainDrawn
    <2>2. Claims'
        BY <2>1 DEF Claims
    <2>3. LClaiming' = LClaiming /\ LSignalling' = LSignalling
        BY <2>1 DEF LClaiming, LSignalling
    <2>4. /\ LBudget' = [LBudget EXCEPT ![c] = 0] /\ LBudget[c] = LBatch - Len(lbatch)
          /\ Len(lbatch) \in 0..LBatch
        BY <1>0, <2>1 DEF LBudget, Claims
    <2>5. CASE Len(lbatch) = LBatch
        <3>1. lbatch # <<>> /\ LBudget' = LBudget
            BY <1>0, <2>1, <2>5 DEF LBudget
        <3> QED BY <2>1, <2>2, <2>3, <3>1 DEF LB!batcherVars
    <2>6. CASE Len(lbatch) # LBatch
        <3>1. LBudget[c] > 0 /\ (LBudget[c] = LBatch <=> lbatch = <<>>)
            BY <1>0, <2>4, <2>6
        <3>2. Len(lring) = 0 \/ LClaiming # {}
            BY <2>1, <2>6 DEF RingLooksEmpty, LClaiming
        <3>3. c \in LB!Fresh <=> lbatch = <<>>
            BY <3>1 DEF LB!Fresh
        <3>4. lmissed' = IF c \in LB!Fresh /\ LB!Filled > 0 THEN lmissed + 1 ELSE lmissed
            BY <2>1, <3>3, SameFilled
        <3>5. LB!Leave(c)
            BY <2>1, <2>3, <2>4, <3>1, <3>2, <3>4 DEF LB!Leave
        <3> QED BY <2>2, <3>5, Zenon DEF LB!BatcherNext
    <2> QED BY <2>5, <2>6
<1>5. CASE DrainFinal
    <2>1. CASE RingLooksEmpty
        BY <1>5, <2>1, OthersElsewhere DEF DrainFinal, TakeEntry
    <2>2. CASE ~RingLooksEmpty
        <3>1. /\ dpc = "final" /\ dpc' = "write" /\ TakeEntry /\ UNCHANGED <<lefd, lg, spc>>
            BY <1>5, <2>2 DEF DrainFinal
        <3>2. Claims' /\ LB!TakeOne
            BY <3>1, EntryTaken
        <3>3. LBudget' = LBudget
            BY <3>1 DEF LBudget
        <3> QED BY <3>2, <3>3, Zenon DEF LB!Drain, LB!BatcherNext
    <2> QED BY <2>1, <2>2
<1> QED BY <1>1, <1>2, <1>3, <1>4, <1>5, Zenon DEF DrainStep

\* Shutdown queues its sentinel as a thread does its record.
LEMMA ShutdownRefines ==
    ASSUME PoolInv, Claims, ShutdownStart \/ ShutdownStep
    PROVE  Claims' /\ [LB!BatcherNext]_(LB!batcherVars)
<1>0. Stopper \notin Loggers
    BY LSentAssumption
<1>1. CASE ShutdownStart \/ ShutdownJoin
    BY <1>1, OthersElsewhere, Zenon DEF ShutdownStart, ShutdownJoin, ringVars, Claims
<1>2. CASE ShutdownSend
    <2>1. /\ spc = "send" /\ spc' = "fill" /\ Len(lring) < LCap /\ lring' = Append(lring, LSent)
          /\ lring \in Seq(Entry) /\ LSent \in Entry
          /\ UNCHANGED <<lefd, lmissed, lg, dpc, lbatch>>
        BY <1>2 DEF ShutdownSend, PoolInv, PoolTypes, Entry
    <2>2. Range(lring') = Range(lring) \cup {LSent} /\ Len(lring') = Len(lring) + 1
        BY <2>1, RangeAppend
    <2>3. Claims'
        BY <2>1, <2>2 DEF Claims
    <2>4. /\ LClaiming' = LClaiming \cup {Stopper} /\ LSignalling' = LSignalling
          /\ Stopper \notin LClaiming \cup LSignalling
        BY <1>0, <2>1 DEF LClaiming, LSignalling
    <2>5. LBudget' = LBudget
        BY <2>1 DEF LBudget
    <2>6. LB!Claim(Stopper)
        BY <2>1, <2>2, <2>4, <2>5 DEF LB!Claim
    <2> QED BY <2>3, <2>6, Zenon DEF LB!BatcherNext
<1>3. CASE ShutdownFill
    <2>1. spc = "fill" /\ spc' = "token" /\ UNCHANGED <<lring, lefd, lmissed, lg, dpc, lbatch>>
        BY <1>3 DEF ShutdownFill, ringVars
    <2>2. Claims'
        BY <2>1 DEF Claims
    <2>3. /\ LClaiming' = LClaiming \ {Stopper} /\ LSignalling' = LSignalling \cup {Stopper}
          /\ Stopper \in LClaiming
        BY <1>0, <2>1 DEF LClaiming, LSignalling
    <2>4. LBudget' = LBudget
        BY <2>1 DEF LBudget
    <2>5. LB!Fill(Stopper)
        BY <2>1, <2>3, <2>4 DEF LB!Fill
    <2> QED BY <2>2, <2>5, Zenon DEF LB!BatcherNext
<1>4. CASE ShutdownToken
    <2>1. /\ spc = "token" /\ spc' = "join" /\ lefd' = lefd + 1
          /\ UNCHANGED <<lring, lmissed, lg, dpc, lbatch>>
        BY <1>4 DEF ShutdownToken
    <2>2. Claims'
        BY <2>1 DEF Claims
    <2>3. LSignalling' = LSignalling \ {Stopper} /\ Stopper \in LSignalling /\ LClaiming' = LClaiming
        BY <1>0, <2>1 DEF LClaiming, LSignalling
    <2>4. LBudget' = LBudget
        BY <2>1 DEF LBudget
    <2>5. LB!Signal(Stopper)
        BY <2>1, <2>3, <2>4 DEF LB!Signal
    <2> QED BY <2>2, <2>5, Zenon DEF LB!BatcherNext
<1> QED BY <1>1, <1>2, <1>3, <1>4, Zenon DEF ShutdownStep

\* po_logger_init leaves the batcher as perf_batcher_create does.
LEMMA InitBatcher == LoggerInit => Claims /\ LB!BatcherInit
<1> SUFFICES ASSUME LoggerInit PROVE Claims /\ LB!BatcherInit
    OBVIOUS
<1>1. Claims
    BY DEF LoggerInit, Claims, LogIdle
<1>2. LClaiming = {} /\ LSignalling = {}
    BY DEF LoggerInit, LogIdle, LClaiming, LSignalling
<1>3. LBudget = [c \in {"worker_main"} |-> 0]
    BY DEF LoggerInit, LBudget
<1> QED BY <1>1, <1>2, <1>3, LCapAssumption DEF LoggerInit, LB!BatcherInit

\* Every step of the logger is a step of the batcher or leaves it alone.
LEMMA LoggerRefines ==
    PoolInv /\ Claims /\ [LoggerNext]_logVars => Claims' /\ [LB!BatcherNext]_(LB!batcherVars)
<1> SUFFICES ASSUME PoolInv, Claims, [LoggerNext]_logVars
             PROVE  Claims' /\ [LB!BatcherNext]_(LB!batcherVars)
    OBVIOUS
<1>1. CASE LoggerNext
    BY <1>1, ThreadRefines, ConsumerRefines, ShutdownRefines, Zenon DEF LoggerNext
<1>2. CASE UNCHANGED logVars
    <2>1. UNCHANGED <<lring, lefd, lmissed, lg, dpc, lbatch, spc>>
        BY <1>2 DEF logVars
    <2> QED BY <2>1, OthersElsewhere DEF Claims
<1> QED BY <1>1, <1>2

\* The logger uses its ring and its eventfd as Batcher says, for any number of
\* threads and any sizes: what worker_main draws has been filled, every message
\* is followed by a token, and the tokens it spends for nothing and the
\* notices that have none are those Batcher counts as missed.
THEOREM LoggerUsesBatcher == LoggerSpec => LB!BatcherSpec
<1>1. LoggerInit => PoolInv /\ Claims /\ LB!BatcherInit
    BY InitPool, InitBatcher
<1>2. /\ PoolInv /\ [LoggerNext]_logVars => PoolInv'
      /\ PoolInv /\ Claims /\ [LoggerNext]_logVars => Claims' /\ [LB!BatcherNext]_(LB!batcherVars)
    BY StepPool, LoggerRefines
<1> QED BY <1>1, <1>2, PTL DEF LoggerSpec, LB!BatcherSpec
=============================================================================
