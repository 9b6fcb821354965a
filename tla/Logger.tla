-------------------------------- MODULE Logger -------------------------------
(***************************************************************************)
(* log/logger.c: threads take a record from a free list, fill it and queue *)
(* it in a ring; a consumer takes batches from the ring, writes the        *)
(* records to the sinks and gives them back. When no record is to be had a *)
(* message is dropped and counted, and a notice is written when the count  *)
(* is a power of two. Shutdown wakes the consumer with a sentinel.         *)
(*                                                                         *)
(* There is one consumer, as in every program (consumers = 1). Both queues *)
(* are perf_ringbuf's, and two of their traits show: a place that a thread *)
(* has claimed in the ring hides the later ones until it is filled, and a  *)
(* place of the free list is in use until the thread that took the record  *)
(* releases it. The free list starts with one record less than it has      *)
(* places. A message is a thread and a number; levels, categories and      *)
(* formatting are left out, and LOG_FATAL, which writes and aborts.        *)
(***************************************************************************)
EXTENDS Integers, Sequences, Functions, FiniteSets

CONSTANTS
    Loggers,    \* threads that log
    LCap,       \* cfg->ring_capacity, also the size of the pool
    LBatch,     \* max_batch
    LSent,      \* g_sentinel
    Stopper,    \* the thread that shuts the logger down
    Released,   \* a place of the free list behind one still in use
    MaxLogs     \* bound: messages of a thread

ASSUME LCapAssumption == LCap \in Nat /\ LCap >= 2 /\ LBatch \in Nat \ {0}

Records == 1..(LCap - 1)

ASSUME LSentAssumption == LSent \notin Records /\ Stopper \notin Loggers

Messages == Loggers \X (1..MaxLogs)
Notice == <<>>      \* an overflow notice
NoRec == 0

VARIABLES
    lring, lefd,    \* g_ring and the eventfd of g_batcher
    lmissed,        \* history: entries of g_ring that may be without a token
    lfree, taken,   \* g_free: the records in it; the places taken before them
    content,        \* the message in each record
    lrunning,       \* g_running
    late,           \* history: a thread was logging when shutdown began, or since
    dropped,        \* messages dropped; their number is g_dropped_new
    written,        \* messages the sinks have received
    logged,         \* messages of each thread so far
    lg,             \* [pc, rec] of each logging thread
    dpc, lbatch,    \* worker_main
    spc             \* po_logger_shutdown

poolVars == <<lfree, taken, content>>
ringVars == <<lring, lefd, lmissed>>
stopVars == <<lrunning, late>>
tallyVars == <<dropped, written, logged>>
logVars == <<lring, lefd, lmissed, lfree, taken, content, lrunning, late, dropped, written, logged, lg, dpc, lbatch, spc>>

LogIdle == [pc |-> "idle", rec |-> NoRec]

\* po_logger_init.
LoggerInit ==
    /\ lring = <<>> /\ lefd = 0 /\ lmissed = 0
    /\ lfree = [i \in Records |-> i] /\ taken = <<>>
    /\ content = [r \in Records |-> Notice]
    /\ lrunning = TRUE /\ late = FALSE
    /\ dropped = {} /\ written = {} /\ logged = [t \in Loggers |-> 0]
    /\ lg = [t \in Loggers |-> LogIdle]
    /\ dpc = "loop" /\ lbatch = <<>>
    /\ spc = "up"

-----------------------------------------------------------------------------
(* po_logger_logv. *)

\* should_emit_overflow_notice: v # 0 and (v & (v - 1)) = 0.
IsPowerOfTwo(v) == \E i \in 0..v : v = 2^i

\* Take a record for message m and claim its place in g_free.
TakeRecord(t, m) ==
    /\ lfree # <<>>
    /\ lfree' = Tail(lfree)
    /\ taken' = Append(taken, t)
    /\ content' = [content EXCEPT ![Head(lfree)] = m]
    /\ lg' = [lg EXCEPT ![t] = [pc |-> "release", rec |-> Head(lfree)]]

\* A record for the message, or a drop. A drop whose number is a power of two
\* is reported by this thread itself. All that is tested is g_ring, which
\* is there until shutdown has joined the consumer.
LogTake(t) ==
    /\ spc # "down" /\ lg[t].pc = "idle" /\ logged[t] < MaxLogs
    /\ late' = (late \/ spc # "up")
    /\ logged' = [logged EXCEPT ![t] = @ + 1]
    /\ LET m == <<t, logged[t] + 1>> IN
       \/ TakeRecord(t, m) /\ UNCHANGED dropped
       \/ /\ lfree = <<>>
          /\ dropped' = dropped \cup {m}
          /\ lg' = [lg EXCEPT ![t].pc = IF IsPowerOfTwo(Cardinality(dropped) + 1)
                                         THEN "sync" ELSE "idle"]
          /\ UNCHANGED poolVars
    /\ UNCHANGED <<ringVars, lrunning, written, dpc, lbatch, spc>>

\* The end of perf_ringbuf_dequeue: the place in g_free may be used again,
\* once those before it may.
LogRelease(t) ==
    /\ lg[t].pc = "release"
    /\ LET marked == [i \in 1..Len(taken) |-> IF taken[i] = t THEN Released ELSE taken[i]]
           inUse == {i \in 1..Len(taken) : marked[i] # Released}
       IN taken' = IF inUse = {} THEN <<>>
                   ELSE SubSeq(marked, CHOOSE i \in inUse : \A j \in inUse : i <= j, Len(taken))
    /\ lg' = [lg EXCEPT ![t].pc = "put"]
    /\ UNCHANGED <<ringVars, lfree, content, stopVars, tallyVars, dpc, lbatch, spc>>

\* enqueue_record, or the enqueue of a notice. PoolFits says that the ring
\* has room here: the overflow policies below line 743 are never consulted.
LogPut(t) ==
    /\ lg[t].pc = "put"
    /\ Len(lring) < LCap
    /\ lring' = Append(lring, lg[t].rec)
    /\ lg' = [lg EXCEPT ![t].pc = "fill"]
    /\ UNCHANGED <<lefd, lmissed, poolVars, stopVars, tallyVars, dpc, lbatch, spc>>

\* The place is filled. A notice goes into the ring directly, with no token.
LogFill(t) ==
    /\ lg[t].pc = "fill"
    /\ lg' = [lg EXCEPT ![t] = IF content[lg[t].rec] = Notice THEN LogIdle
                               ELSE [LogIdle EXCEPT !.pc = "token"]]
    /\ lmissed' = IF content[lg[t].rec] = Notice THEN lmissed + 1 ELSE lmissed
    /\ UNCHANGED <<lring, lefd, poolVars, stopVars, tallyVars, dpc, lbatch, spc>>

\* A mutant: the consumer is not signalled.
LogNoToken(t) ==
    /\ lg[t].pc = "token"
    /\ UNCHANGED lefd
    /\ lg' = [lg EXCEPT ![t].pc = "check"]
    /\ UNCHANGED <<lring, lmissed, poolVars, stopVars, tallyVars, dpc, lbatch, spc>>

LogToken(t) ==
    /\ lg[t].pc = "token"
    /\ lefd' = lefd + 1
    /\ lg' = [lg EXCEPT ![t].pc = "check"]
    /\ UNCHANGED <<lring, lmissed, poolVars, stopVars, tallyVars, dpc, lbatch, spc>>

\* As long as the count of drops is a power of two, every message that gets
\* through is followed by a notice.
LogCheck(t) ==
    /\ lg[t].pc = "check"
    /\ LET due == IsPowerOfTwo(Cardinality(dropped)) IN
       \/ ~due /\ lg' = [lg EXCEPT ![t] = LogIdle] /\ UNCHANGED poolVars
       \/ due /\ TakeRecord(t, Notice)
       \/ due /\ lfree = <<>> /\ lg' = [lg EXCEPT ![t].pc = "sync"] /\ UNCHANGED poolVars
    /\ UNCHANGED <<ringVars, stopVars, tallyVars, dpc, lbatch, spc>>

\* No record for the notice: the thread writes it to the sinks itself, and
\* returns when that is done.
LogSync(t) ==
    /\ lg[t].pc = "sync"
    /\ lg' = [lg EXCEPT ![t].pc = "synced"]
    /\ UNCHANGED <<ringVars, poolVars, stopVars, tallyVars, dpc, lbatch, spc>>

LogSynced(t) ==
    /\ lg[t].pc = "synced"
    /\ lg' = [lg EXCEPT ![t] = LogIdle]
    /\ UNCHANGED <<ringVars, poolVars, stopVars, tallyVars, dpc, lbatch, spc>>

-----------------------------------------------------------------------------
(* worker_main. *)

\* The place at the head is claimed and not yet filled, or there is none.
RingLooksEmpty ==
    \/ lring = <<>>
    \/ \E t \in Loggers : lg[t].pc = "fill" /\ lg[t].rec = Head(lring)
    \/ spc = "fill" /\ Head(lring) = LSent

\* The threads whose place in the ring is not filled yet, and the number of
\* filled places.
LClaiming == {t \in Loggers : lg[t].pc = "fill"} \cup (IF spc = "fill" THEN {Stopper} ELSE {})
LFilled == Len(lring) - Cardinality(LClaiming)

\* The first entry is taken out of the ring. An empty ring lacks no token.
TakeEntry ==
    /\ ~RingLooksEmpty
    /\ lring' = Tail(lring)
    /\ lmissed' = IF LFilled = 1 THEN 0 ELSE lmissed

\* while (g_running).
DrainLoop ==
    /\ dpc = "loop"
    /\ dpc' = IF lrunning THEN "wait" ELSE "final"
    /\ UNCHANGED <<ringVars, poolVars, stopVars, tallyVars, lg, lbatch, spc>>

\* perf_batcher_next: a token, then entries up to a batch.
DrainToken ==
    /\ dpc = "wait"
    /\ lefd > 0
    /\ lefd' = lefd - 1
    /\ dpc' = "draw"
    /\ UNCHANGED <<lring, lmissed, poolVars, stopVars, tallyVars, lg, lbatch, spc>>

\* A mutant: the entry stays in the ring.
DrainPeek ==
    /\ dpc = "draw"
    /\ ~RingLooksEmpty /\ Len(lbatch) < LBatch
    /\ lbatch' = Append(lbatch, Head(lring))
    /\ UNCHANGED <<ringVars, poolVars, stopVars, tallyVars, lg, dpc, spc>>

DrainDraw ==
    /\ dpc = "draw"
    /\ Len(lbatch) < LBatch
    /\ TakeEntry
    /\ lbatch' = Append(lbatch, Head(lring))
    /\ UNCHANGED <<lefd, poolVars, stopVars, tallyVars, lg, dpc, spc>>

\* It returns. With nothing in hand and entries in the ring behind a place
\* that is not filled, the token was spent for nothing.
DrainDrawn ==
    /\ dpc = "draw"
    /\ RingLooksEmpty \/ Len(lbatch) = LBatch
    /\ lmissed' = IF lbatch = <<>> /\ LFilled > 0 THEN lmissed + 1 ELSE lmissed
    /\ dpc' = "write"
    /\ UNCHANGED <<lring, lefd, poolVars, stopVars, tallyVars, lg, lbatch, spc>>

\* The next record of the batch goes to the sinks.
DrainWrite ==
    /\ dpc = "write" /\ lbatch # <<>> /\ Head(lbatch) # LSent
    /\ written' = written \cup ({content[Head(lbatch)]} \ {Notice})
    /\ dpc' = "recycle"
    /\ UNCHANGED <<ringVars, poolVars, stopVars, dropped, logged, lg, lbatch, spc>>

\* The sentinel is skipped; after the last record the loop goes on.
DrainSkip ==
    /\ dpc = "write"
    /\ \/ lbatch = <<>> /\ dpc' = "loop" /\ UNCHANGED lbatch
       \/ lbatch # <<>> /\ Head(lbatch) = LSent /\ lbatch' = Tail(lbatch) /\ UNCHANGED dpc
    /\ UNCHANGED <<ringVars, poolVars, stopVars, tallyVars, lg, spc>>

\* recycle_record. The place after the last record may still be in use by a
\* thread that has not released it; the failure is ignored and the record
\* is lost.
DrainRecycle ==
    /\ dpc = "recycle"
    /\ lfree' = IF Len(taken) + Len(lfree) < LCap THEN Append(lfree, Head(lbatch)) ELSE lfree
    /\ lbatch' = Tail(lbatch)
    /\ dpc' = "write"
    /\ UNCHANGED <<ringVars, taken, content, stopVars, tallyVars, lg, spc>>

\* A mutant: the ring is not emptied.
DrainNoFinal ==
    /\ dpc = "final"
    /\ dpc' = "exit"
    /\ UNCHANGED <<ringVars, lbatch, poolVars, stopVars, tallyVars, lg, spc>>

\* After the loop the ring is emptied without the eventfd.
DrainFinal ==
    /\ dpc = "final"
    /\ \/ RingLooksEmpty /\ dpc' = "exit" /\ UNCHANGED <<lring, lmissed, lbatch>>
       \/ TakeEntry /\ dpc' = "write" /\ lbatch' = <<Head(lring)>>
    /\ UNCHANGED <<lefd, poolVars, stopVars, tallyVars, lg, spc>>

-----------------------------------------------------------------------------
(* po_logger_shutdown. Nothing keeps other threads from logging meanwhile. *)

ShutdownStart ==
    /\ spc = "up"
    /\ lrunning' = FALSE
    /\ late' = (\E t \in Loggers : lg[t].pc # "idle")
    /\ spc' = "send"
    /\ UNCHANGED <<ringVars, poolVars, tallyVars, lg, dpc, lbatch>>

\* The sentinel is queued like a record: PoolFits leaves room for it.
ShutdownSend ==
    /\ spc = "send"
    /\ Len(lring) < LCap
    /\ lring' = Append(lring, LSent)
    /\ spc' = "fill"
    /\ UNCHANGED <<lefd, lmissed, poolVars, stopVars, tallyVars, lg, dpc, lbatch>>

ShutdownFill ==
    /\ spc = "fill"
    /\ spc' = "token"
    /\ UNCHANGED <<ringVars, poolVars, stopVars, tallyVars, lg, dpc, lbatch>>

\* A mutant: the sentinel is queued without a token.
ShutdownNoToken ==
    /\ spc = "token"
    /\ spc' = "join"
    /\ UNCHANGED <<ringVars, poolVars, stopVars, tallyVars, lg, dpc, lbatch>>

ShutdownToken ==
    /\ spc = "token"
    /\ lefd' = lefd + 1
    /\ spc' = "join"
    /\ UNCHANGED <<lring, lmissed, poolVars, stopVars, tallyVars, lg, dpc, lbatch>>

\* The consumer is joined and ring, pool and sinks are freed. A thread that
\* still uses them then is undefined behaviour, and left out; one that is
\* inside a sink of its owner's is not held back.
ShutdownJoin ==
    /\ spc = "join" /\ dpc = "exit"
    /\ \A t \in Loggers : lg[t].pc \in {"idle", "synced"}
    /\ spc' = "down"
    /\ UNCHANGED <<ringVars, poolVars, stopVars, tallyVars, lg, dpc, lbatch>>

-----------------------------------------------------------------------------

LogStep(t) ==
    LogRelease(t) \/ LogPut(t) \/ LogFill(t) \/ LogToken(t) \/ LogCheck(t)

DrainStep ==
    DrainLoop \/ DrainToken \/ DrainDraw \/ DrainDrawn \/ DrainSkip \/ DrainFinal

ShutdownStep == ShutdownSend \/ ShutdownFill \/ ShutdownToken \/ ShutdownJoin

\* The steps that begin and end a write to the sinks.
SyncStep(t) == LogSync(t) \/ LogSynced(t)
WriteStep == DrainWrite \/ DrainRecycle

LoggerNext ==
    \/ \E t \in Loggers : LogTake(t) \/ LogStep(t) \/ SyncStep(t)
    \/ DrainStep \/ WriteStep
    \/ ShutdownStart \/ ShutdownStep

\* Threads run.
LoggerFairness ==
    /\ \A t \in Loggers : WF_logVars(LogStep(t) \/ SyncStep(t))
    /\ WF_logVars(DrainStep \/ WriteStep)
    /\ WF_logVars(ShutdownStep)

LoggerSpec == LoggerInit /\ [][LoggerNext]_logVars /\ LoggerFairness

-----------------------------------------------------------------------------

LoggerTypeOK ==
    /\ lring \in Seq(Records \cup {LSent})
    /\ lfree \in Seq(Records)
    /\ taken \in Seq(Loggers \cup {Released})
    /\ lefd \in Nat /\ lmissed \in Nat /\ late \in BOOLEAN
    /\ content \in [Records -> Messages \cup {Notice}]

\* The record that a thread has in its hands and has not queued yet.
InHand(t) == IF lg[t].pc \in {"release", "put"} THEN {lg[t].rec} ELSE {}

\* Nothing but the sentinel is twice in s, or in s and in r.
Once(s) == \A i, j \in 1..Len(s) : i # j /\ s[i] = s[j] => s[i] = LSent
Apart(s, r) == Range(s) \cap Range(r) \subseteq {LSent}

\* A record is in one place only, the free list, the ring, the batch or a
\* thread's hands, so no message is overwritten while it waits. With one
\* record less than places there is always room in the ring, for a record and
\* for the sentinel, even if the place of what the consumer took last is
\* still in use. The overflow policies (logger.c:744-761) are dead code: a
\* full logger drops the new message under either.
PoolFits ==
    /\ Once(lfree) /\ Once(lring) /\ Once(lbatch)
    /\ Apart(lfree, lring) /\ Apart(lfree, lbatch) /\ Apart(lring, lbatch)
    /\ \A t \in Loggers : InHand(t) \cap (Range(lfree) \cup Range(lring) \cup Range(lbatch)) = {}
    /\ \A t, u \in Loggers : t # u => InHand(t) \cap InHand(u) = {}
    /\ (spc = "send" \/ \E t \in Loggers : lg[t].pc = "put") => Len(lring) + Len(lbatch) < LCap

\* The records in s.
InUse(s) == Range(s) \ {LSent}

\* The messages still on their way to the sinks.
Owed ==
    LET rest == IF dpc = "recycle" THEN Tail(lbatch) ELSE lbatch
    IN {content[r] : r \in InUse(lring) \cup InUse(rest) \cup UNION {InHand(t) : t \in Loggers}}
       \ {Notice}

\* Every message has one fate: dropped and counted, on its way or written;
\* messages of one thread are written in the order they were logged; and
\* when shutdown has joined the consumer none is left (logger.h,
\* po_logger_shutdown, "any remaining queued messages are flushed"), unless a
\* thread was still logging.
MessageFate ==
    /\ dropped \cup Owed \cup written = {m \in Messages : m[2] <= logged[m[1]]}
    /\ dropped \cap (Owed \cup written) = {} /\ Owed \cap written = {}
    /\ \A m \in written, n \in Owed : m[1] = n[1] => m[2] < n[2]
    /\ spc = "down" /\ ~late => Owed = {}

\* The messages accepted so far (MaxLogs bounds them) all reach the sinks
\* without another message or a shutdown having to push them, dropped ones or
\* not, unless for good a token is missing: a notice (logger.c:906) is queued
\* without one, and while a place is claimed and not filled the consumer
\* spends the token of a message behind it for nothing. (A message that comes
\* during shutdown may stay in the ring.)
LoggedIsWritten == []<>(Owed = {}) \/ <>[](lmissed > 0 \/ late)

\* Shutdown returns.
LoggerStops == spc = "send" ~> spc = "down"

\* The threads about to write a token, and how much the consumer may still
\* take for its token.
LSignalling == {t \in Loggers : lg[t].pc = "token"} \cup (IF spc = "token" THEN {Stopper} ELSE {})
LBudget == [c \in {"worker_main"} |-> IF dpc = "draw" THEN LBatch - Len(lbatch) ELSE 0]

\* The ring and its eventfd are used as Batcher says, notices included.
LB == INSTANCE Batcher WITH
    Producers <- Loggers \cup {Stopper}, Consumers <- {"worker_main"},
    cap <- LCap, batch <- LBatch, len <- Len(lring), claiming <- LClaiming,
    signalling <- LSignalling, tokens <- lefd, budget <- LBudget, missed <- lmissed
=============================================================================
