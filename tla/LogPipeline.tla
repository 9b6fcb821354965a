----------------------------- MODULE LogPipeline -----------------------------
(***************************************************************************)
(* The log store as a sink of the logger (po_logstore_attach_logger): each *)
(* line the logger writes is appended to the store, by the consumer or, if *)
(* it is a notice, by the thread that noticed. The append blocks while     *)
(* the queue of the store is full. The flush worker of the store logs too, *)
(* when a write fails. The store is opened before the logger starts and    *)
(* closed after it has been shut down.                                     *)
(*                                                                         *)
(* setup.use says what a behaviour is about: "store", the store alone;     *)
(* "logger", the logger with other sinks; "sink", the two together. The    *)
(* threads setup.who append or log, setup.logs bounds the messages of a    *)
(* thread, setup.keys are the keys appended, and setup.reads says whether  *)
(* the store is read.                                                      *)
(***************************************************************************)
EXTENDS Logger, LogStore

CONSTANT Consumer   \* the consumer thread of the logger

ASSUME UseAssumption ==
    /\ \A s \in Setups : /\ s.use \in {"store", "logger", "sink"}
                         /\ s.who \subseteq Callers /\ s.logs \in 0..MaxLogs
                         /\ s.reads \in BOOLEAN /\ s.keys \subseteq Keys
    /\ Callers = Loggers \cup {Consumer} /\ Workers \subseteq Loggers

pipeVars == <<logVars, storeVars>>

PipeInit == LoggerInit /\ StoreInit

Sink == setup.use = "sink"

\* write_record, and _ls_logger_sink when it is attached: thread t hands a
\* line to the store, under a key made of time and sequence number that
\* nobody asks for again.
WriteRecord(t) ==
    IF Sink THEN AppendStart(t, CHOOSE k \in Keys : TRUE) ELSE UNCHANGED storeVars

Log(t) ==
    /\ setup.use = "logger" \/ (Sink /\ opc = "open")
    /\ spc = "up" /\ t \in setup.who /\ logged[t] < setup.logs
    /\ LogTake(t)
    /\ UNCHANGED storeVars

LogGoes(t) == LogStep(t) /\ UNCHANGED storeVars

LogSyncs(t) ==
    \/ LogSync(t) /\ WriteRecord(t)
    \/ LogSynced(t) /\ call[t].pc = "idle" /\ UNCHANGED storeVars

Drain ==
    /\ setup.use # "store"
    /\ \/ DrainStep /\ UNCHANGED storeVars
       \/ DrainWrite /\ WriteRecord(Consumer)
       \/ DrainRecycle /\ call[Consumer].pc = "idle" /\ UNCHANGED storeVars

\* The program joins its threads before it shuts the logger down; the
\* worker of the store runs on.
StopLogger ==
    /\ setup.use # "store"
    /\ \A t \in setup.who : lg[t].pc = "idle"
    /\ ShutdownStart
    /\ UNCHANGED storeVars

LoggerStopping == ShutdownStep /\ UNCHANGED storeVars

\* A failed write is logged, which does nothing once the logger is gone, and
\* the batch is freed when that has returned.
StoreWorks(w) ==
    \/ WorkerQuiet(w) /\ UNCHANGED logVars
    \/ WorkerWriteFails(w) /\ IF Sink /\ spc # "down" THEN LogTake(w) ELSE UNCHANGED logVars
    \/ WorkerFree(w) /\ lg[w].pc = "idle" /\ call[w].pc = "idle" /\ UNCHANGED logVars

OpenStore == setup.use # "logger" /\ spc = "up" /\ Open /\ UNCHANGED logVars
StoreOpening == OpenStep /\ UNCHANGED logVars
CloseStore == CloseStart /\ (Sink => spc = "down") /\ UNCHANGED logVars
StoreClosing == CloseStep /\ UNCHANGED logVars

Client(c) ==
    /\ setup.use = "store" /\ c \in setup.who
    /\ \E k \in setup.keys : AppendStart(c, k)
    /\ UNCHANGED logVars

Appending(c) == AppendStep(c) /\ UNCHANGED logVars

Read(g) == setup.reads /\ (GetStep(g) \/ \E k \in Keys : GetMem(g, k)) /\ UNCHANGED logVars

Check == setup.use = "store" /\ (CheckStart \/ CheckStep) /\ UNCHANGED logVars

Crash == (Kill \/ PowerLoss) /\ UNCHANGED logVars

PipeNext ==
    \/ \E t \in Loggers : Log(t) \/ LogGoes(t) \/ LogSyncs(t)
    \/ Drain \/ StopLogger \/ LoggerStopping
    \/ OpenStore \/ StoreOpening \/ CloseStore \/ StoreClosing
    \/ \E c \in Callers : Client(c) \/ Appending(c)
    \/ \E w \in Workers : StoreWorks(w) \/ (WorkerInterrupted(w) /\ UNCHANGED logVars)
    \/ \E g \in Getters : Read(g)
    \/ Check
    \/ (FsyncTick /\ UNCHANGED logVars)
    \/ Crash

\* Threads run. A caller that sleeps on a full queue tries again and again;
\* others can starve it only as long as they append.
PipeFairness ==
    /\ \A t \in Loggers : WF_pipeVars(LogGoes(t) \/ LogSyncs(t))
    /\ WF_pipeVars(Drain) /\ WF_pipeVars(LoggerStopping)
    /\ WF_pipeVars(StoreOpening) /\ WF_pipeVars(StoreClosing)
    /\ \A c \in Callers : SF_pipeVars(Appending(c))
    /\ \A w \in Workers : WF_pipeVars(StoreWorks(w))

PipeSpec == PipeInit /\ [][PipeNext]_pipeVars /\ PipeFairness

-----------------------------------------------------------------------------

PipeTypeOK == LoggerTypeOK /\ StoreTypeOK

\* One thread appends to a store of its own.
OneCaller == setup.use = "store" /\ Cardinality(setup.who) = 1

\* Several do, and a batch does not hold the whole ring.
MayStrand == ~OneCaller /\ setup.batch < setup.cap

\* The appends that have begun (they are bounded) all return, and their
\* requests are written, dropped by a failed write or lost in a crash,
\* without another append or a close having to push them. Only where several
\* threads append and a batch is smaller than the ring may requests stay
\* behind, for tokens spent on a ring that looked empty.
AppendsSettle == []<>Settled \/ <>[](MayStrand /\ missed > 0)

\* po_logger_shutdown returns. po_logstore_close does so when one thread
\* appends, in batches of two or more, and else once its sentinel is in the
\* ring, unless requests have stayed behind. (When the ring is full the
\* sentinel is forgotten, logstore.c:224, and a worker without vectors does
\* not free it, logstore_worker.c:161. The worker then stops only if a token
\* is left over for it, and several callers may have wasted that one.)
ShutdownsReturn ==
    /\ LoggerStops
    /\ \/ (opc = "fill" \/ (opc = "mark" /\ OneCaller /\ setup.batch > 1)) ~> opc = "down"
       \/ <>[](MayStrand /\ ("novec" \in setup.faults \/ missed > 0))

\* The queues of the store and of the logger are used as Batcher says, so
\* that entries are left in one with its consumer asleep only if a token is
\* missing (Batcher!NothingStranded).
QueueIsBatcher == SB!BatcherSpec /\ LB!BatcherSpec

\* An append that waits for a place in the queue gets one
\* (logstore.c:311, "eventual success unless shutdown or
\* overwrite-forbidden").
AppendsGetThrough == \A c \in Callers : call[c].pc = "put" ~> call[c].pc # "put"
=============================================================================
