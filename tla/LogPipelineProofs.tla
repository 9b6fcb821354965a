-------------------------- MODULE LogPipelineProofs --------------------------
(***************************************************************************)
(* That the log store and the logger in front of it use their queues as    *)
(* Batcher says, for any number of threads, any capacity and any batch     *)
(* size; that they therefore leave nothing in a queue with the consumers   *)
(* asleep unless a token is missing; and that the records of the logger    *)
(* stay apart with the store as a sink.                                    *)
(***************************************************************************)
EXTENDS LogPipeline, LoggerProofs, TLAPS

Request == [key : Keys, id : Nat]
Item == Request \cup {Sent}

CallType == [pc : {"idle", "put", "fill", "token"}, req : Item]

WorkerFields == {"pc", "batch", "i", "off", "vec"}

\* A worker's record has its fields, and while it draws its batch is no
\* longer than it may be.
WorkerOK(r) ==
    /\ DOMAIN r = WorkerFields
    /\ r.pc = "draw" => r.batch \in Seq(Item) /\ Len(r.batch) <= setup.batch

QueueTypes ==
    /\ setup \in Setups /\ q \in Seq(Item) /\ nreq \in Nat
    /\ call \in [Callers -> CallType]
    /\ \A c \in Callers : call[c].pc = "put" => call[c].req \in Request

\* No worker exists before the store is open, and nobody appends unless it
\* is.
Phases ==
    /\ wk = [w \in Workers |-> wk[w]]
    /\ \A w \in Workers : WorkerOK(wk[w])
    /\ opc \in {"down", "scan", "start"} => \A w \in Workers : wk[w].pc = "exit"
    /\ opc # "open" => \A c \in Callers : call[c].pc = "idle"

\* Whoever has claimed a place has a request of its own in the ring.
PlacesClaimed ==
    /\ \A c \in Callers : call[c].pc = "fill" =>
           call[c].req \in Range(q) /\ call[c].req.id \in 0..nreq
    /\ \A c, d \in Callers : c # d /\ call[c].pc = "fill" /\ call[d].pc = "fill" =>
           call[c].req # call[d].req
    /\ opc = "fill" => Sent \in Range(q)

QueueInv == QueueTypes /\ Phases /\ PlacesClaimed

\* po_logstore_open_cfg has not run yet: the batcher is as
\* perf_batcher_create will leave it.
LEMMA InitQueue == StoreInit => QueueInv /\ SB!BatcherInit
<1> SUFFICES ASSUME StoreInit PROVE QueueInv /\ SB!BatcherInit
    OBVIOUS
<1>1. QueueTypes
    BY DEF StoreInit, QueueTypes, IdleCall, CallType, Item
<1>2. Phases
    BY DEF StoreInit, Phases, WorkerOK, WorkerFields, IdleWorker, IdleCall
<1>3. PlacesClaimed
    BY DEF StoreInit, PlacesClaimed, IdleCall
<1>4. Claiming = {} /\ Signalling = {}
    BY DEF StoreInit, Claiming, Signalling, IdleCall
<1>5. Budget = [w \in Workers |-> 0]
    BY DEF StoreInit, Budget, Left, IdleWorker
<1>6. setup.cap \in Nat /\ setup.batch \in Nat \ {0} /\ Len(q) = 0
    BY SetupsAssumption DEF StoreInit
<1> QED BY <1>1, <1>2, <1>3, <1>4, <1>5, <1>6 DEF QueueInv, StoreInit, SB!BatcherInit

\* Store and Batcher count alike.
LEMMA SameCount == SB!Filled = Filled
BY DEF SB!Filled, Filled, SB!Cardinality, Cardinality

\* What a worker takes out is a request that has been filled.
LEMMA SomeRequest ==
    ASSUME QueueInv, ~LooksEmpty
    PROVE  Filled > 0
<1> DEFINE g == [c \in Claiming |-> IF c = Closer THEN Sent ELSE call[c].req]
<1>1. q \in Seq(Item) /\ q # <<>>
    BY DEF QueueInv, QueueTypes, LooksEmpty
<1>2. \A c \in Claiming : \/ c = Closer /\ opc = "fill" /\ g[c] = Sent
                          \/ c \in Callers /\ call[c].pc = "fill" /\ g[c] = call[c].req
    BY NamesAssumption DEF Claiming
<1> HIDE DEF g
<1>3. \A c \in Claiming : g[c] \in Range(q) /\ g[c] # Head(q)
    BY <1>2 DEF QueueInv, PlacesClaimed, LooksEmpty
<1>4. ASSUME NEW c \in Claiming, NEW d \in Claiming, g[c] = g[d] PROVE c = d
    <2>1. CASE opc = "fill"
        BY <1>2, <2>1 DEF QueueInv, Phases
    <2>2. CASE opc # "fill"
        BY <1>2, <1>4, <2>2 DEF QueueInv, PlacesClaimed
    <2> QED BY <2>1, <2>2
<1>5. Len(q) - Cardinality(Claiming) > 0
    BY <1>1, <1>3, <1>4, OneFree
<1> QED BY <1>5 DEF Filled

\* One entry leaves the ring.
LEMMA FirstTaken ==
    ASSUME QueueInv, TakeFirst, UNCHANGED <<setup, efd, nreq, call, opc>>
    PROVE  QueueTypes' /\ PlacesClaimed' /\ SB!TakeOne
<1>1. q \in Seq(Item) /\ q # <<>> /\ q' = Tail(q)
    BY DEF QueueInv, QueueTypes, TakeFirst, LooksEmpty
<1>2. Range(q) = Range(q') \cup {Head(q)} /\ q' \in Seq(Item) /\ Len(q') = Len(q) - 1
    BY <1>1, RangeTail
<1>3. QueueTypes'
    BY <1>2 DEF QueueInv, QueueTypes
<1>4. /\ \A c \in Callers : call[c].pc = "fill" => call[c].req # Head(q)
      /\ opc = "fill" => Sent # Head(q)
    BY DEF TakeFirst, LooksEmpty
<1>5. PlacesClaimed'
    BY <1>2, <1>4 DEF QueueInv, PlacesClaimed
<1>6. Claiming' = Claiming /\ Signalling' = Signalling
    BY DEF Claiming, Signalling
<1>7. Filled > 0 /\ missed' = IF Filled = 1 THEN 0 ELSE missed
    BY SomeRequest DEF TakeFirst
<1> QED BY <1>2, <1>3, <1>5, <1>6, <1>7, SameCount DEF SB!TakeOne

-----------------------------------------------------------------------------
(* _ls_worker_main. *)

\* What a step of worker w does to the workers.
OnlyWorker(w, r) ==
    /\ wk[w].pc # "exit" /\ wk' = [wk EXCEPT ![w] = r]
    /\ UNCHANGED <<setup, nreq, call, opc>>

LEMMA WorkerPhases ==
    ASSUME QueueInv, NEW w \in Workers, NEW r, OnlyWorker(w, r), WorkerOK(r)
    PROVE  /\ Phases' /\ Claiming' = Claiming /\ Signalling' = Signalling
           /\ Budget' = [Budget EXCEPT ![w] = Left(r)] /\ Budget[w] = Left(wk[w])
<1>1. \A v \in Workers : wk'[v] = IF v = w THEN r ELSE wk[v]
    BY DEF QueueInv, Phases, OnlyWorker
<1>2. ASSUME NEW v \in Workers PROVE WorkerOK(wk[v])'
    <2>1. WorkerOK(wk'[v])
        BY <1>1, Zenon DEF QueueInv, Phases
    <2>2. setup' = setup
        BY DEF OnlyWorker
    <2> QED BY <2>1, <2>2 DEF WorkerOK
<1>3. opc \notin {"down", "scan", "start"}
    BY DEF QueueInv, Phases, OnlyWorker
<1>4. Phases'
    BY <1>2, <1>3 DEF QueueInv, Phases, OnlyWorker
<1>5. Claiming' = Claiming /\ Signalling' = Signalling
    BY DEF OnlyWorker, Claiming, Signalling
<1>6. Budget' = [Budget EXCEPT ![w] = Left(r)] /\ Budget[w] = Left(wk[w])
    <2>1. setup' = setup
        BY DEF OnlyWorker
    <2>2. \A v \in Workers : Left(wk[v])' = Left(wk'[v])
        BY <2>1 DEF Left
    <2>3. Budget' = [v \in Workers |-> Left(wk'[v])]
        BY <2>2 DEF Budget
    <2> QED BY <1>1, <2>3, Zenon DEF Budget
<1> QED BY <1>4, <1>5, <1>6

\* If it leaves the queue alone too, and what the worker may take, the batcher
\* stutters.
LEMMA WorkerElsewhere ==
    ASSUME QueueInv, NEW w \in Workers, NEW r, OnlyWorker(w, r), WorkerOK(r),
           Left(r) = Left(wk[w]), UNCHANGED <<q, efd, missed>>
    PROVE  QueueInv' /\ UNCHANGED SB!batcherVars
<1>1. /\ Phases' /\ Claiming' = Claiming /\ Signalling' = Signalling
      /\ Budget' = [Budget EXCEPT ![w] = Left(r)] /\ Budget[w] = Left(wk[w])
    BY WorkerPhases
<1>2. Budget' = Budget
    BY <1>1, Zenon DEF Budget
<1>3. QueueTypes' /\ PlacesClaimed'
    BY DEF QueueInv, OnlyWorker, QueueTypes, PlacesClaimed
<1>4. setup' = setup
    BY DEF OnlyWorker
<1> QED BY <1>1, <1>2, <1>3, <1>4 DEF QueueInv, SB!batcherVars

\* perf_batcher_next for a worker: a token, entries one by one, and the end
\* of the batch, early only where the ring looks empty.
LEMMA TokenStep ==
    ASSUME QueueInv, NEW w \in Workers, WorkerToken(w)
    PROVE  QueueInv' /\ SB!Await(w)
<1> DEFINE r == [NewWorker EXCEPT !.pc = "draw"]
<1>1. OnlyWorker(w, r) /\ wk[w].pc = "next" /\ efd > 0 /\ efd' = efd - 1 /\ q' = q /\ missed' = missed
    BY DEF WorkerToken, OnlyWorker, cfgVars
<1>2. setup.batch \in Nat \ {0}
    BY SetupsAssumption DEF QueueInv, QueueTypes
<1>3. WorkerOK(r) /\ Left(r) = setup.batch /\ Left(wk[w]) = 0
    BY <1>1, <1>2 DEF NewWorker, IdleWorker, WorkerOK, WorkerFields, Left
<1> HIDE DEF r
<1>4. /\ Phases' /\ Claiming' = Claiming /\ Signalling' = Signalling
      /\ Budget' = [Budget EXCEPT ![w] = setup.batch] /\ Budget[w] = 0
    BY <1>1, <1>3, WorkerPhases
<1>5. QueueTypes' /\ PlacesClaimed'
    BY <1>1 DEF QueueInv, OnlyWorker, QueueTypes, PlacesClaimed
<1>6. setup' = setup
    BY <1>1 DEF OnlyWorker
<1> QED BY <1>1, <1>4, <1>5, <1>6 DEF QueueInv, SB!Await

LEMMA DrawStep ==
    ASSUME QueueInv, NEW w \in Workers, WorkerDraw(w)
    PROVE  QueueInv' /\ SB!Draw(w)
<1> DEFINE r == [wk[w] EXCEPT !.batch = Append(wk[w].batch, Head(q))]
<1>1. /\ OnlyWorker(w, r) /\ wk[w].pc = "draw" /\ Len(wk[w].batch) < setup.batch
      /\ TakeFirst /\ efd' = efd
    BY DEF WorkerDraw, OnlyWorker, cfgVars, QueueInv, Phases
<1>2. /\ q \in Seq(Item) /\ q # <<>> /\ setup.batch \in Nat
      /\ wk[w].batch \in Seq(Item) /\ DOMAIN wk[w] = WorkerFields
    BY <1>1, SetupsAssumption DEF QueueInv, QueueTypes, Phases, WorkerOK, TakeFirst, LooksEmpty
<1>3. /\ Append(wk[w].batch, Head(q)) \in Seq(Item)
      /\ Len(Append(wk[w].batch, Head(q))) = Len(wk[w].batch) + 1 /\ Len(wk[w].batch) \in Nat
    BY <1>2
<1>4. /\ r.pc = "draw" /\ r.batch = Append(wk[w].batch, Head(q)) /\ DOMAIN r = WorkerFields
    BY <1>1, <1>2 DEF WorkerFields
<1> HIDE DEF r
<1>5. WorkerOK(r) /\ Left(r) = Left(wk[w]) - 1 /\ Left(wk[w]) > 0
    BY <1>1, <1>2, <1>3, <1>4 DEF WorkerOK, Left
<1>6. /\ Phases' /\ Budget' = [Budget EXCEPT ![w] = Left(r)] /\ Budget[w] = Left(wk[w])
    BY <1>1, <1>5, WorkerPhases
<1>7. QueueTypes' /\ PlacesClaimed' /\ SB!TakeOne
    BY <1>1, FirstTaken DEF OnlyWorker
<1>8. Budget' = [Budget EXCEPT ![w] = Budget[w] - 1] /\ Budget[w] > 0
    BY <1>5, <1>6
<1> QED BY <1>6, <1>7, <1>8, Zenon DEF QueueInv, SB!Draw

LEMMA DrawnStep ==
    ASSUME QueueInv, NEW w \in Workers, WorkerDrawn(w)
    PROVE  QueueInv' /\ (SB!Leave(w) \/ UNCHANGED SB!batcherVars)
<1> DEFINE r == [wk[w] EXCEPT !.pc = "got"]
<1>1. /\ OnlyWorker(w, r) /\ wk[w].pc = "draw" /\ (LooksEmpty \/ Len(wk[w].batch) = setup.batch)
      /\ missed' = IF wk[w].batch = <<>> /\ Filled > 0 THEN missed + 1 ELSE missed
      /\ q' = q /\ efd' = efd /\ setup' = setup
    BY DEF WorkerDrawn, OnlyWorker, Go, cfgVars, QueueInv, Phases
<1>2. /\ setup.batch \in Nat \ {0} /\ wk[w].batch \in Seq(Item) /\ Len(wk[w].batch) <= setup.batch
      /\ DOMAIN wk[w] = WorkerFields
    BY <1>1, SetupsAssumption DEF QueueInv, QueueTypes, Phases, WorkerOK
<1>3. WorkerOK(r) /\ Left(r) = 0 /\ Left(wk[w]) = setup.batch - Len(wk[w].batch)
    BY <1>1, <1>2 DEF WorkerOK, WorkerFields, Left
<1> HIDE DEF r
<1>4. /\ Phases' /\ Claiming' = Claiming /\ Signalling' = Signalling
      /\ Budget' = [Budget EXCEPT ![w] = 0] /\ Budget[w] = setup.batch - Len(wk[w].batch)
    BY <1>1, <1>3, WorkerPhases
<1>5. QueueInv'
    BY <1>1, <1>4 DEF QueueInv, OnlyWorker, QueueTypes, PlacesClaimed
<1>6. CASE Len(wk[w].batch) = setup.batch
    <2>1. missed' = missed /\ Left(r) = Left(wk[w])
        BY <1>1, <1>2, <1>3, <1>6
    <2> QED BY <1>1, <1>3, <2>1, WorkerElsewhere
<1>7. CASE Len(wk[w].batch) # setup.batch
    <2>1. Budget[w] > 0 /\ (Budget[w] = setup.batch <=> wk[w].batch = <<>>)
        BY <1>2, <1>4, <1>7
    <2>2. Len(q) = 0 \/ Claiming # {}
        BY <1>1, <1>7 DEF LooksEmpty, Claiming
    <2>3. w \in SB!Fresh <=> wk[w].batch = <<>>
        BY <2>1 DEF SB!Fresh
    <2>4. missed' = IF w \in SB!Fresh /\ SB!Filled > 0 THEN missed + 1 ELSE missed
        BY <1>1, <2>3, SameCount
    <2>5. SB!Leave(w)
        BY <1>1, <1>4, <2>1, <2>2, <2>4 DEF SB!Leave
    <2> QED BY <1>5, <2>5
<1> QED BY <1>6, <1>7

\* A step of a worker that is not drawing, before or after, and leaves the
\* queue alone.
Elsewhere(w) ==
    /\ wk' = [wk EXCEPT ![w] = wk'[w]]
    /\ DOMAIN wk'[w] = WorkerFields
    /\ wk[w].pc \notin {"exit", "draw"} /\ wk'[w].pc # "draw"
    /\ UNCHANGED <<setup, nreq, call, opc, q, efd, missed>>

\* All that _ls_worker_main does with a batch once it has it.
LEMMA BatchSteps ==
    ASSUME QueueInv, NEW w \in Workers,
           \/ WorkerInterrupted(w) \/ WorkerIdle(w) \/ WorkerSeek(w) \/ WorkerWrite(w)
           \/ WorkerWriteFails(w) \/ WorkerDbPut(w) \/ WorkerMemPut(w)
           \/ WorkerMemPutOne(w) \/ WorkerSync(w) \/ WorkerFree(w) \/ WorkerPost(w)
    PROVE  Elsewhere(w)
<1>0. wk = [v \in Workers |-> wk[v]] /\ DOMAIN wk[w] = WorkerFields
    BY DEF QueueInv, Phases, WorkerOK
<1> USE DEF Elsewhere, WorkerFields, Go, queueVars, cfgVars
<1>1. CASE WorkerInterrupted(w)
    BY <1>0, <1>1 DEF WorkerInterrupted
<1>2. CASE WorkerIdle(w)
    BY <1>0, <1>2 DEF WorkerIdle, IdleWorker, NewWorker
<1>3. CASE WorkerSeek(w)
    <2>1. PICK ok, end : wk' = [wk EXCEPT ![w].pc = "write", ![w].vec = ok,
                                          ![w].i = 1, ![w].off = end]
        BY <1>3, Zenon DEF WorkerSeek
    <2> QED BY <1>0, <1>3, <2>1, Zenon DEF WorkerSeek
<1>4. CASE WorkerWrite(w)
    BY <1>0, <1>4, Zenon DEF WorkerWrite
<1>5. CASE WorkerWriteFails(w)
    BY <1>0, <1>5 DEF WorkerWriteFails
<1>6. CASE WorkerDbPut(w)
    BY <1>0, <1>6 DEF WorkerDbPut
<1>7. CASE WorkerMemPut(w)
    BY <1>0, <1>7, Zenon DEF WorkerMemPut
<1>8. CASE WorkerMemPutOne(w)
    BY <1>0, <1>8, Zenon DEF WorkerMemPutOne
<1>9. CASE WorkerSync(w)
    BY <1>0, <1>9 DEF WorkerSync
<1>10. CASE WorkerFree(w)
    BY <1>0, <1>10, Zenon DEF WorkerFree
<1>11. CASE WorkerPost(w)
    BY <1>0, <1>11 DEF WorkerPost, IdleWorker, NewWorker
<1> QED BY <1>1, <1>2, <1>3, <1>4, <1>5, <1>6, <1>7, <1>8, <1>9, <1>10, <1>11, Zenon

LEMMA ElsewhereStep ==
    ASSUME QueueInv, NEW w \in Workers, Elsewhere(w)
    PROVE  QueueInv' /\ UNCHANGED SB!batcherVars
<1> DEFINE r == wk'[w]
<1>1. WorkerOK(r) /\ Left(r) = Left(wk[w])
    BY DEF Elsewhere, WorkerOK, Left
<1>2. OnlyWorker(w, r) /\ UNCHANGED <<q, efd, missed>>
    BY DEF Elsewhere, OnlyWorker
<1> HIDE DEF r
<1> QED BY <1>1, <1>2, WorkerElsewhere

\* The final drain of a worker takes entries without tokens.
LEMMA LastStep ==
    ASSUME QueueInv, NEW w \in Workers, WorkerLast(w)
    PROVE  QueueInv' /\ (SB!Drain \/ UNCHANGED SB!batcherVars)
<1>0. wk[w].pc = "last" /\ UNCHANGED <<setup, nreq, call, opc, efd>>
    BY DEF WorkerLast, cfgVars
<1>1. CASE LooksEmpty /\ wk' = [wk EXCEPT ![w] = IdleWorker] /\ UNCHANGED <<q, missed>>
    <2>1. Elsewhere(w)
        BY <1>0, <1>1 DEF Elsewhere, IdleWorker, WorkerFields, QueueInv, Phases
    <2> QED BY <2>1, ElsewhereStep
<1>2. CASE TakeFirst /\ UNCHANGED wk
    <2>1. QueueTypes' /\ PlacesClaimed' /\ SB!TakeOne
        BY <1>0, <1>2, FirstTaken
    <2>2. Phases' /\ Budget' = Budget
        BY <1>0, <1>2 DEF QueueInv, Phases, WorkerOK, Budget, Left
    <2> QED BY <2>1, <2>2, Zenon DEF QueueInv, SB!Drain
<1> QED BY <1>1, <1>2 DEF WorkerLast

LEMMA WorkerRefines ==
    ASSUME QueueInv, NEW w \in Workers, WorkerStep(w) \/ WorkerInterrupted(w)
    PROVE  QueueInv' /\ [SB!BatcherNext]_(SB!batcherVars)
<1>1. CASE WorkerToken(w)
    BY <1>1, TokenStep, Zenon DEF SB!BatcherNext
<1>2. CASE WorkerDraw(w)
    BY <1>2, DrawStep, Zenon DEF SB!BatcherNext
<1>3. CASE WorkerDrawn(w)
    BY <1>3, DrawnStep, Zenon DEF SB!BatcherNext
<1>4. CASE WorkerLast(w)
    BY <1>4, LastStep, Zenon DEF SB!BatcherNext
<1>5. CASE \/ WorkerInterrupted(w) \/ WorkerIdle(w) \/ WorkerSeek(w) \/ WorkerWrite(w)
           \/ WorkerWriteFails(w) \/ WorkerDbPut(w) \/ WorkerMemPut(w)
           \/ WorkerMemPutOne(w) \/ WorkerSync(w) \/ WorkerFree(w) \/ WorkerPost(w)
    BY <1>5, BatchSteps, ElsewhereStep, Zenon
<1> QED BY <1>1, <1>2, <1>3, <1>4, <1>5, Zenon DEF WorkerStep, WorkerQuiet

-----------------------------------------------------------------------------
(* po_logstore_append. *)

\* What a step of caller c does to the callers.
OnlyCaller(c, r) ==
    /\ call' = [call EXCEPT ![c] = r]
    /\ UNCHANGED <<setup, wk, opc, missed>>

LEMMA CallerPhases ==
    ASSUME QueueInv, NEW c \in Callers, NEW r \in CallType, OnlyCaller(c, r),
           call[c].pc # "idle" \/ opc = "open"
    PROVE  /\ Phases' /\ Budget' = Budget /\ setup' = setup /\ missed' = missed
           /\ \A d \in Callers : call'[d] = IF d = c THEN r ELSE call[d]
           /\ call' \in [Callers -> CallType]
<1>1. \A d \in Callers : call'[d] = IF d = c THEN r ELSE call[d]
    BY DEF QueueInv, QueueTypes, OnlyCaller
<1>2. opc = "open"
    BY DEF QueueInv, Phases
<1>3. Phases'
    BY <1>2 DEF QueueInv, Phases, OnlyCaller, WorkerOK
<1>4. Budget' = Budget
    BY DEF OnlyCaller, Budget, Left
<1>5. call' \in [Callers -> CallType]
    BY DEF QueueInv, QueueTypes, OnlyCaller
<1> QED BY <1>1, <1>3, <1>4, <1>5 DEF OnlyCaller

LEMMA AppendRefines ==
    ASSUME QueueInv, NEW c \in Callers, AppendStep(c) \/ \E k \in Keys : AppendStart(c, k)
    PROVE  QueueInv' /\ [SB!BatcherNext]_(SB!batcherVars)
<1>0. call[c] \in CallType /\ Sent \in Item /\ nreq \in Nat /\ q \in Seq(Item) /\ c # Closer
    BY NamesAssumption DEF QueueInv, QueueTypes, Item
<1>1. CASE \E k \in Keys : AppendStart(c, k)
    <2>1. PICK k \in Keys : AppendStart(c, k)
        BY <1>1
    <2> DEFINE r == [pc |-> "put", req |-> [key |-> k, id |-> 0]]
    <2>2. /\ opc = "open" /\ call[c].pc = "idle" /\ OnlyCaller(c, r)
          /\ q' = q /\ efd' = efd /\ nreq' = nreq
        BY <2>1 DEF AppendStart, OnlyCaller, queueVars, cfgVars
    <2>3. r \in CallType /\ r.pc = "put" /\ r.req \in Request
        BY DEF CallType, Item, Request
    <2> HIDE DEF r
    <2>4. /\ Phases' /\ Budget' = Budget /\ setup' = setup /\ missed' = missed
          /\ \A d \in Callers : call'[d] = IF d = c THEN r ELSE call[d]
          /\ call' \in [Callers -> CallType]
        BY <2>2, <2>3, CallerPhases
    <2>5. QueueTypes'
        BY <2>2, <2>3, <2>4 DEF QueueInv, QueueTypes
    <2>6. PlacesClaimed'
        BY <2>2, <2>3, <2>4 DEF QueueInv, PlacesClaimed, OnlyCaller
    <2>7. Claiming' = Claiming /\ Signalling' = Signalling
        BY <2>2, <2>3, <2>4 DEF Claiming, Signalling, OnlyCaller
    <2> QED BY <2>2, <2>4, <2>5, <2>6, <2>7 DEF QueueInv, SB!batcherVars
<1>2. CASE AppendPut(c)
    <2> DEFINE x == [call[c].req EXCEPT !.id = nreq + 1]
               r == [pc |-> "fill", req |-> x]
    <2>1. /\ call[c].pc = "put" /\ Len(q) < setup.cap /\ q' = Append(q, x)
          /\ OnlyCaller(c, r) /\ nreq' = nreq + 1 /\ efd' = efd
        BY <1>2 DEF AppendPut, PutInRing, OnlyCaller, cfgVars
    <2>2. x \in Request /\ x \in Item /\ x.id = nreq + 1
        <3>1. call[c].req \in [key : Keys, id : Nat] /\ nreq + 1 \in Nat
            BY <1>0, <2>1 DEF QueueInv, QueueTypes, Request
        <3>2. x \in [key : Keys, id : Nat] /\ x.id = nreq + 1
            BY <3>1
        <3> QED BY <3>2 DEF Request, Item
    <2> HIDE DEF x
    <2>3. r \in CallType /\ r.pc = "fill" /\ r.req = x
        BY <2>2 DEF CallType
    <2> HIDE DEF r
    <2>4. /\ Phases' /\ Budget' = Budget /\ setup' = setup /\ missed' = missed
          /\ \A d \in Callers : call'[d] = IF d = c THEN r ELSE call[d]
          /\ call' \in [Callers -> CallType]
        BY <2>1, <2>3, CallerPhases
    <2>5. Range(q') = Range(q) \cup {x} /\ q' \in Seq(Item) /\ Len(q') = Len(q) + 1
        BY <1>0, <2>1, <2>2, RangeAppend
    <2>6. QueueTypes'
        BY <1>0, <2>1, <2>3, <2>4, <2>5 DEF QueueInv, QueueTypes
    <2>7. PlacesClaimed'
        <3>1. \A d \in Callers : call[d].pc = "fill" => call[d].req.id \in 0..nreq /\ call[d].req # x
            <4>1. nreq + 1 \notin 0..nreq
                BY <1>0
            <4>2. \A d \in Callers : call[d].pc = "fill" => call[d].req.id \in 0..nreq
                BY Zenon DEF QueueInv, PlacesClaimed
            <4> QED BY <2>2, <4>1, <4>2, Zenon
        <3>2. x.id \in 0..nreq' /\ \A i \in 0..nreq : i \in 0..nreq'
            <4>1. nreq \in Nat /\ nreq' = nreq + 1 /\ x.id = nreq + 1
                BY <1>0, <2>1, <2>2, Zenon
            <4> QED BY <4>1
        <3>3. opc' = opc /\ opc # "fill"
            BY <2>1 DEF OnlyCaller, QueueInv, Phases
        <3> QED BY <2>3, <2>4, <2>5, <3>1, <3>2, <3>3 DEF QueueInv, PlacesClaimed
    <2>8. /\ Claiming' = Claiming \cup {c} /\ Signalling' = Signalling
          /\ c \notin Claiming \cup Signalling
        BY <1>0, <2>1, <2>3, <2>4 DEF Claiming, Signalling, OnlyCaller
    <2>9. SB!Claim(c)
        BY <2>1, <2>4, <2>5, <2>8, Zenon DEF SB!Claim
    <2> QED BY <2>4, <2>6, <2>7, <2>9, Zenon DEF QueueInv, SB!BatcherNext
<1>3. CASE AppendFill(c)
    <2> DEFINE r == [pc |-> "token", req |-> Sent]
    <2>1. call[c].pc = "fill" /\ OnlyCaller(c, r) /\ UNCHANGED <<q, nreq, efd>>
        BY <1>3 DEF AppendFill, OnlyCaller, queueVars, cfgVars
    <2>2. r \in CallType /\ r.pc = "token"
        BY <1>0, Zenon DEF CallType
    <2> HIDE DEF r
    <2>3. /\ Phases' /\ Budget' = Budget /\ setup' = setup /\ missed' = missed
          /\ \A d \in Callers : call'[d] = IF d = c THEN r ELSE call[d]
          /\ call' \in [Callers -> CallType]
        BY <2>1, <2>2, CallerPhases
    <2>4. QueueTypes'
        BY <2>1, <2>2, <2>3 DEF QueueInv, QueueTypes
    <2>5. PlacesClaimed'
        BY <2>1, <2>2, <2>3 DEF QueueInv, PlacesClaimed, OnlyCaller
    <2>6. /\ Claiming' = Claiming \ {c} /\ Signalling' = Signalling \cup {c} /\ c \in Claiming
        BY <1>0, <2>1, <2>2, <2>3 DEF Claiming, Signalling, OnlyCaller
    <2>7. SB!Fill(c)
        BY <2>1, <2>3, <2>6 DEF SB!Fill
    <2> QED BY <2>3, <2>4, <2>5, <2>7, Zenon DEF QueueInv, SB!BatcherNext
<1>4. CASE AppendToken(c)
    <2>1. call[c].pc = "token" /\ OnlyCaller(c, IdleCall) /\ UNCHANGED <<q, nreq>> /\ efd' = efd + 1
        BY <1>4 DEF AppendToken, OnlyCaller, cfgVars
    <2>2. IdleCall \in CallType /\ IdleCall.pc = "idle"
        BY <1>0 DEF CallType, IdleCall
    <2>3. /\ Phases' /\ Budget' = Budget /\ setup' = setup /\ missed' = missed
          /\ \A d \in Callers : call'[d] = IF d = c THEN IdleCall ELSE call[d]
          /\ call' \in [Callers -> CallType]
        BY <2>1, <2>2, CallerPhases
    <2>4. QueueTypes'
        BY <2>1, <2>2, <2>3 DEF QueueInv, QueueTypes
    <2>5. PlacesClaimed'
        BY <2>1, <2>2, <2>3, Zenon DEF QueueInv, PlacesClaimed, OnlyCaller
    <2>6. /\ Signalling' = Signalling \ {c} /\ c \in Signalling /\ Claiming' = Claiming
        BY <1>0, <2>1, <2>2, <2>3 DEF Claiming, Signalling, OnlyCaller
    <2>7. SB!Signal(c)
        BY <2>1, <2>3, <2>6 DEF SB!Signal
    <2> QED BY <2>3, <2>4, <2>5, <2>7, Zenon DEF QueueInv, SB!BatcherNext
<1> QED BY <1>1, <1>2, <1>3, <1>4, Zenon DEF AppendStep

-----------------------------------------------------------------------------
(* Opening, closing and crashes. *)

\* Steps that leave threads and queue alone.
LEMMA QuietRefines ==
    ASSUME QueueInv, UNCHANGED <<setup, nreq, call, wk, q, efd, missed>>,
           \/ opc' = opc
           \/ opc \in {"down", "scan"} /\ opc' \in {"scan", "start"}
           \/ opc = "open" /\ opc' = "mark" /\ \A c \in Callers : call[c].pc = "idle"
           \/ opc = "mark" /\ opc' = "put"
           \/ opc = "put" /\ opc' = "join"
    PROVE  QueueInv' /\ UNCHANGED SB!batcherVars
<1>1. QueueTypes' /\ PlacesClaimed'
    BY DEF QueueInv, QueueTypes, PlacesClaimed
<1>2. Phases'
    BY DEF QueueInv, Phases, WorkerOK
<1>3. Budget' = Budget /\ Claiming' = Claiming /\ Signalling' = Signalling
    BY DEF Budget, Left, Claiming, Signalling
<1> QED BY <1>1, <1>2, <1>3 DEF QueueInv, SB!batcherVars

\* The workers start, or those that did are told to stop again.
LEMMA StartRefines ==
    ASSUME QueueInv, StartWorkers
    PROVE  QueueInv' /\ UNCHANGED SB!batcherVars
<1>1. PICK started : wk' = [w \in Workers |-> IF w \in started THEN NewWorker ELSE IdleWorker]
    BY DEF StartWorkers
<1>2. opc = "start" /\ opc' \in {"open", "mark"} /\ UNCHANGED <<setup, nreq, call, q, efd, missed>>
    BY DEF StartWorkers, queueVars, cfgVars
<1>3. /\ DOMAIN NewWorker = WorkerFields /\ NewWorker.pc = "next"
      /\ DOMAIN IdleWorker = WorkerFields /\ IdleWorker.pc = "exit"
    BY DEF WorkerFields, NewWorker, IdleWorker
<1>4. \A w \in Workers : DOMAIN wk'[w] = WorkerFields /\ wk'[w].pc \in {"next", "exit"}
    BY <1>1, <1>3
<1>5. QueueTypes' /\ PlacesClaimed'
    BY <1>2 DEF QueueInv, QueueTypes, PlacesClaimed
<1>6. Phases'
    BY <1>1, <1>2, <1>4 DEF QueueInv, Phases, WorkerOK
<1>7. Budget' = Budget
    BY <1>2, <1>4 DEF QueueInv, Phases, Budget, Left
<1>8. Claiming' = Claiming /\ Signalling' = Signalling
    BY <1>2 DEF Claiming, Signalling
<1> QED BY <1>2, <1>5, <1>6, <1>7, <1>8 DEF QueueInv, SB!batcherVars

\* What a step of po_logstore_close leaves alone.
OnlyCloser == UNCHANGED <<setup, nreq, call, wk, missed>>

LEMMA CloserPhases ==
    ASSUME QueueInv, OnlyCloser, opc \in {"put", "fill", "token"}, opc' \in {"fill", "token", "join"}
    PROVE  /\ Phases' /\ Budget' = Budget /\ setup' = setup /\ missed' = missed
           /\ \A c \in Callers : call[c].pc = "idle" /\ call'[c].pc = "idle"
<1>1. \A c \in Callers : call[c].pc = "idle"
    BY DEF QueueInv, Phases
<1>2. Phases'
    BY DEF QueueInv, OnlyCloser, Phases, WorkerOK
<1>3. Budget' = Budget
    BY DEF OnlyCloser, Budget, Left
<1> QED BY <1>1, <1>2, <1>3 DEF OnlyCloser

\* po_logstore_close queues its sentinel as an append does its request.
LEMMA CloseRefines ==
    ASSUME QueueInv, CloseStep
    PROVE  QueueInv' /\ [SB!BatcherNext]_(SB!batcherVars)
<1>0. q \in Seq(Item) /\ Sent \in Item /\ Closer \notin Callers
    BY NamesAssumption DEF QueueInv, QueueTypes, Item
<1>1. CASE CloseMark
    BY <1>1, QuietRefines DEF CloseMark, queueVars, cfgVars
<1>2. CASE ClosePut
    <2>1. opc = "put" /\ OnlyCloser /\ efd' = efd
        BY <1>2 DEF ClosePut, OnlyCloser, cfgVars
    <2>2. CASE Len(q) < setup.cap /\ q' = Append(q, Sent) /\ opc' = "fill"
        <3>1. /\ Phases' /\ Budget' = Budget /\ setup' = setup /\ missed' = missed
              /\ \A c \in Callers : call[c].pc = "idle" /\ call'[c].pc = "idle"
            BY <2>1, <2>2, CloserPhases
        <3>2. Range(q') = Range(q) \cup {Sent} /\ q' \in Seq(Item) /\ Len(q') = Len(q) + 1
            BY <1>0, <2>2, RangeAppend
        <3>3. QueueTypes' /\ PlacesClaimed'
            BY <2>1, <3>1, <3>2 DEF OnlyCloser, QueueInv, QueueTypes, PlacesClaimed
        <3>4. /\ Claiming' = Claiming \cup {Closer} /\ Signalling' = Signalling
              /\ Closer \notin Claiming \cup Signalling
            BY <1>0, <2>1, <2>2, <3>1, Zenon DEF Claiming, Signalling
        <3>5. SB!Claim(Closer)
            BY <2>1, <2>2, <3>1, <3>2, <3>4 DEF SB!Claim
        <3> QED BY <3>1, <3>3, <3>5, Zenon DEF QueueInv, SB!BatcherNext
    <2>3. CASE UNCHANGED q /\ opc' = "join"
        BY <2>1, <2>3, QuietRefines DEF OnlyCloser
    <2> QED BY <1>2, <2>2, <2>3, Zenon DEF ClosePut
<1>3. CASE CloseFill
    <2>1. opc = "fill" /\ opc' = "token" /\ OnlyCloser /\ UNCHANGED <<q, efd>>
        BY <1>3 DEF CloseFill, OnlyCloser, queueVars, cfgVars
    <2>2. /\ Phases' /\ Budget' = Budget /\ setup' = setup /\ missed' = missed
          /\ \A c \in Callers : call[c].pc = "idle" /\ call'[c].pc = "idle"
        BY <2>1, CloserPhases
    <2>3. QueueTypes' /\ PlacesClaimed'
        BY <2>1, <2>2 DEF OnlyCloser, QueueInv, QueueTypes, PlacesClaimed
    <2>4. /\ Claiming' = Claiming \ {Closer} /\ Signalling' = Signalling \cup {Closer}
          /\ Closer \in Claiming
        BY <1>0, <2>1, <2>2 DEF Claiming, Signalling
    <2>5. SB!Fill(Closer)
        BY <2>1, <2>2, <2>4, Zenon DEF SB!Fill
    <2> QED BY <2>2, <2>3, <2>5, Zenon DEF QueueInv, SB!BatcherNext
<1>4. CASE CloseToken
    <2>1. opc = "token" /\ opc' = "join" /\ OnlyCloser /\ q' = q /\ efd' = efd + 1
        BY <1>4 DEF CloseToken, OnlyCloser, cfgVars
    <2>2. /\ Phases' /\ Budget' = Budget /\ setup' = setup /\ missed' = missed
          /\ \A c \in Callers : call[c].pc = "idle" /\ call'[c].pc = "idle"
        BY <2>1, CloserPhases
    <2>3. QueueTypes' /\ PlacesClaimed'
        BY <2>1, <2>2 DEF OnlyCloser, QueueInv, QueueTypes, PlacesClaimed
    <2>4. Signalling' = Signalling \ {Closer} /\ Closer \in Signalling /\ Claiming' = Claiming
        BY <1>0, <2>1, <2>2, Zenon DEF Claiming, Signalling
    <2>5. SB!Signal(Closer)
        BY <2>1, <2>2, <2>4 DEF SB!Signal
    <2> QED BY <2>2, <2>3, <2>5, Zenon DEF QueueInv, SB!BatcherNext
<1>5. CASE CloseJoined
    <2>1. /\ opc = "join" /\ opc' = "down" /\ q' = <<>> /\ efd' = 0 /\ missed' = 0
          /\ UNCHANGED <<setup, nreq, call, wk>> /\ \A w \in Workers : wk[w].pc = "exit"
        BY <1>5 DEF CloseJoined, cfgVars
    <2>2. \A c \in Callers : call[c].pc = "idle"
        BY <2>1 DEF QueueInv, Phases
    <2>3. QueueTypes' /\ PlacesClaimed'
        BY <2>1, <2>2 DEF QueueInv, QueueTypes, PlacesClaimed
    <2>4. Phases'
        BY <2>1, <2>2 DEF QueueInv, Phases, WorkerOK
    <2>5. Claiming' = {} /\ Signalling' = {} /\ Len(q') = 0
        BY <2>1, <2>2 DEF Claiming, Signalling
    <2>6. Budget' = [w \in Workers |-> 0]
        BY <2>1 DEF Budget, Left
    <2>7. SB!Discard
        BY <2>1, <2>5, <2>6 DEF SB!Discard
    <2> QED BY <2>3, <2>4, <2>7, Zenon DEF QueueInv, SB!BatcherNext
<1> QED BY <1>1, <1>2, <1>3, <1>4, <1>5, Zenon DEF CloseStep

\* The process dies.
LEMMA HaltRefines ==
    ASSUME QueueInv, Halted
    PROVE  QueueInv' /\ [SB!BatcherNext]_(SB!batcherVars)
<1>1. /\ opc' = "down" /\ q' = <<>> /\ efd' = 0 /\ missed' = 0 /\ UNCHANGED <<setup, nreq>>
      /\ call' = [c \in Callers |-> IdleCall] /\ wk' = [w \in Workers |-> IdleWorker]
    BY DEF Halted
<1>2. /\ IdleCall \in CallType /\ IdleCall.pc = "idle"
      /\ DOMAIN IdleWorker = WorkerFields /\ IdleWorker.pc = "exit"
    BY Zenon DEF IdleCall, CallType, Item, IdleWorker, WorkerFields
<1>3. QueueTypes' /\ PlacesClaimed'
    BY <1>1, <1>2 DEF QueueInv, QueueTypes, PlacesClaimed
<1>4. Phases'
    BY <1>1, <1>2 DEF Phases, WorkerOK
<1>5. Claiming' = {} /\ Signalling' = {} /\ Len(q') = 0
    BY <1>1, <1>2 DEF Claiming, Signalling
<1>6. Budget' = [w \in Workers |-> 0]
    BY <1>1, <1>2 DEF Budget, Left
<1>7. SB!Discard
    BY <1>1, <1>5, <1>6 DEF SB!Discard
<1> QED BY <1>3, <1>4, <1>7, Zenon DEF QueueInv, SB!BatcherNext

-----------------------------------------------------------------------------

\* Every step of the store is a step of the batcher or leaves it alone.
LEMMA StoreRefines ==
    QueueInv /\ [StoreNext]_storeVars => QueueInv' /\ [SB!BatcherNext]_(SB!batcherVars)
<1> DEFINE Goal == QueueInv' /\ [SB!BatcherNext]_(SB!batcherVars)
<1> SUFFICES ASSUME QueueInv, [StoreNext]_storeVars PROVE Goal
    OBVIOUS
<1>1. CASE StartWorkers
    BY <1>1, StartRefines
<1>2. CASE CloseStep
    BY <1>2, CloseRefines
<1>3. CASE Kill \/ PowerLoss
    BY <1>3, HaltRefines DEF Kill, PowerLoss
<1>4. ASSUME NEW c \in Callers, AppendStep(c) \/ \E k \in Keys : AppendStart(c, k) PROVE Goal
    BY <1>4, AppendRefines
<1>5. ASSUME NEW w \in Workers, WorkerStep(w) \/ WorkerInterrupted(w) PROVE Goal
    BY <1>5, WorkerRefines
<1>6. CASE Open \/ ScanRecord \/ ScanEnd \/ FsyncTick \/ CloseStart
    BY <1>6, QuietRefines, Zenon
       DEF Open, ScanRecord, ScanEnd, FsyncTick, CloseStart, NobodyElse, queueVars, cfgVars
<1>7. ASSUME NEW g \in Getters, GetStep(g) \/ \E k \in Keys : GetMem(g, k) PROVE Goal
    BY <1>7, QuietRefines DEF GetStep, GetMem, GetDb, GetFill, GetRead, queueVars, cfgVars
<1>8. CASE CheckStart \/ CheckStep
    BY <1>8, QuietRefines, Zenon
       DEF CheckStart, CheckStep, CheckSnap, CheckEntry, CheckForget, CheckEnd, queueVars, cfgVars
<1>9. CASE UNCHANGED storeVars
    BY <1>9, QuietRefines, Zenon DEF storeVars
<1> QED BY <1>1, <1>2, <1>3, <1>4, <1>5, <1>6, <1>7, <1>8, <1>9, Zenon DEF StoreNext, OpenStep

\* In the pipeline the store takes its own steps and no others: the logger
\* calls po_logstore_append, and never touches the queue itself.
LEMMA PipeStepIsStoreStep == QueueInv /\ [PipeNext]_pipeVars => [StoreNext]_storeVars
<1> SUFFICES ASSUME QueueInv, [PipeNext]_pipeVars PROVE [StoreNext]_storeVars
    OBVIOUS
<1> DEFINE k0 == CHOOSE k \in Keys : TRUE
<1>0. k0 \in Keys
    BY NamesAssumption
<1> HIDE DEF k0
<1>1. ASSUME NEW t \in Loggers \cup {Consumer}, WriteRecord(t) PROVE [StoreNext]_storeVars
    <2>1. AppendStart(t, k0) \/ UNCHANGED storeVars
        BY <1>1 DEF WriteRecord, k0
    <2> QED BY <1>0, <2>1, UseAssumption, Zenon DEF StoreNext
<1>2. ASSUME NEW t \in Loggers, Log(t) \/ LogGoes(t) \/ LogSyncs(t) PROVE [StoreNext]_storeVars
    BY <1>1, <1>2 DEF Log, LogGoes, LogSyncs
<1>3. CASE Drain \/ StopLogger \/ LoggerStopping
    BY <1>1, <1>3 DEF Drain, StopLogger, LoggerStopping
<1>4. CASE OpenStore \/ StoreOpening \/ CloseStore \/ StoreClosing
    BY <1>4 DEF OpenStore, StoreOpening, CloseStore, StoreClosing, StoreNext
<1>5. ASSUME NEW c \in Callers, Client(c) \/ Appending(c) PROVE [StoreNext]_storeVars
    <2>1. setup.keys \subseteq Keys
        BY UseAssumption DEF QueueInv, QueueTypes
    <2>2. AppendStep(c) \/ \E k \in Keys : AppendStart(c, k)
        BY <1>5, <2>1 DEF Client, Appending
    <2> QED BY <2>2, Zenon DEF StoreNext
<1>6. ASSUME NEW w \in Workers, StoreWorks(w) \/ (WorkerInterrupted(w) /\ UNCHANGED logVars)
      PROVE  [StoreNext]_storeVars
    BY <1>6, Zenon DEF StoreWorks, WorkerStep, StoreNext
<1>7. ASSUME NEW g \in Getters, Read(g) PROVE [StoreNext]_storeVars
    BY <1>7 DEF Read, StoreNext
<1>8. CASE (FsyncTick /\ UNCHANGED logVars) \/ Check \/ Crash
    BY <1>8 DEF Check, Crash, StoreNext
<1>9. CASE UNCHANGED pipeVars
    BY <1>9 DEF pipeVars
<1> QED BY <1>2, <1>3, <1>4, <1>5, <1>6, <1>7, <1>8, <1>9 DEF PipeNext

-----------------------------------------------------------------------------
(* The logger of the pipeline is the logger. *)

\* What the store does leaves the logger alone, except that its flush worker
\* may log, and a sink that blocks only delays the logger's own steps.
LEMMA PipeStepIsLoggerStep == [PipeNext]_pipeVars => [LoggerNext]_logVars
<1> SUFFICES ASSUME [PipeNext]_pipeVars PROVE [LoggerNext]_logVars
    OBVIOUS
<1>1. CASE \E t \in Loggers : Log(t) \/ LogGoes(t) \/ LogSyncs(t)
    BY <1>1, Zenon DEF Log, LogGoes, LogSyncs, SyncStep, LoggerNext
<1>2. CASE Drain \/ StopLogger \/ LoggerStopping
    BY <1>2, Zenon DEF Drain, StopLogger, LoggerStopping, WriteStep, LoggerNext
<1>3. CASE OpenStore \/ StoreOpening \/ CloseStore \/ StoreClosing
    BY <1>3 DEF OpenStore, StoreOpening, CloseStore, StoreClosing
<1>4. CASE \E c \in Callers : Client(c) \/ Appending(c)
    BY <1>4, Zenon DEF Client, Appending
<1>5. CASE \E w \in Workers : StoreWorks(w) \/ (WorkerInterrupted(w) /\ UNCHANGED logVars)
    BY <1>5, UseAssumption, Zenon DEF StoreWorks, LoggerNext
<1>6. CASE (\E g \in Getters : Read(g)) \/ Check \/ (FsyncTick /\ UNCHANGED logVars) \/ Crash
    BY <1>6 DEF Read, Check, Crash
<1>7. CASE UNCHANGED pipeVars
    BY <1>7 DEF pipeVars
<1> QED BY <1>1, <1>2, <1>3, <1>4, <1>5, <1>6, <1>7 DEF PipeNext

\* The records of the logger stay apart and find room (PoolFits) with the
\* store attached as a sink, which blocks and whose flush worker logs too.
THEOREM SinkKeepsPool == PipeSpec => []PoolFits
<1>1. PipeInit => PoolInv
    BY InitPool DEF PipeInit
<1>2. PoolInv => PoolFits
    BY InvFits
<1> QED BY <1>1, <1>2, StepPool, PipeStepIsLoggerStep, PTL DEF PipeSpec

-----------------------------------------------------------------------------
(* Both queues are a batcher's. *)

\* po_logstore_append, the workers and po_logstore_close use the queue as
\* perf/batcher.c is meant to be used, whatever fails and whenever the process
\* dies, for any number of callers and workers and any sizes.
THEOREM StoreUsesBatcher == StoreSpec => SB!BatcherSpec
<1>1. StoreInit => QueueInv /\ SB!BatcherInit
    BY InitQueue
<1> QED BY <1>1, StoreRefines, PTL DEF StoreSpec, SB!BatcherSpec

\* The same with the logger in front, and of the logger's own ring: whatever
\* the store and its worker do to the logger, and whoever writes to the sink,
\* both queues are a batcher's.
THEOREM PipelineUsesBatcher == PipeSpec => QueueIsBatcher
<1>1. PipeInit => /\ QueueInv /\ SB!BatcherInit
                  /\ PoolInv /\ Claims /\ LB!BatcherInit
    BY InitQueue, InitPool, InitBatcher, Zenon DEF PipeInit
<1>2. QueueInv /\ [PipeNext]_pipeVars => [StoreNext]_storeVars /\ [LoggerNext]_logVars
    BY PipeStepIsStoreStep, PipeStepIsLoggerStep, Zenon
<1> QED BY <1>1, <1>2, StoreRefines, StepPool, LoggerRefines, PTL
        DEF PipeSpec, QueueIsBatcher, SB!BatcherSpec, LB!BatcherSpec

SBP == INSTANCE BatcherProofs WITH
    Producers <- Callers \cup {Closer}, Consumers <- Workers,
    cap <- setup.cap, batch <- setup.batch, len <- Len(q), claiming <- Claiming,
    signalling <- Signalling, tokens <- efd, budget <- Budget

LBP == INSTANCE BatcherProofs WITH
    Producers <- Loggers \cup {Stopper}, Consumers <- {"worker_main"},
    cap <- LCap, batch <- LBatch, len <- Len(lring), claiming <- LClaiming,
    signalling <- LSignalling, tokens <- lefd, budget <- LBudget, missed <- lmissed

\* What is proved of Batcher holds of the store's queue.
LEMMA StoreBatcherStrandsNothing == SB!BatcherSpec => []SB!NothingStranded
<1>1. SBP!BatcherSpec => []SBP!NothingStranded
    BY SBP!BatcherStrandsNothing
<1>2. SBP!Filled = SB!Filled /\ SBP!Fresh = SB!Fresh
    BY DEF SBP!Filled, SB!Filled, SBP!Cardinality, SB!Cardinality, SBP!Fresh, SB!Fresh
<1>3. SBP!NothingStranded <=> SB!NothingStranded
    BY <1>2, Zenon DEF SBP!NothingStranded, SB!NothingStranded
<1>4. SBP!BatcherInit <=> SB!BatcherInit
    BY Zenon DEF SBP!BatcherInit, SB!BatcherInit
<1>5. SBP!TakeOne <=> SB!TakeOne
    BY <1>2, Zenon DEF SBP!TakeOne, SB!TakeOne
<1>6. ASSUME NEW c PROVE (SBP!Draw(c) <=> SB!Draw(c)) /\ (SBP!Leave(c) <=> SB!Leave(c))
    BY <1>2, <1>5, Zenon DEF SBP!Draw, SB!Draw, SBP!Leave, SB!Leave
<1>7. [SB!BatcherNext]_(SB!batcherVars) => [SBP!BatcherNext]_(SBP!batcherVars)
    BY <1>5, <1>6, Zenon
       DEF SB!BatcherNext, SB!batcherVars, SBP!BatcherNext, SBP!batcherVars,
           SB!Claim, SB!Fill, SB!Signal, SB!FillSilently, SB!Await, SB!Drain, SB!Discard,
           SBP!Claim, SBP!Fill, SBP!Signal, SBP!FillSilently, SBP!Await, SBP!Drain, SBP!Discard
<1> QED BY <1>1, <1>3, <1>4, <1>7, PTL DEF SB!BatcherSpec, SBP!BatcherSpec

\* And of the logger's.
LEMMA LoggerBatcherStrandsNothing == LB!BatcherSpec => []LB!NothingStranded
<1>1. LBP!BatcherSpec => []LBP!NothingStranded
    BY LBP!BatcherStrandsNothing
<1>2. LBP!Filled = LB!Filled /\ LBP!Fresh = LB!Fresh
    BY DEF LBP!Filled, LB!Filled, LBP!Cardinality, LB!Cardinality, LBP!Fresh, LB!Fresh
<1>3. LBP!NothingStranded <=> LB!NothingStranded
    BY <1>2, Zenon DEF LBP!NothingStranded, LB!NothingStranded
<1>4. LBP!BatcherInit <=> LB!BatcherInit
    BY Zenon DEF LBP!BatcherInit, LB!BatcherInit
<1>5. LBP!TakeOne <=> LB!TakeOne
    BY <1>2, Zenon DEF LBP!TakeOne, LB!TakeOne
<1>6. ASSUME NEW c PROVE (LBP!Draw(c) <=> LB!Draw(c)) /\ (LBP!Leave(c) <=> LB!Leave(c))
    BY <1>2, <1>5, Zenon DEF LBP!Draw, LB!Draw, LBP!Leave, LB!Leave
<1>7. [LB!BatcherNext]_(LB!batcherVars) => [LBP!BatcherNext]_(LBP!batcherVars)
    BY <1>5, <1>6, Zenon
       DEF LB!BatcherNext, LB!batcherVars, LBP!BatcherNext, LBP!batcherVars,
           LB!Claim, LB!Fill, LB!Signal, LB!FillSilently, LB!Await, LB!Drain, LB!Discard,
           LBP!Claim, LBP!Fill, LBP!Signal, LBP!FillSilently, LBP!Await, LBP!Drain, LBP!Discard
<1> QED BY <1>1, <1>3, <1>4, <1>7, PTL DEF LB!BatcherSpec, LBP!BatcherSpec

\* Nothing is left in the queue of the store or in the ring of the logger with
\* the consumers asleep, nobody about to signal and no token, unless a token
\* was spent behind an unfilled place or a notice was queued without one: an
\* append needs no later append, and a message no later message, to move on.
THEOREM PipelineStrandsNothing == PipeSpec => [](SB!NothingStranded /\ LB!NothingStranded)
BY PipelineUsesBatcher, StoreBatcherStrandsNothing, LoggerBatcherStrandsNothing, PTL
   DEF QueueIsBatcher
=============================================================================
