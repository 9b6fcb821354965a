------------------------------- MODULE LogStore ------------------------------
(***************************************************************************)
(* storage/logstore.c, logstore_worker.c and logstore_rebuild.c: an        *)
(* append-only file with an index from keys to offsets. Appends queue a    *)
(* copy of the record in a ring and return; flush workers take batches,    *)
(* write them at the end of the file and enter them into LMDB and into an  *)
(* index in memory, which po_logstore_get consults first. Close stops the  *)
(* workers with a sentinel; an open after a crash may scan the file again. *)
(*                                                                         *)
(* Data: a request is a key and a number, which stands for its value. A    *)
(* record is two cells of the file, first the lengths and the key, then    *)
(* the value: a write cut short anywhere leaves a record without its       *)
(* second cell. All values have the same length, so that the length check  *)
(* of po_logstore_get never helps. LMDB is a map whose commits are atomic  *)
(* and durable.                                                            *)
(***************************************************************************)
EXTENDS Integers, Sequences, Functions, FiniteSets

CONSTANTS
    Callers,    \* threads that append
    Getters,    \* threads that get
    Closer,     \* the thread that opens and closes the store
    Workers,    \* flush workers (cfg->workers)
    Keys,
    EveryN,     \* cfg->fsync_every_n
    Setups,     \* configurations (cfg) and the faults considered with each
    Sent,       \* the sentinel
    NoKey,      \* no key
    MaxAppends, \* bound: requests in a behaviour
    MaxOpens    \* bound: times the store is opened

Policies == {"none", "each", "everyN", "interval", "background"}
Faults == {"kill", "power", "fail", "short", "seek", "put", "novec", "intr",
           "scan", "start", "check"}

\* cap, batch: cfg->ring_capacity and batch_size; rebuild, truncate:
\* rebuild_on_open and truncate_on_rebuild; appends bounds the requests.
\* faults: "kill" (the process dies), "power" (what is not synced may be
\* lost too), "fail" (the write of a batch fails), "short" (a write is cut
\* short; one without vectors may write nothing), "seek" (the end of the file
\* is not found), "put" (an index does not take an entry), "novec" (the
\* vectors of the batch cannot be allocated), "intr" (a signal interrupts the
\* event read), "scan" (the scan at open cannot read or allocate), "start" (a
\* worker cannot be started); "check" stands for the use of the integrity
\* scan.
ASSUME SetupsAssumption ==
    \A s \in Setups : /\ s.faults \subseteq Faults /\ s.policy \in Policies
                      /\ s.rebuild \in BOOLEAN /\ s.truncate \in BOOLEAN
                      /\ s.cap \in Nat /\ s.batch \in Nat \ {0}
                      /\ s.appends \in 0..MaxAppends

ASSUME NamesAssumption == Closer \notin Callers /\ Keys # {}

Req == [key : Keys, id : 0..MaxAppends]
NoOff == -1

VARIABLES
    setup,        \* po_logstore_cfg, and the faults of this behaviour
    opc, cursor,  \* the opening and closing thread; the scan's position
    opens, nreq,  \* counters for the bounds
    q, efd,       \* ring and eventfd of the batcher
    missed,       \* history: entries of the ring that may be without a token
    running, sentinel, outstanding, since,  \* fields of struct po_logstore
    file, durable,                          \* aof.log; cells known to be synced
    db, mem,                                \* LMDB bucket; in-memory index
    call,         \* [pc, req] of each caller
    wk,           \* [pc, batch, i, off, vec] of each worker
    get,          \* [pc, key, off] of each getter
    chk           \* [pc, end, snap, left, cut, quiet] of the integrity scan

cfgVars == <<setup, opens>>
queueVars == <<q, efd, missed>>
stateVars == <<running, sentinel, outstanding, since>>
diskVars == <<file, durable, db>>
storeVars == <<setup, opc, cursor, opens, nreq, q, efd, missed, running, sentinel,
               outstanding, since, file, durable, db, mem, call, wk, get, chk>>

IdleCall == [pc |-> "idle", req |-> Sent]
IdleWorker == [pc |-> "exit", batch |-> <<>>, i |-> 0, off |-> 0, vec |-> TRUE]
NewWorker == [IdleWorker EXCEPT !.pc = "next"]
IdleGet == [pc |-> "idle", key |-> NoKey, off |-> NoOff]
Empty == [k \in Keys |-> NoOff]
NoCheck == [pc |-> "idle", end |-> 0, snap |-> Empty, left |-> {}, cut |-> NoKey,
            quiet |-> TRUE]

StoreInit ==
    /\ setup \in Setups
    /\ opc = "down" /\ cursor = 0 /\ opens = 0 /\ nreq = 0
    /\ q = <<>> /\ efd = 0 /\ missed = 0
    /\ running = FALSE /\ sentinel = FALSE /\ outstanding = 0 /\ since = 0
    /\ file = <<>> /\ durable = 0 /\ db = Empty /\ mem = Empty
    /\ call = [c \in Callers |-> IdleCall]
    /\ wk = [w \in Workers |-> IdleWorker]
    /\ get = [g \in Getters |-> IdleGet]
    /\ chk = NoCheck

-----------------------------------------------------------------------------
(* The file. *)

Record(r) == <<[req |-> r, part |-> "head"], [req |-> r, part |-> "value"]>>

Cells(reqs) == [i \in 1..(2 * Len(reqs)) |-> Record(reqs[(i + 1) \div 2])[1 + ((i + 1) % 2)]]

\* pwrite(2): cells land at off whatever was there.
WriteAt(f, off, cells) ==
    SubSeq(f, 1, off) \o cells \o SubSeq(f, off + Len(cells) + 1, Len(f))

\* The record of key k is complete at off.
Holds(f, k, off) ==
    /\ off \in 0..(Len(f) - 2)
    /\ f[off + 1].part = "head"
    /\ f[off + 1].req.key = k
    /\ f[off + 2] = [req |-> f[off + 1].req, part |-> "value"]

-----------------------------------------------------------------------------
(* Opening: po_logstore_open_cfg and _ls_rebuild_on_open. *)

Open ==
    /\ opc = "down" /\ opens < MaxOpens
    /\ opens' = opens + 1
    /\ mem' = db                                    \* preload_cb
    /\ running' = TRUE /\ since' = 0
    /\ cursor' = 0
    /\ opc' = IF setup.rebuild THEN "scan" ELSE "start"
    /\ UNCHANGED <<setup, nreq, sentinel, outstanding, call, wk, get, chk>>
    /\ UNCHANGED <<queueVars, diskVars>>

\* db_put or po_index_put: a failure is ignored.
Put(ix, k, off) == {[ix EXCEPT ![k] = off]} \cup (IF "put" \in setup.faults THEN {ix} ELSE {})

\* A mutant: the scan enters the record into LMDB only.
ScanRecordDb ==
    /\ opc = "scan" /\ cursor + 2 <= Len(file)
    /\ \/ /\ file[cursor + 1].part = "head"
          /\ db' \in Put(db, file[cursor + 1].req.key, cursor)
          /\ cursor' = cursor + 2
       \/ /\ file[cursor + 1].part = "value"
          /\ cursor' \in (cursor + 1)..Len(file)
          /\ UNCHANGED db
    /\ UNCHANGED <<setup, opc, opens, nreq, file, durable, mem, call, wk, get, chk>>
    /\ UNCHANGED <<queueVars, stateVars>>

\* A record at the cursor is indexed if the file is long enough for it: what
\* stands where its value should be is not looked at. Bytes of a value that
\* are read as lengths and key may make up a record of any length, whose key
\* is none of Keys.
ScanRecord ==
    /\ opc = "scan" /\ cursor + 2 <= Len(file)
    /\ \/ /\ file[cursor + 1].part = "head"
          /\ db' \in Put(db, file[cursor + 1].req.key, cursor)
          /\ mem' \in Put(mem, file[cursor + 1].req.key, cursor)
          /\ cursor' = cursor + 2
       \/ /\ file[cursor + 1].part = "value"
          /\ cursor' \in (cursor + 1)..Len(file)
          /\ UNCHANGED <<db, mem>>
    /\ UNCHANGED <<setup, opc, opens, nreq, file, durable, call, wk, get, chk>>
    /\ UNCHANGED <<queueVars, stateVars>>

\* The scan is over at the end of the file, at a record that is cut off, at
\* lengths that cannot be, or where a read or an allocation fails. With
\* truncate_on_rebuild the file is cut there, unless that fails too.
ScanEnd ==
    /\ opc = "scan"
    /\ cursor + 2 <= Len(file) => file[cursor + 1].part = "value" \/ "scan" \in setup.faults
    /\ \/ /\ setup.truncate
          /\ file' = SubSeq(file, 1, cursor)
          /\ durable' = IF durable > cursor THEN cursor ELSE durable
       \/ /\ setup.truncate => "scan" \in setup.faults
          /\ UNCHANGED <<file, durable>>
    /\ opc' = "start"
    /\ UNCHANGED <<setup, cursor, opens, nreq, db, mem, call, wk, get, chk>>
    /\ UNCHANGED <<queueVars, stateVars>>

\* The workers are started; if one cannot be, po_logstore_close stops those
\* that run. (Failures before this one, and of the worker's own allocation,
\* are left out.)
StartWorkers ==
    /\ opc = "start"
    /\ \E started \in IF "start" \in setup.faults THEN SUBSET Workers ELSE {Workers} :
        /\ wk' = [w \in Workers |-> IF w \in started THEN NewWorker ELSE IdleWorker]
        /\ running' = (started = Workers)
        /\ opc' = IF started = Workers THEN "open" ELSE "mark"
    /\ UNCHANGED <<cursor, nreq, sentinel, outstanding, since, mem, call, get, chk>>
    /\ UNCHANGED <<cfgVars, queueVars, diskVars>>

-----------------------------------------------------------------------------
(* po_logstore_append. *)

\* The test of running, the copy of the record and its count. A request has
\* no number yet.
AppendStart(c, k) ==
    /\ opc = "open" /\ running /\ chk.pc = "idle"
    /\ call[c].pc = "idle"
    /\ nreq + Cardinality({d \in Callers : call[d].pc = "put"}) < setup.appends
    /\ call' = [call EXCEPT ![c] = [pc |-> "put", req |-> [key |-> k, id |-> 0]]]
    /\ outstanding' = outstanding + 1
    /\ UNCHANGED <<opc, cursor, nreq, running, sentinel, since, mem, wk, get, chk>>
    /\ UNCHANGED <<cfgVars, queueVars, diskVars>>

\* The caller claims a place for its request, which is numbered by it.
PutInRing(c) ==
    LET r == [call[c].req EXCEPT !.id = nreq + 1] IN
    /\ Len(q) < setup.cap
    /\ q' = Append(q, r)
    /\ nreq' = nreq + 1
    /\ call' = [call EXCEPT ![c] = [pc |-> "fill", req |-> r]]

\* A mutant: the consumer is signalled before the place is filled, and again
\* after it.
AppendPutSignal(c) ==
    /\ call[c].pc = "put"
    /\ PutInRing(c)
    /\ efd' = efd + 1
    /\ UNCHANGED <<opc, cursor, missed, mem, wk, get, chk>>
    /\ UNCHANGED <<cfgVars, stateVars, diskVars>>

\* perf_batcher_enqueue claims a place in the ring; while there is none the
\* caller sleeps and tries again (never_overwrite is never set).
AppendPut(c) ==
    /\ call[c].pc = "put"
    /\ PutInRing(c)
    /\ UNCHANGED <<opc, cursor, efd, missed, mem, wk, get, chk>>
    /\ UNCHANGED <<cfgVars, stateVars, diskVars>>

\* The place is filled and can be seen.
AppendFill(c) ==
    /\ call[c].pc = "fill"
    /\ call' = [call EXCEPT ![c] = [pc |-> "token", req |-> Sent]]
    /\ UNCHANGED <<opc, cursor, nreq, mem, wk, get, chk>>
    /\ UNCHANGED <<cfgVars, queueVars, stateVars, diskVars>>

AppendToken(c) ==
    /\ call[c].pc = "token"
    /\ efd' = efd + 1
    /\ call' = [call EXCEPT ![c] = IdleCall]
    /\ UNCHANGED <<opc, cursor, nreq, q, missed, mem, wk, get, chk>>
    /\ UNCHANGED <<cfgVars, stateVars, diskVars>>

-----------------------------------------------------------------------------
(* _ls_worker_main. *)

Go(w, pc) == wk' = [wk EXCEPT ![w].pc = pc]

\* The ring is empty, or its first place is claimed and not filled yet.
LooksEmpty ==
    \/ q = <<>>
    \/ \E c \in Callers : call[c].pc = "fill" /\ call[c].req = Head(q)
    \/ opc = "fill" /\ Head(q) = Sent

\* The threads whose place in the ring is not filled yet, and the number of
\* filled places.
Claiming == {c \in Callers : call[c].pc = "fill"} \cup (IF opc = "fill" THEN {Closer} ELSE {})
Filled == Len(q) - Cardinality(Claiming)

\* The first entry is taken out of the ring. An empty ring lacks no token.
TakeFirst ==
    /\ ~LooksEmpty
    /\ q' = Tail(q)
    /\ missed' = IF Filled = 1 THEN 0 ELSE missed

\* A mutant: the queue is not looked at.
NoMoreAtOnce == ~running

\* The test that ends the worker: shutdown has begun and nothing is queued.
NoMore == ~running /\ q = <<>>

\* perf_batcher_next blocks for a token.
WorkerToken(w) ==
    /\ wk[w].pc = "next"
    /\ efd > 0
    /\ efd' = efd - 1
    /\ wk' = [wk EXCEPT ![w] = [NewWorker EXCEPT !.pc = "draw"]]
    /\ UNCHANGED <<opc, cursor, nreq, q, missed, mem, call, get, chk>>
    /\ UNCHANGED <<cfgVars, stateVars, diskVars>>

\* The read fails and the worker looks whether it is to stop.
WorkerInterrupted(w) ==
    /\ "intr" \in setup.faults
    /\ wk[w].pc = "next" /\ NoMore
    /\ Go(w, "exit")
    /\ UNCHANGED <<opc, cursor, nreq, mem, call, get, chk>>
    /\ UNCHANGED <<cfgVars, queueVars, stateVars, diskVars>>

\* perf_batcher_next takes one entry after the other, at most batch_size.
WorkerDraw(w) ==
    /\ wk[w].pc = "draw"
    /\ Len(wk[w].batch) < setup.batch
    /\ TakeFirst
    /\ wk' = [wk EXCEPT ![w].batch = Append(@, Head(q))]
    /\ UNCHANGED <<opc, cursor, nreq, efd, mem, call, get, chk>>
    /\ UNCHANGED <<cfgVars, stateVars, diskVars>>

\* It returns. With nothing in hand and entries in the ring behind a place
\* that is not filled, the token was spent for nothing.
WorkerDrawn(w) ==
    /\ wk[w].pc = "draw"
    /\ LooksEmpty \/ Len(wk[w].batch) = setup.batch
    /\ missed' = IF wk[w].batch = <<>> /\ Filled > 0 THEN missed + 1 ELSE missed
    /\ Go(w, "got")
    /\ UNCHANGED <<opc, cursor, nreq, q, efd, mem, call, get, chk>>
    /\ UNCHANGED <<cfgVars, stateVars, diskVars>>

\* No entry, or nothing but the sentinel: look whether to stop.
WorkerIdle(w) ==
    /\ wk[w].pc = "got"
    /\ \/ wk[w].batch = <<>> /\ UNCHANGED sentinel
       \/ wk[w].batch = <<Sent>> /\ sentinel' = FALSE
    /\ wk' = [wk EXCEPT ![w] = IF NoMore THEN IdleWorker ELSE NewWorker]
    /\ UNCHANGED <<opc, cursor, nreq, running, outstanding, since, mem, call, get, chk>>
    /\ UNCHANGED <<cfgVars, queueVars, diskVars>>

\* A batch with records: the worker notes the end of the file, or 0 if lseek
\* fails, and tries to allocate the vectors. (Without them it looks for the
\* end again, which is taken to succeed.)
WorkerSeek(w) ==
    /\ wk[w].pc = "got"
    /\ \E i \in 1..Len(wk[w].batch) : wk[w].batch[i] # Sent
    /\ \E ok \in IF "novec" \in setup.faults THEN BOOLEAN ELSE {TRUE},
          end \in IF "seek" \in setup.faults THEN {Len(file), 0} ELSE {Len(file)} :
        wk' = [wk EXCEPT ![w].pc = "write", ![w].vec = ok,
                         ![w].i = 1, ![w].off = end]
    /\ UNCHANGED <<opc, cursor, nreq, mem, call, get, chk>>
    /\ UNCHANGED <<cfgVars, queueVars, stateVars, diskVars>>

\* The requests of the batch: the sentinel is skipped.
Live(w) == SelectSeq(wk[w].batch, LAMBDA r : r # Sent)

\* What the next write puts into the file: with vectors the whole batch at
\* the noted offset, without them one record at the end of the file.
Due(w) == IF wk[w].vec THEN Cells(Live(w)) ELSE Record(Live(w)[1])
DueAt(w) == IF wk[w].vec THEN wk[w].off ELSE Len(file)

WorkerWrite(w) ==
    /\ wk[w].pc = "write"
    /\ \E n \in IF "short" \in setup.faults THEN 0..Len(Due(w)) ELSE {Len(Due(w))} :
        file' = WriteAt(file, DueAt(w), SubSeq(Due(w), 1, n))
    /\ wk' = [wk EXCEPT ![w].pc = "db", ![w].off = DueAt(w)]
    /\ UNCHANGED <<opc, cursor, nreq, durable, db, mem, call, get, chk>>
    /\ UNCHANGED <<cfgVars, queueVars, stateVars>>

\* pwritev fails: the batch is dropped.
WorkerWriteFails(w) ==
    /\ "fail" \in setup.faults
    /\ wk[w].pc = "write" /\ wk[w].vec
    /\ Go(w, "free")
    /\ UNCHANGED <<opc, cursor, nreq, mem, call, get, chk>>
    /\ UNCHANGED <<cfgVars, queueVars, stateVars, diskVars>>

\* db_put, then po_index_put under the lock, record after record.
WorkerDbPut(w) ==
    /\ wk[w].pc = "db"
    /\ db' \in Put(db, Live(w)[wk[w].i].key, wk[w].off)
    /\ Go(w, "mem")
    /\ UNCHANGED <<opc, cursor, nreq, file, durable, mem, call, get, chk>>
    /\ UNCHANGED <<cfgVars, queueVars, stateVars>>

\* A mutant: the loop over the batch does not advance.
WorkerMemPutStay(w) ==
    /\ wk[w].pc = "mem" /\ wk[w].vec
    /\ mem' \in Put(mem, Live(w)[wk[w].i].key, wk[w].off)
    /\ wk' = [wk EXCEPT ![w].pc = IF wk[w].i < Len(Live(w)) THEN "db" ELSE "sync"]
    /\ UNCHANGED <<opc, cursor, nreq, call, get, chk>>
    /\ UNCHANGED <<cfgVars, queueVars, stateVars, diskVars>>

\* A mutant: the offset of the second record is that of the first.
WorkerMemPutSame(w) ==
    /\ wk[w].pc = "mem" /\ wk[w].vec
    /\ mem' \in Put(mem, Live(w)[wk[w].i].key, wk[w].off)
    /\ wk' = [wk EXCEPT ![w].i = @ + 1,
                        ![w].pc = IF wk[w].i < Len(Live(w)) THEN "db" ELSE "sync"]
    /\ UNCHANGED <<opc, cursor, nreq, call, get, chk>>
    /\ UNCHANGED <<cfgVars, queueVars, stateVars, diskVars>>

WorkerMemPut(w) ==
    /\ wk[w].pc = "mem" /\ wk[w].vec
    /\ mem' \in Put(mem, Live(w)[wk[w].i].key, wk[w].off)
    /\ wk' = [wk EXCEPT ![w].i = @ + 1, ![w].off = @ + 2,
                        ![w].pc = IF wk[w].i < Len(Live(w)) THEN "db" ELSE "sync"]
    /\ UNCHANGED <<opc, cursor, nreq, call, get, chk>>
    /\ UNCHANGED <<cfgVars, queueVars, stateVars, diskVars>>

\* A mutant: the request written without vectors stays counted.
WorkerMemPutLeak(w) ==
    /\ wk[w].pc = "mem" /\ ~wk[w].vec
    /\ mem' \in Put(mem, Live(w)[1].key, wk[w].off)
    /\ UNCHANGED outstanding
    /\ wk' = [wk EXCEPT ![w].batch = Tail(Live(w)) \o SelectSeq(@, LAMBDA r : r = Sent),
                        ![w].pc = IF Len(Live(w)) > 1 THEN "write" ELSE "sync"]
    /\ UNCHANGED <<opc, cursor, nreq, running, sentinel, since, call, get, chk>>
    /\ UNCHANGED <<cfgVars, queueVars, diskVars>>

\* Without vectors the request is freed at once and the next one written.
WorkerMemPutOne(w) ==
    /\ wk[w].pc = "mem" /\ ~wk[w].vec
    /\ mem' \in Put(mem, Live(w)[1].key, wk[w].off)
    /\ outstanding' = outstanding - 1
    /\ wk' = [wk EXCEPT ![w].batch = Tail(Live(w)) \o SelectSeq(@, LAMBDA r : r = Sent),
                        ![w].pc = IF Len(Live(w)) > 1 THEN "write" ELSE "sync"]
    /\ UNCHANGED <<opc, cursor, nreq, running, sentinel, since, call, get, chk>>
    /\ UNCHANGED <<cfgVars, queueVars, diskVars>>

\* The policy decides about fsync; without vectors only PO_LS_FSYNC_EACH_BATCH
\* does.
WorkerSync(w) ==
    /\ wk[w].pc = "sync"
    /\ LET vec == wk[w].vec
           count == since + 1
       IN \/ /\ setup.policy = "each"
             /\ durable' = Len(file) /\ UNCHANGED since
          \/ /\ setup.policy = "everyN" /\ vec
             /\ durable' = IF count >= EveryN THEN Len(file) ELSE durable
             /\ since' = IF count >= EveryN THEN 0 ELSE count
          \/ /\ setup.policy \in {"interval", "background"} /\ vec
             /\ durable' \in {durable, Len(file)} /\ UNCHANGED since
          \/ /\ setup.policy = "none" \/ (setup.policy # "each" /\ ~vec)
             /\ UNCHANGED <<durable, since>>
    /\ Go(w, IF wk[w].vec THEN "free" ELSE "post")
    /\ UNCHANGED <<opc, cursor, nreq, running, sentinel, outstanding, file, db, mem, call, get, chk>>
    /\ UNCHANGED <<cfgVars, queueVars>>

\* A mutant: the sentinel is counted as a request.
WorkerFreeAll(w) ==
    /\ wk[w].pc = "free"
    /\ outstanding' = outstanding - Len(wk[w].batch)
    /\ sentinel' = (sentinel /\ Sent \notin Range(wk[w].batch))
    /\ wk' = [wk EXCEPT ![w].pc = "post", ![w].batch = <<>>]
    /\ UNCHANGED <<opc, cursor, nreq, running, since, mem, call, get, chk>>
    /\ UNCHANGED <<cfgVars, queueVars, diskVars>>

\* The requests of the batch are freed, and the sentinel if it was among
\* them.
WorkerFree(w) ==
    /\ wk[w].pc = "free"
    /\ outstanding' = outstanding - Len(Live(w))
    /\ sentinel' = (sentinel /\ Sent \notin Range(wk[w].batch))
    /\ wk' = [wk EXCEPT ![w].pc = "post", ![w].batch = <<>>]
    /\ UNCHANGED <<opc, cursor, nreq, running, since, mem, call, get, chk>>
    /\ UNCHANGED <<cfgVars, queueVars, diskVars>>

\* post_batch: stop, or wait for the next token.
WorkerPost(w) ==
    /\ wk[w].pc = "post"
    /\ wk' = [wk EXCEPT ![w] = IF NoMore /\ ~sentinel THEN [NewWorker EXCEPT !.pc = "last"]
                                                      ELSE NewWorker]
    /\ UNCHANGED <<opc, cursor, nreq, mem, call, get, chk>>
    /\ UNCHANGED <<cfgVars, queueVars, stateVars, diskVars>>

\* The final drain: what arrived since the test is freed, not written.
WorkerLast(w) ==
    /\ wk[w].pc = "last"
    /\ \/ /\ LooksEmpty
          /\ wk' = [wk EXCEPT ![w] = IdleWorker]
          /\ UNCHANGED <<q, missed, sentinel, outstanding>>
       \/ /\ TakeFirst
          /\ sentinel' = (sentinel /\ Head(q) # Sent)
          /\ outstanding' = outstanding - (IF Head(q) = Sent THEN 0 ELSE 1)
          /\ UNCHANGED wk
    /\ UNCHANGED <<opc, cursor, nreq, efd, running, since, mem, call, get, chk>>
    /\ UNCHANGED <<cfgVars, diskVars>>

\* _ls_fsync_thread_main.
FsyncTick ==
    /\ setup.policy = "background"
    /\ opc \notin {"down", "scan", "start"} /\ durable # Len(file)
    /\ durable' = Len(file)
    /\ UNCHANGED <<opc, cursor, nreq, file, db, mem, call, wk, get, chk>>
    /\ UNCHANGED <<cfgVars, queueVars, stateVars>>

-----------------------------------------------------------------------------
(* po_logstore_close. Its callers have no append, get or scan in progress. *)

NobodyElse ==
    /\ \A c \in Callers : call[c].pc = "idle"
    /\ \A g \in Getters : get[g].pc = "idle"
    /\ chk.pc = "idle"

CloseStart ==
    /\ opc = "open" /\ NobodyElse
    /\ running' = FALSE
    /\ opc' = "mark"
    /\ UNCHANGED <<cursor, nreq, sentinel, outstanding, since, mem, call, wk, get, chk>>
    /\ UNCHANGED <<cfgVars, queueVars, diskVars>>

CloseMark ==
    /\ opc = "mark"
    /\ sentinel' = TRUE
    /\ opc' = "put"
    /\ UNCHANGED <<cursor, nreq, running, outstanding, since, mem, call, wk, get, chk>>
    /\ UNCHANGED <<cfgVars, queueVars, diskVars>>

\* The result of the enqueue is ignored. The place of an entry that a worker
\* has just taken may be still in use.
ClosePut ==
    /\ opc = "put"
    /\ \/ Len(q) < setup.cap /\ q' = Append(q, Sent) /\ opc' = "fill"
       \/ /\ \/ Len(q) = setup.cap
             \/ Len(q) = setup.cap - 1 /\ \E w \in Workers : wk[w].pc = "draw" /\ wk[w].batch # <<>>
          /\ UNCHANGED q /\ opc' = "join"
    /\ UNCHANGED <<cursor, nreq, efd, missed, mem, call, wk, get, chk>>
    /\ UNCHANGED <<cfgVars, stateVars, diskVars>>

CloseFill ==
    /\ opc = "fill"
    /\ opc' = "token"
    /\ UNCHANGED <<cursor, nreq, mem, call, wk, get, chk>>
    /\ UNCHANGED <<cfgVars, queueVars, stateVars, diskVars>>

CloseToken ==
    /\ opc = "token"
    /\ efd' = efd + 1
    /\ opc' = "join"
    /\ UNCHANGED <<cursor, nreq, q, missed, mem, call, wk, get, chk>>
    /\ UNCHANGED <<cfgVars, stateVars, diskVars>>

Queued == {i \in 1..Len(q) : q[i] # Sent}

\* All workers have been joined: what is left in the ring is freed, and the
\* sentinel if it is still there.
CloseJoined ==
    /\ opc = "join"
    /\ \A w \in Workers : wk[w].pc = "exit"
    /\ outstanding' = outstanding - Cardinality(Queued)
    /\ q' = <<>> /\ efd' = 0 /\ missed' = 0 /\ mem' = Empty
    /\ sentinel' = FALSE
    /\ opc' = "down"
    /\ UNCHANGED <<cursor, nreq, running, since, call, wk, get, chk>>
    /\ UNCHANGED <<cfgVars, diskVars>>

-----------------------------------------------------------------------------
(* po_logstore_get. *)

GetMem(g, k) ==
    /\ opc = "open" /\ get[g].pc = "idle" /\ chk.pc = "idle"
    /\ get' = [get EXCEPT ![g] = [key |-> k, off |-> mem[k],
                                 pc |-> IF mem[k] = NoOff THEN "db" ELSE "read"]]
    /\ UNCHANGED <<opc, cursor, nreq, mem, call, wk, chk>>
    /\ UNCHANGED <<cfgVars, queueVars, stateVars, diskVars>>

GetDb(g) ==
    /\ get[g].pc = "db"
    /\ LET off == db[get[g].key] IN
       get' = [get EXCEPT ![g] = IF off = NoOff THEN IdleGet
                                 ELSE [@ EXCEPT !.off = off, !.pc = "fill"]]
    /\ UNCHANGED <<opc, cursor, nreq, mem, call, wk, chk>>
    /\ UNCHANGED <<cfgVars, queueVars, stateVars, diskVars>>

GetFill(g) ==
    /\ get[g].pc = "fill"
    /\ mem' = [mem EXCEPT ![get[g].key] = get[g].off]
    /\ get' = [get EXCEPT ![g].pc = "read"]
    /\ UNCHANGED <<opc, cursor, nreq, call, wk, chk>>
    /\ UNCHANGED <<cfgVars, queueVars, stateVars, diskVars>>

\* The record is read at the offset; its key is not compared.
GetRead(g) ==
    /\ get[g].pc = "read"
    /\ get' = [get EXCEPT ![g] = IdleGet]
    /\ UNCHANGED <<opc, cursor, nreq, mem, call, wk, chk>>
    /\ UNCHANGED <<cfgVars, queueVars, stateVars, diskVars>>

-----------------------------------------------------------------------------
(* po_logstore_integrity_scan with pruning, used exclusively (logstore.h:    *)
(* 210): no append or get meanwhile, but requests may still be queued.       *)

\* _ls_integrity_scan notes the end of the file.
CheckStart ==
    /\ "check" \in setup.faults
    /\ opc = "open" /\ NobodyElse
    /\ chk' = [NoCheck EXCEPT !.pc = "snap", !.end = Len(file), !.quiet = (outstanding = 0)]
    /\ UNCHANGED <<opc, cursor, nreq, mem, call, wk, get>>
    /\ UNCHANGED <<cfgVars, queueVars, stateVars, diskVars>>

\* db_iterate reads a snapshot of the bucket.
CheckSnap ==
    /\ chk.pc = "snap"
    /\ chk' = [chk EXCEPT !.pc = "entry", !.snap = db, !.left = {k \in Keys : db[k] # NoOff}]
    /\ UNCHANGED <<opc, cursor, nreq, mem, call, wk, get>>
    /\ UNCHANGED <<cfgVars, queueVars, stateVars, diskVars>>

\* _integrity_cb for the entry of k: the record it points to must end before
\* the end of the file and have k as its key. Bytes of a value that are read
\* as lengths may look like anything.
Verdicts(k) ==
    LET off == chk.snap[k]
        cell == file[off + 1]
    IN IF off + 2 > chk.end THEN {"prune"}
       ELSE IF cell.part = "value" THEN {"prune", "keep"}
       ELSE IF cell.req.key = k THEN {"keep"} ELSE {"prune"}

\* The callback: an entry is kept, or deleted from LMDB and then, under the
\* lock, from the index in memory.
CheckEntry ==
    /\ chk.pc = "entry" /\ chk.cut = NoKey
    /\ \E k \in chk.left : \E v \in Verdicts(k) :
        /\ db' = IF v = "prune" THEN [db EXCEPT ![k] = NoOff] ELSE db
        /\ chk' = [chk EXCEPT !.left = @ \ {k}, !.cut = IF v = "prune" THEN k ELSE NoKey]
    /\ UNCHANGED <<opc, cursor, nreq, file, durable, mem, call, wk, get>>
    /\ UNCHANGED <<cfgVars, queueVars, stateVars>>

CheckForget ==
    /\ chk.cut # NoKey
    /\ mem' = [mem EXCEPT ![chk.cut] = NoOff]
    /\ chk' = [chk EXCEPT !.cut = NoKey]
    /\ UNCHANGED <<opc, cursor, nreq, call, wk, get>>
    /\ UNCHANGED <<cfgVars, queueVars, stateVars, diskVars>>

CheckEnd ==
    /\ chk.pc = "entry" /\ chk.cut = NoKey /\ chk.left = {}
    /\ chk' = NoCheck
    /\ UNCHANGED <<opc, cursor, nreq, mem, call, wk, get>>
    /\ UNCHANGED <<cfgVars, queueVars, stateVars, diskVars>>

-----------------------------------------------------------------------------
(* Crashes: the process dies at any point, a write possibly under way. *)

Halted ==
    /\ opc' = "down" /\ cursor' = 0
    /\ q' = <<>> /\ efd' = 0 /\ missed' = 0
    /\ running' = FALSE /\ sentinel' = FALSE /\ outstanding' = 0 /\ since' = 0
    /\ mem' = Empty
    /\ call' = [c \in Callers |-> IdleCall]
    /\ wk' = [w \in Workers |-> IdleWorker]
    /\ get' = [g \in Getters |-> IdleGet]
    /\ chk' = NoCheck
    /\ UNCHANGED <<setup, opens, nreq, db>>

\* The file with a beginning of some worker's write.
Torn == {file} \cup
        UNION {{WriteAt(file, DueAt(w), SubSeq(Due(w), 1, n)) : n \in 1..Len(Due(w))} :
               w \in {v \in Workers : wk[v].pc = "write"}}

Kill ==
    /\ "kill" \in setup.faults /\ opc # "down"
    /\ file' \in Torn /\ UNCHANGED durable
    /\ Halted

\* The system goes down: of what was not synced any beginning is left.
PowerLoss ==
    /\ "power" \in setup.faults /\ opc # "down"
    /\ \E f \in Torn, n \in durable..(Len(file) + 2 * setup.batch) :
        n <= Len(f) /\ file' = SubSeq(f, 1, n)
    /\ UNCHANGED durable
    /\ Halted

-----------------------------------------------------------------------------

WorkerQuiet(w) ==
    \/ WorkerToken(w) \/ WorkerDraw(w) \/ WorkerDrawn(w)
    \/ WorkerIdle(w) \/ WorkerSeek(w) \/ WorkerWrite(w)
    \/ WorkerDbPut(w) \/ WorkerMemPut(w) \/ WorkerMemPutOne(w) \/ WorkerSync(w)
    \/ WorkerPost(w) \/ WorkerLast(w)

\* A failed write is logged before the batch is freed.
WorkerStep(w) == WorkerQuiet(w) \/ WorkerWriteFails(w) \/ WorkerFree(w)

AppendStep(c) == AppendPut(c) \/ AppendFill(c) \/ AppendToken(c)

OpenStep == ScanRecord \/ ScanEnd \/ StartWorkers

CloseStep == CloseMark \/ ClosePut \/ CloseFill \/ CloseToken \/ CloseJoined

GetStep(g) == GetDb(g) \/ GetFill(g) \/ GetRead(g)

CheckStep == CheckSnap \/ CheckEntry \/ CheckForget \/ CheckEnd

StoreNext ==
    \/ CheckStart \/ CheckStep
    \/ Open \/ OpenStep \/ CloseStart \/ CloseStep \/ FsyncTick \/ Kill \/ PowerLoss
    \/ \E c \in Callers : AppendStep(c) \/ \E k \in Keys : AppendStart(c, k)
    \/ \E w \in Workers : WorkerStep(w) \/ WorkerInterrupted(w)
    \/ \E g \in Getters : GetStep(g) \/ \E k \in Keys : GetMem(g, k)

\* Threads run; a caller that sleeps on a full ring tries again and again,
\* and can be starved by other callers only as long as they append. No signal
\* need ever come.
StoreFairness ==
    /\ WF_storeVars(OpenStep) /\ WF_storeVars(CloseStep)
    /\ \A c \in Callers : SF_storeVars(AppendStep(c))
    /\ \A w \in Workers : WF_storeVars(WorkerStep(w))

StoreSpec == StoreInit /\ [][StoreNext]_storeVars /\ StoreFairness

-----------------------------------------------------------------------------

StoreTypeOK ==
    /\ opc \in {"down", "scan", "start", "open", "mark", "put", "fill", "token", "join"}
    /\ q \in Seq(Req \cup {Sent}) /\ Len(q) <= setup.cap
    /\ efd \in Nat /\ missed \in Nat /\ outstanding \in Nat /\ since \in Nat
    /\ running \in BOOLEAN /\ sentinel \in BOOLEAN
    /\ durable \in 0..Len(file)
    /\ {db, mem} \subseteq [Keys -> {NoOff} \cup 0..(2 * MaxAppends)]

\* The cases in which an index entry may be wrong. A write that is cut short
\* is taken for a success (logstore_worker.c:224), one whose end of the file
\* was not found lands on older records (115-119), and the index is committed
\* before the file is synced (235-243). A scan that breaks off early cuts off
\* records that are indexed (logstore_rebuild.c:72), and one that leaves a
\* torn record in place makes the next scan take it for a whole one.
MayBeUnsound ==
    \/ setup.faults \cap {"short", "seek", "power"} # {}
    \/ setup.rebuild /\ (IF setup.truncate THEN "scan" ELSE "kill") \in setup.faults

\* Wherever an index, or a get that has looked it up, has an offset for a
\* key, the file has a complete record of that key there: a get never
\* returns another key's value. This is so after crashes, failed writes and
\* index entries that could not be made, for every fsync policy, outside the
\* cases of MayBeUnsound.
IndexSound ==
    ~MayBeUnsound =>
        /\ \A k \in Keys : /\ mem[k] # NoOff => Holds(file, k, mem[k])
                          /\ db[k] # NoOff => Holds(file, k, db[k])
        /\ \A g \in Getters : get[g].pc \in {"fill", "read"} =>
               Holds(file, get[g].key, get[g].off)

\* Every request that was counted and not yet freed is in one place, with a
\* caller, in the ring or in a worker's batch, and the count of outstanding
\* requests is exact: none is freed twice, and none is left when the store
\* is down (logstore.c:267).
RequestsOwned ==
    LET hands == {c \in Callers : call[c].pc = "put"}
        batch(w) == {r \in Range(wk[w].batch) : r # Sent}
        under == {q[i] : i \in Queued} \cup UNION {batch(w) : w \in Workers}
    IN /\ outstanding = Cardinality(hands) + Cardinality(under)
       /\ opc = "down" => outstanding = 0

\* A close loses nothing: where no write fails and nothing crashes, the file
\* of a store that is closed consists of the records of all appends that
\* returned success, each once and in the order of the queue, whether they
\* were written with vectors or one by one (logstore.c:229, the drain at close
\* "should be rare", finds no request).
CloseFlushesAll ==
    setup.faults \subseteq {"intr", "novec", "put"} /\ opc = "down" =>
        /\ Len(file) = 2 * nreq
        /\ \A i \in 1..nreq : LET r == file[2 * i - 1].req IN
               r.id = i /\ SubSeq(file, 2 * i - 1, 2 * i) = Record(r)

\* The scan at open meets whole records, up to a torn one at the end.
WholeRecords ==
    /\ setup.faults \cap {"short", "seek", "put"} = {}
    /\ setup.truncate \/ setup.faults \cap {"kill", "power"} = {}

\* An open after a crash recovers what was synced: where the file is made of
\* whole records and can be read, no synced cell is cut off, and for every
\* record in them the index has that record or a later one of the same key
\* (_ls_rebuild_on_open). Where the scan breaks off, this is so for the
\* records before that place. An integrity scan that finds no request under
\* way removes the entries that point past the end of the file or at the
\* record of another key, and no entry that is right (logstore.h:201, "stale
\* index entries referencing missing or corrupt records are removed").
RecoveryKeepsSynced ==
    [][/\ opc = "scan" /\ opc' = "start" /\ WholeRecords =>
         LET upto == IF "scan" \in setup.faults THEN cursor ELSE durable IN
         /\ Len(file') >= upto
         /\ \A off \in 0..(upto - 2) :
              LET k == file[off + 1].req.key IN
              Holds(file, k, off) => mem'[k] >= off /\ Holds(file', k, mem'[k])
       /\ CheckEnd /\ chk.quiet =>
         \A k \in Keys : LET off == chk.snap[k] IN
           /\ Holds(file, k, off) => db[k] = off
           /\ db[k] # NoOff => /\ db[k] = off /\ off + 2 <= Len(file)
                               /\ file[off + 1].part = "head" => file[off + 1].req.key = k
           /\ off # NoOff /\ db[k] = NoOff => mem[k] = NoOff]_storeVars

\* Nothing is under way: every append has returned and its request was
\* written, dropped by a failed write or lost in a crash.
Settled ==
    /\ \A c \in Callers : call[c].pc = "idle"
    /\ Queued = {}
    /\ \A w \in Workers : Live(w) = <<>>

\* The threads about to write a token, and how much each worker may still
\* take for its token.
Signalling == {c \in Callers : call[c].pc = "token"} \cup (IF opc = "token" THEN {Closer} ELSE {})
Left(r) == IF r.pc = "draw" THEN setup.batch - Len(r.batch) ELSE 0
Budget == [w \in Workers |-> Left(wk[w])]

\* The queue is used as Batcher says, so that entries are left in it with
\* the worker asleep only if tokens were spent for nothing
\* (Batcher!NothingStranded).
SB == INSTANCE Batcher WITH
    Producers <- Callers \cup {Closer}, Consumers <- Workers,
    cap <- setup.cap, batch <- setup.batch, len <- Len(q), claiming <- Claiming,
    signalling <- Signalling, tokens <- efd, budget <- Budget
=============================================================================
