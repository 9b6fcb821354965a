# Post Office: TLA+ verification

The Post Office simulation runs a director, a work broker, a worker process and a
users manager as processes that share one memory segment, on top of a systems
library of its own (lock-free ring, thread pool, zero-copy buffer pools, batcher,
logger, log store, framing). This directory models the concurrent core of it in
TLA+, checks the models with TLC on small instances, and proves the most important
invariants with TLAPS for every value of the constants. Paths below are relative
to `src/app/`.

## How the parts interact

- The **director** forks the other processes, waits until the initial users have
  connected, and then runs a simulated clock. At the start of each day it opens a
  barrier in shared memory and waits for the broker, the worker process and the
  users manager to join it.
- The **users manager** keeps a population of users, each a task of a thread pool.
- A **user** enters the office while it is open, asks the broker for a ticket, and
  waits until the shared `last_finished_ticket` reaches it.
- The **work broker** runs every request in a handler of its own thread pool. It
  issues tickets, queues them by priority and arrival, and hands them to workers.
- The **worker process** runs worker threads, which rendezvous with each other
  before one of them joins the day barrier for all, and then serve tickets.
- All of them send and receive through the process-wide **buffer pools** of
  `net.c`.
- All of them log. The **logger** queues records for a consumer thread that writes
  them to sinks, and the **log store** (an append-only file with an index in LMDB and
  one in memory) can be such a sink. Both queues are a **batcher**: a ring with an
  eventfd. Pools, logger and batcher rest on the **ring buffer**.

## Modules

| Module | Models | Proofs |
|---|---|---|
| `BoundedQueue` | what a bounded FIFO queue promises | |
| `RingBuffer` | `libs/ring0/postoffice/perf/ringbuf.c` | `RingBufferProofs` |
| `DayBarrier` | director and subsystems at the day barrier: `director_time.c`, `director_orch.c`, `sim_client.c`, the three main loops | `DayBarrierProofs` |
| `WorkerSync` (extends `DayBarrier`) | threads of the worker process: `worker_loop.c`, `worker_core.c` | |
| `TicketService` | `user_loop.c`, `broker_handler.c`, `worker_loop.c`, `worker_job.c` around a ticket | |
| `ThreadPool` | `libs/ring1/postoffice/concurrency/threadpool.c` | `ThreadPoolProofs` |
| `UsersSpawn` (extends `ThreadPool`) | `users_manager.c`, `users_spawn.c`, `waitgroup.c` | `UsersSpawnProofs` |
| `NetPools` | the pool lifecycle of `libs/ring4/postoffice/net/net.c` over `zerocopy.c` | `NetPoolsProofs` |
| `Batcher` | what `libs/ring2/postoffice/perf/batcher.c` promises | `BatcherProofs` |
| `Logger` | `libs/ring2/postoffice/log/logger.c` | `LoggerProofs` |
| `LogStore` | `libs/ring3/postoffice/storage/`: `logstore.c`, `logstore_worker.c`, `logstore_rebuild.c`, `logstore_integrity.c` | |
| `LogPipeline` (extends both) | the store as a sink of the logger, `storage.c` | `LogPipelineProofs` |

Each `MC*` module names the small sets an instance uses; the `.cfg` files give the
constants their values. `PROJECT.json` maps every definition to its source lines.
An operator commented "Mutant" is a plausible bug of the definition after it; no
specification uses it.

All modules assume sequential consistency. Most atomics in the mapped code have the
default order, which is sequentially consistent. The ring buffer publishes a slot by
a release store that an acquire load reads, but it reads `head` and `tail` relaxed:
there the models leave out reorderings, and `CountZeroIsExact` in particular, which
rests on the order of two relaxed loads, says nothing of weaker memory.

### RingBuffer
`head`, `tail`, `seq` and `item` are the fields of the ring, `pc` and `pos` the
position and the local index of each thread. Every load, exchange and store is an
action. The weak exchange may fail spuriously. Indices are naturals: the code
compares them by signed difference only. `IsBoundedQueue` is the refinement: the
exchange on `tail` is the enqueue, the exchange on `head` the dequeue.

### DayBarrier and WorkerSync
A section under `sync.mutex` is one step, except the director's opening section,
whose stores clients read without the lock. The condition variables are waited on
with timeouts, so a waiter may wake at any time. `term` is a process's own shutdown
flag, `flag` the one it passes to `sim_client_wait_barrier`: the worker passes a
copy taken before. `LongDays` says that a released client has left the barrier
before the director opens the next one. It is true when a simulated day takes
longer than a wakeup; `config/explode.ini` runs the clock without any delay, and
the run `barrier_fast_clock` shows what follows. `WorkerSync` replaces the single
worker participant by its threads, and `IsOneParticipant` shows that they refine it.

### TicketService
A connection is the state of the handler that runs it; when the client gives up,
the handler stays as an orphan, and its answer is lost. `queue` is a set ordered by
`item_compare`. `WorkerPools` says whether the worker process has called
`net_init_zerocopy`. The program as it stands never does, and three of the four runs
have it so; `tickets_safe` sets it to TRUE, to see the rest of the protocol. A
handler that cannot read its request closes the connection without an answer
(`RecvFails`). `clock` counts readings of the monotonic clock, so no two arrivals are
equal.

### ThreadPool and UsersSpawn
A section under the pool's mutex is one step; a woken thread re-tests its condition
and wakeups may be spurious. `UsersSpawn` adds the manager's main thread, its slots,
the wait group's count `wg` and the signals. `k` and `slot` are loop counters that
the scan of the slots and the population control really keep over interleavings.
A user may return from its loop once the clock runs, and has to when its flag is
cleared; what it does meanwhile is `TicketService`.

### NetPools
`life` is where the holder of the lifecycle lock is, `cpc` where each caller is in
acquire and release. A step is one atomic operation, or one call of a pool, whose
mutex makes it one. `from` is history: the pool a held buffer came from. Any number
of callers may acquire and release at once, as users and handlers do.

### Batcher
What `batcher.c` does for its callers: `len` places claimed or filled, `tokens` in the
eventfd, producers between claiming, filling and signalling, and what each consumer
may still take for its token. A consumer may find the ring empty although it is not,
because a place that is claimed and not filled hides those behind it; `RingBuffer` has
this in detail (`ReturnsAreHonest`). `missed` is history: how many tokens the filled
places may be short of, because a token was spent on a ring that looked empty or an
entry was queued without one. `NothingStranded` says that entries are left with every
consumer asleep only if `missed > 0`. A failed write to the eventfd is left out; the
call returns 0 then, with the entry in the ring and no token.

### Logger
`lring` is the ring of records, `lfree` the free list, `taken` the places of the free
list that a thread has claimed and not released; an enqueue, of a record or of the
sentinel, is claim, fill and token. `dropped` and `written` are the messages
themselves, so that `MessageFate` can say what became of each. Shutdown may begin while
a thread logs, and a thread may log until the ring is freed; `late` is history and says
that this happened. There is one consumer, as in every program. `LB` maps the ring to
`Batcher`.

### LogStore
`q` and `efd` are the batcher's; `SB` maps them to `Batcher`. A record in `file` is
two cells, and all values have one length, so a torn record and a wrong offset are
both visible. `db` is LMDB: a map with atomic, durable commits and snapshot
iteration. `durable` is how much of the file has been synced. `setup` fixes one
configuration (ring and batch sizes, fsync policy, rebuild, truncation) and the faults
of a behaviour: the process is killed or the power fails; a write fails or is cut
short; the end of the file is not found; an index does not take an entry; vectors
cannot be allocated; the scan at open cannot read or allocate, or truncate; a worker
cannot be started; a signal interrupts the event read. "check" lets the integrity scan
be used. A kill may leave any beginning of a write under way, a power failure any
beginning of what was not synced. The scan at open takes what it finds for records as
the code does: it does not look at a value, bytes of a value may read as a record of
any length, and wherever it breaks off the file is cut if `truncate_on_rebuild` is
set. Appends, gets and integrity scans are over before close begins, and an integrity
scan runs without appends and gets (`logstore.h:210`).

### LogPipeline
Composes the two. With `setup.use = "sink"`, whoever writes a record appends it to the
store and waits while the store's queue is full: the consumer, a thread with an
overflow notice, and the store's own flush worker when it logs a failed write. The
other values of `use` run the store or the logger alone, so that one run has all
three. The program joins its own threads before it shuts the logger down. The flush
worker it cannot join: that one may log before, during and after the shutdown, and
what it logs once the logger is gone is ignored.

## Runs

| Run | Question | Instance | Result |
|---|---|---|---|
| `ringbuf_mpmc` | ownership of slots, honest `empty`, `full` and `0`, peeks see queued entries, refinement of the queue | 2 producers, 2 consumers, 2 slots, 4 positions | holds |
| `barrier_fast_clock` | every day starts, with days shorter than a wakeup | 3 subsystems, 2 days | violated |
| `worker_days` | exact count, days start together and do start, threads agree on the day and refine one participant, subsystems stop | 3 subsystems, 2 worker threads, 3 days, 1 crash, interruption anywhere | holds |
| `worker_stop` | the worker process exits on SIGTERM | 2 threads, 2 days | violated |
| `tickets_safe` | a ticket is in one hand, losses are accounted for, turns are kept | 2 users, 2 workers with receive buffers, 1 fault, 1 orphan | holds |
| `tickets_live` | queued tickets are handed out, stopped users leave | 2 users, 1 worker, without | holds |
| `tickets_nopools` | losses, with the worker process as it is | 2 users, 1 worker | violated |
| `tickets_completion` | `last_finished_ticket` records completion | 2 users, 1 worker | violated |
| `users_days` | slots, capacity, pool, accounts, start and exit | 2 threads, 3 users, 2 slots, 1 fault | holds |
| `net_pools` | pools live as long as buffers are held, shutdown returns | 2 owners, 3 callers, 2 buffers, 2 pools a side | holds |
| `log_pipeline` | index sound, close writes all in order, nothing lost at shutdown, recovery, refinement of the batcher by both queues, everything settles and stops | 15 set-ups; 2 to 4 appends or up to 3 messages a thread, 2 openings | holds |
| `sink_full_disk` | an append gets its place, with the store as sink and a failing disk | 3 messages, 5 appends, 1 record | violated |

### Why the bounds are enough
- Ring: with two slots and four positions every slot is used in two laps, so a
  thread with an index one lap old meets the slot of the next; two threads of each
  role make every race for an exchange. Symmetry is used in the safety run only.
- Barrier: three days let a client be one release behind while the next barrier is
  open; each kind of subsystem has its own entry condition and occurs once, as in the
  program.
- Tickets: 0 and 1 are different cases because 0 also means "no work"; two users and
  two workers give overtaking between VIPs and others.
- Users: the capacity equals the pool's queue as in the code (2000 each), the third
  user reuses a slot while its last owner is leaving, the target can exceed the
  capacity, and the signals step over the initial population in both directions.
- Pools: three callers on two buffers exhaust a pool; the second pool of a side is
  what a caller with a stale view would meet.
- Logging: a ring of two with batches of two holds a request and the sentinel, or a
  filled place behind a claimed one; a ring of four with batches of two and two callers
  is the shape of the defaults (32 of 1024): a draw leaves entries behind, and tokens
  spent on a claimed place leave requests waiting. Two keys give a batch with two
  offsets and a key written twice; two openings give a crash and its recovery. The
  logger has three records and batches of two for two threads with two messages each, so
  that messages are dropped, a notice is due, a record can be lost on its way back and a
  draw leaves records behind. (User and worker processes have 256 of 256, the others
  256 of 4096 to 16384.) Each set-up takes few faults together; between them all faults
  and all fsync policies occur.

### Fairness
Weak fairness of every thread or process: the scheduler runs a thread that can go
on. What a thread waits for (a mutex, a condition, a barrier, a join) is in its
action's guard, so fairness never ends a wait by itself. The one strong fairness
is that of a caller that sleeps on the full queue of the log store and tries again
(`logstore.c:317`): others can overtake it only as long as they append, which the
bounds end. Nothing is assumed of users that keep their flag,
of signals, of office hours, of crashes or of faults. In `NetPools` a caller gives
back what it acquired: a user's read has a timeout, and the broker joins its
handlers before it shuts the pools down. Kills, power failures, faults of writes, the
background sync, integrity scans, gets and new messages need never happen.

`CHECK_DEADLOCK FALSE` is set where the program really stops: all processes have
exited, or every user is done.

## Proofs

TLAPS checks every theorem to its last leaf, for any number of threads, clients,
users, buffers and days (finite sets), under the named `ASSUME`s of the modules.
Each module of proofs finds an inductive invariant, proves that `Init` implies it
and that every action keeps it, and derives the properties.

- **RingBufferProofs** (`Cap >= 2`): `SlotOwnership`, `NeverOverfull`,
  `CountZeroIsExact`, `EmptyIsHonest`, `FullIsHonest`. The properties are not
  inductive because nothing in them says what a sequence number means. The invariant
  ties `seq` of a slot to `head`, `tail` and the thread that holds the slot: free for
  a position, claimed, published, being read. Positions one lap apart are kept apart
  by a few lemmas on `\div` and `%`. With one slot, `pos + 1` and
  `pos + Cap` are the same number and the claim fails.
- **DayBarrierProofs**: `CountIsExact`, `DayStartsTogether`, `NobodyAhead`, and,
  assuming `LongDays`, `WaitersAreCounted`. The invariant (`IndInv`) says who has
  joined which day at each point of the director, and that a client that has read
  `day_seq` and not yet joined has read the barrier that is open.
- **ThreadPoolProofs**: `TypeOK` with `Counts`, that the active counter is exact,
  `WorkConserving`, `TaskOnce`, `GracefulDrains`. The
  invariant (`Types`, `Counts`, `Phases`, `Placement`) says that the counter is the
  number of running threads, that nobody sleeps after the broadcast of `tp_destroy`
  nor exits before it, and that every accepted task is queued, held by one thread or
  executed; `WorkConserving` is inductive together with it.
- **UsersSpawnProofs**: `UsesThePool`, that every step of the users manager is a step
  of the pool or leaves it alone, so the pool's theorems carry over; and
  `SlotExclusive`.
- **NetPoolsProofs**: `HeldIsAlive`, `BuffersConserved`, `OwnersHavePools`. The
  invariant says that the users counter is the number of callers between counting
  and uncounting, the reference count the number of owners, and that once the wait
  has seen a counter at zero no caller of that side gets past the second look at the
  flag.
- **BatcherProofs**: `BatcherStrandsNothing`, the invariant `NothingStranded`, for any
  number of producers and consumers and any sizes of ring and batch. It is not inductive
  because tokens and entries do not agree: the invariant (`BatcherInv`) counts them. The
  filled places are at most the tokens, plus the producers about to signal, plus the
  consumers that have read a token and taken nothing yet, plus `missed`.
- **LoggerProofs** (`LCap >= 2`, the sentinel is no record): `PoolAlwaysFits`, the
  property `PoolFits`, and `LoggerUsesBatcher`, that the ring implements `Batcher`. The
  invariant adds that no sentinel is queued before it is sent, and that there is only
  one. Room then follows by counting: ring and batch hold different entries, one record
  at least is in the hands of the thread that enqueues, and there are `LCap - 1` of them.
  The count is why the properties of the three queues have to be proved together. For
  the refinement, every thread that fills a place has its own entry in the ring
  (`Claims`), so that a ring that does not look empty has a filled place.
- **LogPipelineProofs**: `StoreUsesBatcher` and `PipelineUsesBatcher` (the property
  `QueueIsBatcher`), that every step of the log store, alone or as a sink, and of the
  logger is a step of `Batcher` or leaves it alone, for any callers, workers, capacities,
  batch sizes and set-ups; and with `BatcherProofs`, `PipelineStrandsNothing`. The
  invariant (`QueueInv`) says what is in the queue, what a worker's batch may hold at each
  of its steps, and that claimed places belong to different callers that have not
  signalled (`PlacesClaimed`). `SinkKeepsPool` carries `PoolFits` over: every step of the
  pipeline is a step of the logger or leaves it alone, given that the workers are among
  the threads that log (`UseAssumption`).

**Only model-checked:** all liveness properties (TLAPS has no ENABLED), the
refinements `IsBoundedQueue` and `IsOneParticipant`, everything of
`WorkerSync` and `TicketService`, `SpawnFinds` and `AccountsSettle`, and of the
logging modules all but the use of the batcher and `PoolFits`.

## What the runs found

Five runs state what a document or comment of the repository says and TLC refutes it;
`PROJECT.json` quotes the lines.

1. `barrier_fast_clock`: a client that has not woken when the next barrier opens
   waits, uncounted, for a release that waits for it.
2. `worker_stop`: SIGTERM can leave the worker process in its local or in the global
   barrier, and the director waits for it without a timeout.
3. `tickets_nopools`: the worker process has no receive pool, so every answer to it
   is lost after the broker has removed the ticket.
4. `tickets_completion`: `last_finished_ticket` is 0 before anything was served, and 0 is
   the first ticket: its user is told at once that it has been served. (With a worker
   that could receive tickets, one number per queue could not record completions out of
   order either.)
5. `sink_full_disk`: a flush worker whose write failed logs it; with no free record
   and a power of two of drops it writes the notice itself, through the sink, into
   its own full queue, and waits for ever.

Seen while reading, and in the models where they matter, without a run of their own:

- The first ticket is 0, which is also the answer "no work" and the initial value of
  `last_finished_ticket`.
- `tickets[]` is never written and `waiting_count` never incremented: nobody is sent
  home at closing time, and the explosion test and the load balancer see empty queues.
- A subsystem that dies while the barrier is open leaves the director waiting.
- `perf_ringbuf_create` accepts a capacity of 1.
- With more initial users than pool threads the clock never starts; nothing in
  `director_config.c` relates the two.
- Population control counts users that were already told to stop, and may stop as
  many again the next day.
- The broker ignores the result of `tp_submit`.
- In `worker_core.c`, `wg_destroy` can follow `wg_wait` while the last `wg_done` is
  still about to broadcast.
- After a failed acquire, `net_recv_message_blocking` looks at the pool without being
  counted.
- The director initialises the control bridge without creating pools, and never runs
  its loop.

In the logging modules, found by TLC with a stronger property, another bound or a
dropped condition, or by reading:

- Requests can stay in the queue of the log store until the next append when several
  threads append and a batch is smaller than the ring, as in the defaults. In a ring of
  four with batches of two, one caller claims a place and stalls; another fills the
  places behind it and signals; the worker spends the tokens on a ring that looks empty;
  when the first caller signals, the one token left is good for one batch.
  `AppendsSettle` makes an exception of it (`MayStrand`). The logger can leave messages in
  its ring in the same way where `max_batch` is smaller than the ring.
- Close of the log store can then wait for ever: the sentinel's token is spent on a
  batch of requests left behind, `logstore_worker.c:281` finds the ring not empty, and
  the worker sleeps. It can also wait for ever when the ring is full, so that the
  sentinel is forgotten (`logstore.c:224`), and a token has been spent for nothing; when
  the batch with the sentinel is written without vectors, which does not free the
  sentinel (`logstore_worker.c:161`), and no token is left over; and with two workers,
  for there is one sentinel. `ShutdownsReturn` says where close does return.
- A scan at open breaks off at any read error, failed allocation or impossible length
  (`logstore_rebuild.c:28-54`), and with `truncate_on_rebuild` cuts off all records behind
  that place, synced or not. Without truncation a torn record stays in the file, and
  after the next append a later scan takes it for a whole one.
- A failed `lseek` makes the worker write its batch over the start of the file
  (`logstore_worker.c:116-119`).
- A scan with pruning notes the end of the file before it reads the index. A worker
  that still flushes queued requests puts entries behind that end, and the scan
  removes them although they are right. `RecoveryKeepsSynced` is stated for a scan
  that starts with no request under way.
- `po_logstore_get` copies an offset from LMDB into the index in memory after the
  worker may have entered a newer one: the old value is then returned until the next
  append of the key. `IndexSound` says that it is a value of that key.
- A short write is taken for a success (`logstore_worker.c:224`), and the index is
  committed before the file is synced (235, 243). `MayBeUnsound` lists these and the
  other cases that `IndexSound` leaves out.
- A batch without vectors is not counted for `PO_LS_FSYNC_EVERY_N`.
- A record is lost to the pool of the logger when a thread stalls between claiming and
  releasing its place of the free list (`logger.c:168` ignores the failure).
- An overflow notice is queued without a token (`logger.c:906`), so it, and a message
  behind it, may wait for the next message. `LoggedIsWritten` makes an exception of this,
  not of drops as such.
- The overflow policies of `logger.c:744-761` are never reached (`PoolFits`): with
  `LOGGER_OVERWRITE_OLDEST` too the new message is dropped.
- `write_record`, "called from consumer thread only" (`logger.c:366`), is called by
  logging threads as well (856, 907, 913).
- The error paths of open call close before the batcher exists (`logstore.c:115`), and
  close dereferences it (224).

### Documents that restrict what the code does

Some headers allow less than the code bears and the programs use. The models follow the
code; the headers look older than it.

- `ringbuf.h` says "The implementation targets SPSC" and "Multi-producer misuse will
  manifest as lost writes or torn indices" (`libs/ring0/postoffice/perf/ringbuf.h:19-22`),
  and "Single Producer Only", "Single Consumer Only"
  (`include/postoffice/perf/ringbuf.h:46,57`). `ringbuf.c` claims places by
  compare-and-swap and publishes them by sequence numbers; `SlotOwnership` and
  `IsBoundedQueue` hold for several producers and consumers. The logger relies on it.
- `net.h` calls acquire, release and receive not thread-safe, "Underlying pool is SPSC;
  unsafe for concurrent ops" (`include/postoffice/net/net.h:100-121,154,177`), and
  `libs/ring3/postoffice/perf/zerocopy.h:20` asks for external synchronization.
  `zerocopy.c` takes a mutex around its free queue (156, 186) and `net.c` counts its
  callers; `BuffersConserved` and `HeldIsAlive` hold for any number of them. User threads
  and handlers of the broker do call at once.
- `batcher.h` is "intended for exactly one producer thread"
  (`libs/ring2/postoffice/perf/batcher.h:17`), unless the ring is safe for several
  (`include/postoffice/perf/batcher.h:48`), which it is. The price is a token spent on a
  place not yet filled, as described above.

## Not modelled

`PROJECT.json` lists every component with its sources and the reason.

- **No shared state the simulation depends on:** the text user interface and renderer,
  configuration and argument parsing, backtraces, system information, prime and random
  numbers, performance counters, benchmarks.
- **Sequential containers** (priority queue, hash table and set, vector): the models
  use what they promise, as sets, maps and sequences; their unit tests cover the rest.
- **Sort**: a parallel quicksort for reports and vectors; no modelled decision depends
  on it.
- **Framing, protocol, poller, sockets**: bytes of one message on one connection. Their
  outcomes (an answer, a timeout, a refused connection) are in `TicketService`.
- **Load balancer and control bridge**: the first has an input that is always zero, the
  second a loop that nobody calls.
- **Set-up**: fork and exec, creation and attachment of the shared segment, the main
  program. They are over before the modelled processes run; crash, SIGTERM and reaping
  of children are in `DayBarrier`.
- **In the logging modules**: `perf_batcher_flush`, called by tests only; LOG_FATAL;
  the set-up of sinks; failures of open before the workers are started, and of a worker's
  own allocation; limits on the lengths of an append; a failed write to the eventfd; a
  second failed `lseek` in the writes without vectors, and the errors these log; threads
  that use the ring of the logger while it is being freed; more than one consumer or
  flush worker (the proofs allow any number of workers); batches of more than
  `IOV_MAX / 4` records.
- **LMDB** is an external store; `pwritev`, `fsync`, kills and power failures are
  modelled from how the code uses them.
