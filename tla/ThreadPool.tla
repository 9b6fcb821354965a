----------------------------- MODULE ThreadPool -----------------------------
(***************************************************************************)
(* The thread pool of ring1 (threadpool.c): a bounded list of tasks under  *)
(* one mutex, threads that sleep on one condition variable, and a shutdown *)
(* that joins them. A step is what happens under one hold of the mutex.    *)
(* What a task does is the user's business (UsersSpawn is one).            *)
(***************************************************************************)
EXTENDS Naturals, FiniteSets, Sequences

CONSTANTS
    Threads,
    Tasks,          \* the tasks a run may submit
    NoTask,         \* what a thread holds between two tasks
    QueueSize       \* queue_size, after 0 has been taken for SIZE_MAX

ASSUME ThreadsAssumption == IsFiniteSet(Threads) /\ Threads # {}
ASSUME TasksAssumption == NoTask \notin Tasks
ASSUME QueueAssumption == QueueSize \in Nat

VARIABLES
    tpc,            \* where each thread is
    held,           \* the task each thread has taken
    queue,          \* queue_head .. queue_tail
    shutdown, graceful,
    owner,          \* the pool: being created, in use, being destroyed, freed
    counter,        \* *external_active_counter
    accepted,       \* history: tasks for which tp_submit returned 0
    executed        \* history: tasks whose function has returned

pool == <<tpc, held, queue, shutdown, graceful, owner, counter, accepted, executed>>

TypeOK ==
    /\ tpc \in [Threads ->
        {"new", "check", "asleep", "woken", "taken", "running", "exited"}]
    /\ held \in [Threads -> Tasks \cup {NoTask}]
    /\ queue \in Seq(Tasks)
    /\ Len(queue) <= QueueSize
    /\ shutdown \in BOOLEAN /\ graceful \in BOOLEAN
    /\ owner \in {"creating", "open", "joining", "gone"}
    /\ counter \in 0..Cardinality(Threads)
    /\ accepted \subseteq Tasks
    /\ executed \subseteq Tasks

Init ==
    /\ tpc = [t \in Threads |-> "new"]
    /\ held = [t \in Threads |-> NoTask]
    /\ queue = <<>>
    /\ shutdown = FALSE /\ graceful = FALSE
    /\ owner = "creating"
    /\ counter = 0
    /\ accepted = {}
    /\ executed = {}

Asleep == {t \in Threads : tpc[t] = "asleep"}
Woken == {t \in Threads : tpc[t] = "woken"}

(* pthread_cond_broadcast *)
WakeAll == tpc' = [t \in Threads |-> IF tpc[t] = "asleep" THEN "woken" ELSE tpc[t]]

(* pthread_cond_signal: one of the threads that sleep, if any does *)
WakeOne ==
    \/ Asleep = {} /\ UNCHANGED tpc
    \/ \E t \in Asleep : tpc' = [tpc EXCEPT ![t] = "woken"]

-----------------------------------------------------------------------------
(* tp_create *)

StartThread(t) ==
    /\ owner = "creating"
    /\ tpc[t] = "new"
    /\ tpc' = [tpc EXCEPT ![t] = "check"]
    /\ UNCHANGED <<held, queue, shutdown, graceful, owner, counter, accepted, executed>>

Created ==
    /\ owner = "creating"
    /\ \A t \in Threads : tpc[t] # "new"
    /\ owner' = "open"
    /\ UNCHANGED <<tpc, held, queue, shutdown, graceful, counter, accepted, executed>>

(* tp_destroy, up to the joins *)
BeginDestroy(g) ==
    /\ shutdown' = TRUE
    /\ graceful' = g
    /\ WakeAll
    /\ owner' = "joining"
    /\ UNCHANGED <<held, queue, counter, accepted, executed>>

(* pthread_create fails: tp_destroy(pool, 0) *)
CreateFails ==
    /\ owner = "creating"
    /\ \E t \in Threads : tpc[t] = "new"
    /\ BeginDestroy(FALSE)

-----------------------------------------------------------------------------
(* tp_submit *)

(* Mutant: signals only when the list was empty. *)
SubmitSignalsFirst(x) ==
    /\ owner = "open"
    /\ x \notin accepted
    /\ ~shutdown
    /\ Len(queue) < QueueSize
    /\ queue' = Append(queue, x)
    /\ accepted' = accepted \cup {x}
    /\ IF queue = <<>> THEN WakeOne ELSE UNCHANGED tpc
    /\ UNCHANGED <<held, shutdown, graceful, owner, counter, executed>>

Submit(x) ==
    /\ owner = "open"
    /\ x \notin accepted
    /\ ~shutdown
    /\ Len(queue) < QueueSize
    /\ queue' = Append(queue, x)
    /\ accepted' = accepted \cup {x}
    /\ WakeOne
    /\ UNCHANGED <<held, shutdown, graceful, owner, counter, executed>>

-----------------------------------------------------------------------------
(* tp_worker *)

HasMutex(t) == tpc[t] \in {"check", "woken"}

Sleep(t) ==
    /\ HasMutex(t)
    /\ queue = <<>> /\ ~shutdown
    /\ tpc' = [tpc EXCEPT ![t] = "asleep"]
    /\ UNCHANGED <<held, queue, shutdown, graceful, owner, counter, accepted, executed>>

SpuriousWakeup(t) ==
    /\ tpc[t] = "asleep"
    /\ tpc' = [tpc EXCEPT ![t] = "woken"]
    /\ UNCHANGED <<held, queue, shutdown, graceful, owner, counter, accepted, executed>>

(* Mutant: a thread that sees the shutdown exits whatever is queued. *)
ExitAtOnce(t) ==
    /\ HasMutex(t)
    /\ shutdown
    /\ tpc' = [tpc EXCEPT ![t] = "exited"]
    /\ UNCHANGED <<held, queue, shutdown, graceful, owner, counter, accepted, executed>>

Exit(t) ==
    /\ HasMutex(t)
    /\ shutdown
    /\ ~graceful \/ queue = <<>>
    /\ tpc' = [tpc EXCEPT ![t] = "exited"]
    /\ UNCHANGED <<held, queue, shutdown, graceful, owner, counter, accepted, executed>>

(* Mutant: the head is read but not unlinked. *)
TakeKeeps(t) ==
    /\ HasMutex(t)
    /\ queue # <<>>
    /\ ~shutdown \/ graceful
    /\ held' = [held EXCEPT ![t] = Head(queue)]
    /\ tpc' = [tpc EXCEPT ![t] = "taken"]
    /\ UNCHANGED <<queue, shutdown, graceful, owner, counter, accepted, executed>>

Take(t) ==
    /\ HasMutex(t)
    /\ queue # <<>>
    /\ ~shutdown \/ graceful
    /\ held' = [held EXCEPT ![t] = Head(queue)]
    /\ queue' = Tail(queue)
    /\ tpc' = [tpc EXCEPT ![t] = "taken"]
    /\ UNCHANGED <<shutdown, graceful, owner, counter, accepted, executed>>

Run(t) ==
    /\ tpc[t] = "taken"
    /\ counter' = counter + 1
    /\ tpc' = [tpc EXCEPT ![t] = "running"]
    /\ UNCHANGED <<held, queue, shutdown, graceful, owner, accepted, executed>>

(* The task's function has returned. *)
Finish(t) ==
    /\ tpc[t] = "running"
    /\ counter' = counter - 1
    /\ executed' = executed \cup {held[t]}
    /\ held' = [held EXCEPT ![t] = NoTask]
    /\ tpc' = [tpc EXCEPT ![t] = "check"]
    /\ UNCHANGED <<queue, shutdown, graceful, owner, accepted>>

-----------------------------------------------------------------------------
(* tp_destroy *)

Destroy(g) ==
    /\ owner = "open"
    /\ BeginDestroy(g)

(* Every started thread is joined; the tasks left over are freed. *)
Joined ==
    /\ owner = "joining"
    /\ \A t \in Threads : tpc[t] \in {"exited", "new"}
    /\ owner' = "gone"
    /\ queue' = <<>>
    /\ UNCHANGED <<tpc, held, shutdown, graceful, counter, accepted, executed>>

-----------------------------------------------------------------------------
ThreadStep(t) == Sleep(t) \/ Exit(t) \/ Take(t) \/ Run(t) \/ Finish(t)

OwnerStep ==
    \/ \E t \in Threads : StartThread(t)
    \/ Created
    \/ CreateFails
    \/ \E x \in Tasks : Submit(x)
    \/ \E g \in BOOLEAN : Destroy(g)
    \/ Joined

Next ==
    \/ \E t \in Threads : ThreadStep(t) \/ SpuriousWakeup(t)
    \/ OwnerStep

Spec == Init /\ [][Next]_pool

-----------------------------------------------------------------------------
(* Properties *)

(***************************************************************************)
(* No wakeup is lost: while a thread sleeps, there are no more tasks in    *)
(* the list than threads on their way to look at it. One signal per task   *)
(* is enough although a thread that has just finished may take the task    *)
(* of the thread that was signalled.                                       *)
(***************************************************************************)
WorkConserving == Asleep # {} => Len(queue) <= Cardinality(Woken)

Busy == {t \in Threads : tpc[t] \in {"taken", "running"}}
InQueue == {queue[i] : i \in 1..Len(queue)}

(***************************************************************************)
(* No task is run twice: a task is queued once, held by one thread, or     *)
(* executed.                                                               *)
(***************************************************************************)
TaskOnce ==
    /\ \A i, j \in 1..Len(queue) : queue[i] = queue[j] => i = j
    /\ \A s, t \in Busy : held[s] = held[t] => s = t
    /\ \A t \in Busy : held[t] \notin InQueue \cup executed
    /\ InQueue \cap executed = {}

(***************************************************************************)
(* tp_destroy's `If true, wait for pending tasks to finish': once the pool *)
(* is freed no thread runs, and after a graceful destroy everything that   *)
(* was accepted has been executed.                                         *)
(***************************************************************************)
GracefulDrains ==
    owner = "gone" => Busy = {} /\ (graceful => executed = accepted)
=============================================================================
