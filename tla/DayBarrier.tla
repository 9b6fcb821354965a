----------------------------- MODULE DayBarrier -----------------------------
(***************************************************************************)
(* The rendezvous at the start of every simulated day: the director        *)
(* (director_time.c, synchronize_simulation_barrier) opens a barrier in    *)
(* shared memory, every subsystem joins it (sim_client.c,                  *)
(* sim_client_wait_barrier), and the director releases it when             *)
(* required_count processes have joined.                                   *)
(*                                                                         *)
(* A section under sync.mutex is one step, except the director's opening   *)
(* section, whose stores clients see without the lock; while the director  *)
(* is in it no client can take the mutex. The condition variables have     *)
(* timeouts, so a waiter may wake at any time and a lost signal only       *)
(* delays it. Time within a day and the users the director first waits for *)
(* are left to other modules.                                              *)
(***************************************************************************)
EXTENDS Naturals, FiniteSets

CONSTANTS
    Managers,   \* the users manager
    Brokers,    \* the work broker
    Workers,    \* the worker process
    Days,       \* bound: params.sim_duration_days
    MaxCrashes, \* bound: how many subsystems may die by themselves
    LongDays    \* TRUE: a released client wakes before the day is over

Clients == Managers \cup Brokers \cup Workers

ASSUME ClientsAssumption == IsFiniteSet(Clients)
ASSUME BoundsAssumption == Days \in Nat \ {0} /\ MaxCrashes \in Nat
ASSUME LongDaysAssumption == LongDays \in BOOLEAN

VARIABLES
    day_seq, barrier_active, ready_count,   \* shm->sync
    dpc, day, running,  \* the director: position, local day, *running_flag
    sigchld,            \* its *sigchld_flag
    cpc,                \* where each client is
    barrier_day,        \* its local copy of day_seq
    last_day,           \* its *last_synced_day
    term,               \* SIGTERM has reached it: its own shutdown flag
    flag                \* the flag a worker passes: a copy of term (shut_out)

sync == <<day_seq, barrier_active, ready_count>>
director == <<dpc, day, running, sigchld>>
client == <<cpc, barrier_day, last_day, term, flag>>
vars == <<sync, director, client>>

DirectorPc == {"users", "closed", "opening", "waiting", "day", "ended",
               "reaping", "reaped"}
ClientPc == {"work", "gather", "poll", "spin", "lock", "release", "exited", "dead"}

TypeOK ==
    /\ day_seq \in 0..Days
    /\ barrier_active \in BOOLEAN
    /\ ready_count \in Nat
    /\ dpc \in DirectorPc
    /\ day \in 1..(Days + 1)
    /\ running \in BOOLEAN
    /\ sigchld \in BOOLEAN
    /\ cpc \in [Clients -> ClientPc]
    /\ barrier_day \in [Clients -> 0..Days]
    /\ last_day \in [Clients -> 0..Days]
    /\ term \in [Clients -> BOOLEAN]
    /\ flag \in [Clients -> BOOLEAN]

Init ==
    /\ day_seq = 0
    /\ barrier_active = FALSE
    /\ ready_count = 0
    /\ dpc = "users"
    /\ day = 1
    /\ running = TRUE
    /\ sigchld = FALSE
    /\ cpc = [c \in Clients |-> IF c \in Workers THEN "gather" ELSE "work"]
    /\ barrier_day = [c \in Clients |-> 0]
    /\ last_day = [c \in Clients |-> 0]
    /\ term = [c \in Clients |-> FALSE]
    /\ flag = [c \in Clients |-> FALSE]

(* atomic_store(&shm->sync.required_count, 1 + 2): one per subsystem *)
RequiredCount == Cardinality(Clients)

-----------------------------------------------------------------------------
(* The director *)

(* The users have connected, or a signal ended the wait for them. *)
UsersConnected ==
    /\ dpc = "users"
    /\ dpc' = "closed"
    /\ UNCHANGED <<sync, day, running, sigchld, client>>

(* Mutant: the count of the day before is not reset. *)
OpenBarrierNoReset ==
    /\ dpc = "closed"
    /\ running
    /\ day_seq' = day
    /\ dpc' = "opening"
    /\ UNCHANGED <<barrier_active, ready_count, day, running, sigchld, client>>

OpenBarrier ==
    /\ dpc = "closed"
    /\ running
    /\ ready_count' = 0
    /\ day_seq' = day
    /\ dpc' = "opening"
    /\ UNCHANGED <<barrier_active, day, running, sigchld, client>>

SkipBarrier ==
    /\ dpc = "closed"
    /\ ~running
    /\ dpc' = "day"
    /\ UNCHANGED <<sync, day, running, sigchld, client>>

ActivateBarrier ==
    /\ dpc = "opening"
    /\ barrier_active' = TRUE
    /\ dpc' = "waiting"
    /\ UNCHANGED <<day_seq, ready_count, day, running, sigchld, client>>

(* Mutant: does not wait for the last process. *)
ReleaseBarrierEarly ==
    /\ dpc = "waiting"
    /\ ready_count + 1 >= RequiredCount \/ ~running
    /\ barrier_active' = FALSE
    /\ dpc' = "day"
    /\ UNCHANGED <<day_seq, ready_count, day, running, sigchld, client>>

(* The loop on ready_count ends; the waiters are released. *)
ReleaseBarrier ==
    /\ dpc = "waiting"
    /\ ready_count >= RequiredCount \/ ~running
    /\ barrier_active' = FALSE
    /\ dpc' = "day"
    /\ UNCHANGED <<day_seq, ready_count, day, running, sigchld, client>>

(* sigchld is looked at between two ticks of the clock only. *)
NoticeCrash ==
    /\ dpc = "day"
    /\ running
    /\ sigchld
    /\ sigchld' = FALSE
    /\ running' = FALSE
    /\ dpc' = "ended"
    /\ UNCHANGED <<sync, day, client>>

AllAwake == \A c \in Clients : cpc[c] # "release"

(* The clock runs from 00:00 to 24:00; a SIGCHLD after the last look at *)
(* the flag stays pending.                                              *)
DayOver ==
    /\ dpc = "day"
    /\ running
    /\ LongDays => AllAwake
    /\ day' = day + 1
    /\ dpc' = IF day + 1 > Days THEN "ended" ELSE "closed"
    /\ UNCHANGED <<sync, running, sigchld, client>>

LeaveClock ==
    /\ dpc = "day"
    /\ ~running
    /\ dpc' = "ended"
    /\ UNCHANGED <<sync, day, running, sigchld, client>>

(* terminate_all_simulation_subsystems: SIGTERM to all, then wait for all *)
Terminate ==
    /\ dpc = "ended"
    /\ dpc' = "reaping"
    /\ term' = [c \in Clients |-> TRUE]
    /\ UNCHANGED <<sync, day, running, sigchld, cpc, barrier_day, last_day, flag>>

Reap ==
    /\ dpc = "reaping"
    /\ \A c \in Clients : cpc[c] \in {"exited", "dead"}
    /\ dpc' = "reaped"
    /\ UNCHANGED <<sync, day, running, sigchld, client>>

(* handle_signal *)
Interrupt ==
    /\ running
    /\ dpc \notin {"reaping", "reaped"}
    /\ running' = FALSE
    /\ UNCHANGED <<sync, dpc, day, sigchld, client>>

-----------------------------------------------------------------------------
(* The clients *)

(***************************************************************************)
(* The flag a client hands to sim_client_wait_barrier. The users manager   *)
(* and the broker pass the one their signal handler sets; the worker's     *)
(* serial thread passes a copy it made before the call.                    *)
(***************************************************************************)
Stopped(c) == IF c \in Workers THEN flag[c] ELSE term[c]

Go(c, label) == cpc' = [cpc EXCEPT ![c] = label]

(* The main loop comes round to the call; the broker makes it only when it *)
(* sees the barrier active.                                                *)
Enter(c) ==
    /\ cpc[c] = "work"
    /\ ~term[c]
    /\ c \in Managers \/ (c \in Brokers /\ barrier_active)
    /\ Go(c, "poll")
    /\ UNCHANGED <<sync, director, barrier_day, last_day, term, flag>>

(* The worker's threads leave their service loops when they see the barrier *)
(* or the signal, and gather at a barrier of their own; one of them then    *)
(* copies the flag and makes the call. WorkerSync has these threads.        *)
Gather(c) ==
    /\ c \in Workers
    /\ cpc[c] = "work"
    /\ barrier_active \/ term[c]
    /\ Go(c, "gather")
    /\ UNCHANGED <<sync, director, barrier_day, last_day, term, flag>>

StartSync(c) ==
    /\ cpc[c] = "gather"
    /\ flag' = [flag EXCEPT ![c] = term[c]]
    /\ Go(c, "poll")
    /\ UNCHANGED <<sync, director, barrier_day, last_day, term>>

ReadDaySeq(c) ==
    /\ cpc[c] = "poll"
    /\ ~Stopped(c)
    /\ day_seq > last_day[c]
    /\ barrier_day' = [barrier_day EXCEPT ![c] = day_seq]
    /\ Go(c, "spin")
    /\ UNCHANGED <<sync, director, last_day, term, flag>>

SeeActive(c) ==
    /\ cpc[c] = "spin"
    /\ ~Stopped(c)
    /\ barrier_active
    /\ Go(c, "lock")
    /\ UNCHANGED <<sync, director, barrier_day, last_day, term, flag>>

(* Mutant: looks at the flag in the outer loop only. *)
GiveUpPolling(c) ==
    /\ cpc[c] = "poll"
    /\ Stopped(c)
    /\ Go(c, "work")
    /\ UNCHANGED <<sync, director, barrier_day, last_day, term, flag>>

GiveUp(c) ==
    /\ cpc[c] \in {"poll", "spin"}
    /\ Stopped(c)
    /\ Go(c, "work")
    /\ UNCHANGED <<sync, director, barrier_day, last_day, term, flag>>

(* Mutant: the local day is not updated. *)
JoinForgetsDay(c) ==
    /\ cpc[c] = "lock"
    /\ dpc # "opening"
    /\ IF barrier_active
       THEN ready_count' = ready_count + 1 /\ Go(c, "release")
       ELSE Go(c, "work") /\ UNCHANGED ready_count
    /\ UNCHANGED <<day_seq, barrier_active, director, barrier_day, last_day, term, flag>>

(* Under the mutex: count myself in and wait for the release, unless the  *)
(* barrier was closed meanwhile.                                          *)
Join(c) ==
    /\ cpc[c] = "lock"
    /\ dpc # "opening"
    /\ IF barrier_active
       THEN /\ ready_count' = ready_count + 1
            /\ last_day' = [last_day EXCEPT ![c] = barrier_day[c]]
            /\ Go(c, "release")
       ELSE /\ Go(c, "work")
            /\ UNCHANGED <<ready_count, last_day>>
    /\ UNCHANGED <<day_seq, barrier_active, director, barrier_day, term, flag>>

(* Mutant: takes the first wake-up for the release. *)
WakeUnchecked(c) ==
    /\ cpc[c] = "release"
    /\ dpc # "opening"
    /\ Go(c, "work")
    /\ UNCHANGED <<sync, director, barrier_day, last_day, term, flag>>

Wake(c) ==
    /\ cpc[c] = "release"
    /\ dpc # "opening"
    /\ Stopped(c) \/ ~barrier_active
    /\ Go(c, "work")
    /\ UNCHANGED <<sync, director, barrier_day, last_day, term, flag>>

Exit(c) ==
    /\ cpc[c] \in {"work", "gather"}
    /\ term[c]
    /\ Go(c, "exited")
    /\ UNCHANGED <<sync, director, barrier_day, last_day, term, flag>>

(* A subsystem dies by itself; the kernel sends the director SIGCHLD. *)
Crash(c) ==
    /\ cpc[c] \notin {"exited", "dead"}
    /\ Cardinality({b \in Clients : cpc[b] = "dead"}) < MaxCrashes
    /\ Go(c, "dead")
    /\ sigchld' = TRUE
    /\ UNCHANGED <<sync, dpc, day, running, barrier_day, last_day, term, flag>>

-----------------------------------------------------------------------------
DirectorStep ==
    \/ UsersConnected \/ OpenBarrier \/ SkipBarrier \/ ActivateBarrier
    \/ ReleaseBarrier \/ NoticeCrash \/ DayOver \/ LeaveClock \/ Terminate
    \/ Reap

ClientStep(c) ==
    \/ Enter(c) \/ Gather(c) \/ StartSync(c) \/ ReadDaySeq(c) \/ SeeActive(c)
    \/ GiveUp(c) \/ Join(c) \/ Wake(c) \/ Exit(c)

Next ==
    \/ DirectorStep
    \/ Interrupt
    \/ \E c \in Clients : ClientStep(c) \/ Crash(c)

Spec == Init /\ [][Next]_vars

(* Every process keeps running; nothing forces a signal or a crash. *)
Fairness ==
    /\ WF_vars(DirectorStep)
    /\ \A c \in Clients : WF_vars(ClientStep(c))

FairSpec == Spec /\ Fairness

-----------------------------------------------------------------------------
(* Properties *)

Joined == {c \in Clients : last_day[c] = day_seq}

(***************************************************************************)
(* While a barrier is open, ready_count is the number of processes that    *)
(* have joined this day: nobody is counted twice, although the count is    *)
(* reset by one process and incremented by others.                         *)
(***************************************************************************)
CountIsExact ==
    dpc \in {"opening", "waiting"} => ready_count = Cardinality(Joined)

(***************************************************************************)
(* `We treat the Worker Process as a single participant': the clock of a   *)
(* day runs only after every subsystem has joined that day, unless the     *)
(* director was told to stop.                                              *)
(***************************************************************************)
DayStartsTogether ==
    (dpc = "day" /\ running) => \A c \in Clients : last_day[c] = day

(***************************************************************************)
(* Nobody is let into a day before its barrier is released: a client that  *)
(* returns from the wait with the mutex does so because the director       *)
(* released the barrier, or because it was told to stop.                   *)
(***************************************************************************)
ReturnTogether ==
    \A c \in Clients :
        (cpc[c] = "release" /\ cpc'[c] = "work" /\ ~Stopped(c))
            => (\A b \in Clients : last_day[b] >= last_day[c]) \/ ~running

NobodyAhead == [][ReturnTogether]_vars

(***************************************************************************)
(* Whoever waits for a release has been counted for the barrier that is    *)
(* open. A client still waiting for the last release when the next barrier *)
(* opens would wait for a release that waits for it.                       *)
(***************************************************************************)
WaitersAreCounted ==
    \A c \in Clients :
        (cpc[c] = "release" /\ barrier_active) => last_day[c] = day_seq

(***************************************************************************)
(* `Synchronizes all processes to start a new day altogether': a day whose *)
(* barrier the director opens does start, unless a subsystem has died.     *)
(***************************************************************************)
EveryDayStarts ==
    (dpc = "opening") ~> (dpc = "day" \/ \E c \in Clients : cpc[c] = "dead")

(***************************************************************************)
(* The users manager and the broker exit once they are told to, wherever   *)
(* in the barrier code the signal reaches them.                            *)
(***************************************************************************)
SubsystemsStop ==
    \A c \in Managers \cup Brokers : term[c] ~> (cpc[c] \in {"exited", "dead"})

(***************************************************************************)
(* `late user/worker exits do not block': once the clock has ended, the    *)
(* director reaps its children and goes on to clean up.                    *)
(***************************************************************************)
ShutdownCompletes == (dpc = "ended") ~> (dpc = "reaped")
=============================================================================
