----------------------------- MODULE WorkerSync -----------------------------
(***************************************************************************)
(* The threads of the worker process (worker_loop.c,                       *)
(* run_worker_service_loop) around the day barrier: they gather at a       *)
(* process-local pthread barrier, the serial thread goes through the       *)
(* global barrier for all of them, and a second local barrier lets them    *)
(* read the result. The director and the other subsystems are those of     *)
(* DayBarrier, which this module details. What a thread does while it      *)
(* serves is in TicketService.                                             *)
(***************************************************************************)
EXTENDS DayBarrier

CONSTANTS
    Threads,    \* the n_workers threads of the pool
    w           \* the worker process

ASSUME WorkerAssumption == Workers = {w}

VARIABLES
    wpc,        \* where each thread is
    wday,       \* its local last_day
    ctx         \* sync_ctx: current_day and shutdown_signal

wvars == <<wpc, wday, ctx>>

ThreadPc == {"top", "arrive", "serial", "sync", "result", "copy", "serve", "done"}

WorkerTypeOK ==
    /\ TypeOK
    /\ wpc \in [Threads -> ThreadPc]
    /\ wday \in [Threads -> 0..Days]
    /\ ctx \in [current_day : 0..Days, shutdown_signal : BOOLEAN]

WorkerInit ==
    /\ Init
    /\ wpc = [t \in Threads |-> "top"]
    /\ wday = [t \in Threads |-> 0]
    /\ ctx = [current_day |-> 0, shutdown_signal |-> FALSE]

Goes(t, label) == wpc' = [wpc EXCEPT ![t] = label]

(* while (!g_shutdown); term[w] is g_shutdown, set by the signal handler *)
LoopTest(t) ==
    /\ wpc[t] = "top"
    /\ cpc[w] # "dead"
    /\ Goes(t, IF term[w] THEN "done" ELSE "arrive")
    /\ UNCHANGED <<vars, wday, ctx>>

(* pthread_barrier_wait returns in all threads when the last has arrived,  *)
(* with PTHREAD_BARRIER_SERIAL_THREAD in one of them.                      *)
FirstBarrier(s) ==
    /\ \A t \in Threads : wpc[t] = "arrive"
    /\ cpc[w] # "dead"
    /\ wpc' = [t \in Threads |-> IF t = s THEN "serial" ELSE "result"]
    /\ UNCHANGED <<vars, wday, ctx>>

(* Mutant: the local day starts from 0 in every round. *)
CallSyncFromZero(s) ==
    /\ wpc[s] = "serial"
    /\ cpc[w] = "gather"
    /\ flag' = [flag EXCEPT ![w] = term[w]]
    /\ last_day' = [last_day EXCEPT ![w] = 0]
    /\ Go(w, "poll")
    /\ Goes(s, "sync")
    /\ UNCHANGED <<sync, director, barrier_day, term, wday, ctx>>

CallSync(s) ==
    /\ wpc[s] = "serial"
    /\ cpc[w] = "gather"
    /\ flag' = [flag EXCEPT ![w] = term[w]]
    /\ last_day' = [last_day EXCEPT ![w] = wday[s]]
    /\ Go(w, "poll")
    /\ Goes(s, "sync")
    /\ UNCHANGED <<sync, director, barrier_day, term, wday, ctx>>

(* sim_client_wait_barrier has returned: publish the day and the flag. *)
PublishResult(s) ==
    /\ wpc[s] = "sync"
    /\ cpc[w] = "work"
    /\ ctx' = [current_day |-> last_day[w], shutdown_signal |-> flag[w]]
    /\ Goes(s, "result")
    /\ UNCHANGED <<vars, wday>>

SecondBarrier ==
    /\ \A t \in Threads : wpc[t] = "result"
    /\ cpc[w] # "dead"
    /\ wpc' = [t \in Threads |-> "copy"]
    /\ UNCHANGED <<vars, wday, ctx>>

(* The process is at its local barrier again when no thread is left in the *)
(* part of the loop that follows the global one.                           *)
Gathered ==
    \A t \in Threads : wpc'[t] \in {"top", "arrive", "done"}

AfterStep == IF Gathered THEN Go(w, "gather") ELSE UNCHANGED cpc

(* Mutant: the day is not copied. *)
CopyResultNoDay(t) ==
    /\ wpc[t] = "copy"
    /\ cpc[w] # "dead"
    /\ term' = [term EXCEPT ![w] = @ \/ ctx.shutdown_signal]
    /\ Goes(t, IF term'[w] THEN "done" ELSE "serve")
    /\ AfterStep
    /\ UNCHANGED <<sync, director, barrier_day, last_day, flag, wday, ctx>>

CopyResult(t) ==
    /\ wpc[t] = "copy"
    /\ cpc[w] # "dead"
    /\ wday' = [wday EXCEPT ![t] = ctx.current_day]
    /\ term' = [term EXCEPT ![w] = @ \/ ctx.shutdown_signal]
    /\ Goes(t, IF term'[w] THEN "done" ELSE "serve")
    /\ AfterStep
    /\ UNCHANGED <<sync, director, barrier_day, last_day, flag, ctx>>

(* Mutant: only the signal ends the service loop. *)
LeaveServiceOnSignal(t) ==
    /\ wpc[t] = "serve"
    /\ cpc[w] # "dead"
    /\ term[w]
    /\ Goes(t, "top")
    /\ AfterStep
    /\ UNCHANGED <<sync, director, barrier_day, last_day, term, flag, wday, ctx>>

(* The service loop ends when it sees the next barrier or the signal. *)
LeaveService(t) ==
    /\ wpc[t] = "serve"
    /\ cpc[w] # "dead"
    /\ term[w] \/ barrier_active
    /\ Goes(t, "top")
    /\ AfterStep
    /\ UNCHANGED <<sync, director, barrier_day, last_day, term, flag, wday, ctx>>

(* wg_wait returns: every thread has left the loop. *)
ProcessExit ==
    /\ \A t \in Threads : wpc[t] = "done"
    /\ Exit(w)
    /\ UNCHANGED wvars

-----------------------------------------------------------------------------
ThreadStep(t) ==
    \/ LoopTest(t) \/ FirstBarrier(t) \/ CallSync(t) \/ PublishResult(t)
    \/ CopyResult(t) \/ LeaveService(t)

SyncCall == ReadDaySeq(w) \/ SeeActive(w) \/ GiveUp(w) \/ Join(w) \/ Wake(w)

WorkerNext ==
    \/ \E t \in Threads : ThreadStep(t)
    \/ SecondBarrier
    \/ ProcessExit
    \/ /\ \/ SyncCall
          \/ DirectorStep
          \/ Interrupt
          \/ \E c \in Clients \ {w} : ClientStep(c)
          \/ \E c \in Clients : Crash(c)
       /\ UNCHANGED wvars

WorkerSpec == WorkerInit /\ [][WorkerNext]_<<vars, wvars>>

WorkerFairness ==
    /\ WF_<<vars, wvars>>(DirectorStep /\ UNCHANGED wvars)
    /\ WF_<<vars, wvars>>(SyncCall /\ UNCHANGED wvars)
    /\ \A c \in Clients \ {w} : WF_<<vars, wvars>>(ClientStep(c) /\ UNCHANGED wvars)
    /\ \A t \in Threads : WF_<<vars, wvars>>(ThreadStep(t))
    /\ WF_<<vars, wvars>>(SecondBarrier)
    /\ WF_<<vars, wvars>>(ProcessExit)

WorkerFairSpec == WorkerSpec /\ WorkerFairness

-----------------------------------------------------------------------------
(* Properties *)

(***************************************************************************)
(* The shared context is not overwritten under a slow reader: what a       *)
(* thread copies after the second local barrier is the day its process has *)
(* joined, so all threads serve the same day, and none serves while the    *)
(* director is still collecting the processes of that day.                 *)
(***************************************************************************)
ThreadsServeTheDay ==
    \A t \in Threads :
        /\ wpc[t] = "copy" => ctx.current_day = last_day[w]
        /\ wpc[t] = "serve" => wday[t] = last_day[w]
        /\ (wpc[t] = "serve" /\ barrier_active /\ running) => wday[t] < day_seq

(***************************************************************************)
(* The threads together behave as the one participant DayBarrier has for   *)
(* the worker process.                                                     *)
(***************************************************************************)
Barrier == INSTANCE DayBarrier
IsOneParticipant == Barrier!Spec
=============================================================================
