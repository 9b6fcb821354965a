----------------------------- MODULE UsersSpawn -----------------------------
(***************************************************************************)
(* The users manager (users_manager.c, users_spawn.c): its main thread     *)
(* spawns users up to a target population, each as a task of the thread    *)
(* pool and in a slot of its own, stops them through the slot's flag, and  *)
(* at the end drains the pool. waitgroup.c is the count `wg'.              *)
(*                                                                         *)
(* What a user does inside its loop is TicketService; here it may return   *)
(* once the clock runs, and must when its flag is cleared. The barrier of  *)
(* a day is DayBarrier; here a day may start once the director's clock     *)
(* runs, which waits for the initial users to connect.                     *)
(***************************************************************************)
EXTENDS ThreadPool

CONSTANTS
    Capacity,       \* MAX_USER_CAPACITY
    Initial,        \* --initial, the director's expected_users
    Batch,          \* --batch
    ScaleBy,        \* 10 in the code
    MaxTarget,      \* bound on g_target_population
    MaxFaults       \* bound on failed allocations

ASSUME UsersAssumption ==
    /\ Capacity \in Nat \ {0} /\ QueueSize = Capacity
    /\ {Initial, Batch, ScaleBy, MaxTarget, MaxFaults} \subseteq Nat
    /\ Initial <= MaxTarget

VARIABLES
    occupied, cont, \* slots with is_occupied, with should_continue_running
    wg,             \* g_user_wg->count
    connected,      \* stats.connected_users
    target,         \* g_target_population
    requested,      \* g_shutdown_requested
    clock,          \* the director has seen the initial users
    mpc, ret,       \* the main thread, and where users_spawn_new returns to
    k,              \* its loop counter
    slot,           \* its index into g_user_slots
    slotOf,         \* ctx->slot of each task
    upc,            \* where each user is in execute_user_simulation
    faults

main == <<mpc, ret, k, slot>>
user == <<connected, slotOf, upc>>
slots == <<occupied, cont, wg>>
signals == <<target, requested>>
vars == <<pool, main, user, slots, signals, clock, faults>>

Slots == 0..(Capacity - 1)

UsersTypeOK ==
    /\ TypeOK
    /\ occupied \subseteq Slots /\ cont \subseteq Slots
    /\ wg \in 0..Capacity
    /\ connected \in 0..Cardinality(Threads)
    /\ target \in 0..MaxTarget
    /\ requested \in BOOLEAN /\ clock \in BOOLEAN
    /\ mpc \in {"init", "prespawn", "day", "control", "up", "down", "spawning",
                "stopping", "spawn", "scan", "claimed", "submit",
                "shutdown", "destroy", "join", "exit"}
    /\ ret \in {"prespawn", "spawning"}
    /\ k \in 0..MaxTarget \cup 0..Capacity
    /\ slot \in 0..Capacity
    /\ slotOf \in [Tasks -> Slots]
    /\ upc \in [Tasks -> {"none", "queued", "in", "out", "freed", "done"}]
    /\ faults \in 0..MaxFaults

(* users_spawn_init, up to the creation of the pool *)
UsersInit ==
    /\ Init
    /\ occupied = {} /\ cont = {}
    /\ wg = 0 /\ connected = 0
    /\ target = Initial
    /\ requested = FALSE /\ clock = FALSE
    /\ mpc = "init" /\ ret = "prespawn"
    /\ k = 0 /\ slot = 0
    /\ slotOf = [x \in Tasks |-> 0]
    /\ upc = [x \in Tasks |-> "none"]
    /\ faults = 0

Fault ==
    /\ faults < MaxFaults
    /\ faults' = faults + 1

(* A counter or an index that will not be read again is left at 0. *)
Goto(l) == mpc' = l /\ UNCHANGED <<ret, k, slot>>
Return == mpc' = ret /\ slot' = 0 /\ UNCHANGED <<ret, k>>

-----------------------------------------------------------------------------
(* users_spawn_init: tp_create returns a pool, or NULL. A pool that is     *)
(* gone while the main thread still uses it stands for NULL.               *)

CreatePool ==
    /\ mpc = "init"
    /\ \/ ((\E t \in Threads : StartThread(t)) \/ Created \/ Joined) /\ UNCHANGED faults
       \/ CreateFails /\ Fault
    /\ UNCHANGED <<main, user, slots, signals, clock>>

PoolReady ==
    /\ mpc = "init"
    /\ owner \in {"open", "gone"}
    /\ Goto("prespawn")
    /\ UNCHANGED <<pool, user, slots, signals, clock, faults>>

-----------------------------------------------------------------------------
(* main *)

(* Mutant: the first users, too, are left to the population control. *)
PreSpawnNone ==
    /\ mpc = "prespawn"
    /\ mpc' = "day" /\ UNCHANGED <<ret, k>>
    /\ UNCHANGED <<pool, slot, user, slots, signals, clock, faults>>

PreSpawn ==
    /\ mpc = "prespawn"
    /\ IF k < target
       THEN mpc' = "spawn" /\ ret' = "prespawn" /\ k' = k + 1
       ELSE mpc' = "day" /\ UNCHANGED ret /\ k' = 0
    /\ UNCHANGED <<pool, slot, user, slots, signals, clock, faults>>

(* sim_client_wait_barrier returns: the day starts, or the signal came. *)
DayStarts ==
    /\ mpc = "day"
    /\ IF requested THEN Goto("shutdown") ELSE clock /\ Goto("control")
    /\ UNCHANGED <<pool, user, slots, signals, clock, faults>>

(* current_pop; the target is read again for the difference. *)
Control ==
    /\ mpc = "control"
    /\ mpc' = IF wg < target THEN "up" ELSE IF wg > target THEN "down" ELSE "day"
    /\ k' = IF wg = target THEN 0 ELSE wg
    /\ UNCHANGED <<pool, ret, slot, user, slots, signals, clock, faults>>

RampUp ==
    /\ mpc = "up"
    /\ k' = IF target <= k THEN 0 ELSE IF target - k > Batch THEN Batch ELSE target - k
    /\ mpc' = "spawning"
    /\ UNCHANGED <<pool, ret, slot, user, slots, signals, clock, faults>>

RampDown ==
    /\ mpc = "down"
    /\ k' = IF target >= k THEN 0 ELSE k - target
    /\ mpc' = "stopping"
    /\ UNCHANGED <<pool, ret, slot, user, slots, signals, clock, faults>>

SpawnNext ==
    /\ mpc = "spawning"
    /\ IF k > 0
       THEN mpc' = "spawn" /\ ret' = "spawning" /\ k' = k - 1
       ELSE mpc' = "day" /\ UNCHANGED <<ret, k>>
    /\ UNCHANGED <<pool, slot, user, slots, signals, clock, faults>>

(* users_spawn_stop_random: the highest slot that is occupied and running. *)
StopRandom ==
    /\ mpc = "stopping"
    /\ LET running == occupied \cap cont IN
       cont' = {s \in cont : s \notin running \/ \E r \in running : r > s}
    /\ k' = k - 1

StopNext ==
    /\ \/ k > 0 /\ StopRandom /\ UNCHANGED mpc
       \/ k = 0 /\ mpc = "stopping" /\ mpc' = "day" /\ UNCHANGED <<k, cont>>
    /\ UNCHANGED <<pool, ret, slot, user, occupied, wg, signals, clock, faults>>

-----------------------------------------------------------------------------
(* users_spawn_new *)

(* Mutant: one user more than there are slots is let through. *)
TestCapacityLate ==
    /\ mpc = "spawn"
    /\ IF wg > Capacity THEN Return ELSE mpc' = "scan" /\ slot' = 0 /\ UNCHANGED <<ret, k>>
    /\ UNCHANGED <<pool, user, slots, signals, clock, faults>>

TestCapacity ==
    /\ mpc = "spawn"
    /\ IF wg >= Capacity THEN Return ELSE mpc' = "scan" /\ slot' = 0 /\ UNCHANGED <<ret, k>>
    /\ UNCHANGED <<pool, user, slots, signals, clock, faults>>

(* One compare-and-exchange of the scan; the flag is set with the slot,    *)
(* which no user reads before it is submitted.                             *)
Scan ==
    /\ mpc = "scan"
    /\ IF slot \in Slots \ occupied
       THEN /\ occupied' = occupied \cup {slot} /\ cont' = cont \cup {slot}
            /\ Goto("claimed")
       ELSE /\ IF slot = Capacity
               THEN Return
               ELSE slot' = slot + 1 /\ UNCHANGED <<mpc, ret, k>>
            /\ UNCHANGED <<occupied, cont>>
    /\ UNCHANGED <<pool, user, wg, signals, clock, faults>>

MallocFails ==
    /\ mpc = "claimed"
    /\ Fault
    /\ occupied' = occupied \ {slot}
    /\ Return
    /\ UNCHANGED <<pool, user, cont, wg, signals, clock>>

WgAdd ==
    /\ mpc = "claimed"
    /\ wg' = wg + 1
    /\ Goto("submit")
    /\ UNCHANGED <<pool, user, occupied, cont, signals, clock, faults>>

(* tp_submit returns 0. *)
SubmitUser ==
    /\ mpc = "submit"
    /\ Tasks \ accepted # {}
    /\ LET x == CHOOSE y \in Tasks \ accepted : TRUE IN
        /\ Submit(x)
        /\ slotOf' = [slotOf EXCEPT ![x] = slot]
        /\ upc' = [upc EXCEPT ![x] = "queued"]
    /\ Return
    /\ UNCHANGED <<connected, slots, signals, clock, faults>>

(* tp_submit: no pool, a full list, or no memory. When the bounded set of  *)
(* tasks is used up, memory is.                                            *)
SubmitFails ==
    \/ (owner = "gone" \/ Len(queue) >= QueueSize \/ Tasks \ accepted = {}) /\ UNCHANGED faults
    \/ Fault

(* Mutant: the rollback forgets the wait group. *)
RollbackSlotOnly ==
    /\ mpc = "submit"
    /\ SubmitFails
    /\ occupied' = occupied \ {slot}
    /\ Return
    /\ UNCHANGED <<pool, user, cont, wg, signals, clock>>

Rollback ==
    /\ mpc = "submit"
    /\ SubmitFails
    /\ wg' = wg - 1
    /\ occupied' = occupied \ {slot}
    /\ Return
    /\ UNCHANGED <<pool, user, cont, signals, clock>>

-----------------------------------------------------------------------------
(* execute_user_simulation, on the thread that runs the task *)

Executes(t, l) == tpc[t] = "running" /\ upc[held[t]] = l

Connect(t) ==
    /\ Executes(t, "queued")
    /\ connected' = connected + 1
    /\ upc' = [upc EXCEPT ![held[t]] = "in"]
    /\ UNCHANGED <<pool, main, slotOf, slots, signals, clock, faults>>

(* run_user_simulation_loop returns *)
LeaveLoop(t) ==
    /\ Executes(t, "in")
    /\ slotOf[held[t]] \notin cont \/ clock
    /\ connected' = connected - 1
    /\ upc' = [upc EXCEPT ![held[t]] = "out"]
    /\ UNCHANGED <<pool, main, slotOf, slots, signals, clock, faults>>

(* Mutant: the slot is computed anew from the user's random number. *)
FreeSlotRecalculated(t) ==
    /\ Executes(t, "out")
    /\ \E s \in Slots : occupied' = occupied \ {s}
    /\ upc' = [upc EXCEPT ![held[t]] = "freed"]
    /\ UNCHANGED <<pool, main, connected, slotOf, cont, wg, signals, clock, faults>>

FreeSlot(t) ==
    /\ Executes(t, "out")
    /\ occupied' = occupied \ {slotOf[held[t]]}
    /\ upc' = [upc EXCEPT ![held[t]] = "freed"]
    /\ UNCHANGED <<pool, main, connected, slotOf, cont, wg, signals, clock, faults>>

WgDone(t) ==
    /\ Executes(t, "freed")
    /\ wg' = wg - 1
    /\ upc' = [upc EXCEPT ![held[t]] = "done"]
    /\ UNCHANGED <<pool, main, connected, slotOf, occupied, cont, signals, clock, faults>>

(* The pool's own steps; a task returns after wg_done. *)
PoolStep(t) ==
    /\ \/ Sleep(t) \/ Exit(t) \/ Take(t) \/ Run(t)
       \/ Executes(t, "done") /\ Finish(t)
    /\ UNCHANGED <<main, user, slots, signals, clock, faults>>

Spurious(t) ==
    /\ SpuriousWakeup(t)
    /\ UNCHANGED <<main, user, slots, signals, clock, faults>>

-----------------------------------------------------------------------------
(* users_spawn_shutdown_all *)

(* Mutant: the users are not told to stop. *)
ClearNoFlags ==
    /\ mpc = "shutdown"
    /\ Goto("destroy")
    /\ UNCHANGED <<pool, user, slots, signals, clock, faults>>

ClearFlags ==
    /\ mpc = "shutdown"
    /\ cont' = {}
    /\ Goto("destroy")
    /\ UNCHANGED <<pool, user, occupied, wg, signals, clock, faults>>

DestroyPool ==
    /\ mpc = "destroy"
    /\ Destroy(TRUE) \/ (owner = "gone" /\ UNCHANGED pool)
    /\ Goto("join")
    /\ UNCHANGED <<user, slots, signals, clock, faults>>

(* tp_destroy returns and the wait group is freed. *)
FreeWaitGroup ==
    /\ mpc = "join"
    /\ Joined \/ (owner = "gone" /\ UNCHANGED pool)
    /\ Goto("exit")
    /\ UNCHANGED <<user, slots, signals, clock, faults>>

-----------------------------------------------------------------------------
(* Signals and the director *)

ScaleUp ==
    /\ target + ScaleBy <= MaxTarget
    /\ target' = target + ScaleBy

ScaleDown ==
    /\ target >= ScaleBy
    /\ target' = target - ScaleBy

(* Nobody reads the target, or the request, after the loop. *)
Signal ==
    /\ mpc \notin {"shutdown", "destroy", "join", "exit"}
    /\ \/ (ScaleUp \/ ScaleDown) /\ UNCHANGED requested
       \/ ~requested /\ requested' = TRUE /\ UNCHANGED target
    /\ UNCHANGED <<pool, main, user, slots, clock, faults>>

(* execute_simulation_clock_loop: connected_users is polled. *)
ClockStart ==
    /\ ~clock
    /\ connected >= Initial
    /\ clock' = TRUE
    /\ UNCHANGED <<pool, main, user, slots, signals, faults>>

-----------------------------------------------------------------------------
MainStep ==
    \/ CreatePool \/ PoolReady
    \/ PreSpawn \/ DayStarts \/ Control \/ RampUp \/ RampDown \/ SpawnNext \/ StopNext
    \/ TestCapacity \/ Scan \/ MallocFails \/ WgAdd \/ SubmitUser \/ Rollback
    \/ ClearFlags \/ DestroyPool \/ FreeWaitGroup

UserStep(t) == Connect(t) \/ LeaveLoop(t) \/ FreeSlot(t) \/ WgDone(t)

UsersNext ==
    \/ MainStep
    \/ \E t \in Threads : UserStep(t) \/ PoolStep(t) \/ Spurious(t)
    \/ Signal
    \/ ClockStart

(* Only a user whose flag is cleared is sure to return from its loop. *)
StoppedUserStep(t) == UserStep(t) /\ ~(Executes(t, "in") /\ slotOf[held[t]] \in cont)

UsersSpec == UsersInit /\ [][UsersNext]_vars

UsersFairSpec ==
    /\ UsersSpec
    /\ WF_vars(MainStep) /\ WF_vars(ClockStart)
    /\ \A t \in Threads : WF_vars(PoolStep(t)) /\ WF_vars(StoppedUserStep(t))

-----------------------------------------------------------------------------
(* Properties *)

Live == {x \in Tasks : upc[x] \in {"queued", "in", "out"}}

(***************************************************************************)
(* A slot belongs to one user from the claim to the release, so that the   *)
(* flag a user polls is nobody else's: the slots are reused while the last *)
(* user of a slot is still on its way out of the pool.                     *)
(***************************************************************************)
SlotExclusive ==
    /\ \A x \in Live : slotOf[x] \in occupied
    /\ \A x, y \in Live : slotOf[x] = slotOf[y] => x = y
    /\ mpc \in {"claimed", "submit"} =>
        slot \in occupied \ {slotOf[x] : x \in Live}

(***************************************************************************)
(* users_spawn_new, once past the test of the capacity, finds a slot (`No  *)
(* free slots found (Internal mismatch?)' is never logged) and room in the *)
(* pool's list, whatever users leave meanwhile.                            *)
(***************************************************************************)
SpawnFinds ==
    /\ mpc = "scan" => slot < Capacity
    /\ mpc = "submit" => Len(queue) < QueueSize

(***************************************************************************)
(* When users_spawn_shutdown_all frees the wait group, nobody is left to   *)
(* use it, and every count and slot has been given back.                   *)
(***************************************************************************)
AccountsSettle ==
    mpc = "exit" => /\ wg = 0 /\ connected = 0 /\ occupied = {}
                    /\ \A x \in Tasks : upc[x] \in {"none", "done"}

(***************************************************************************)
(* `Pre-spawn initial users to avoid deadlock with Director': the clock    *)
(* starts, unless an allocation fails, or a signal ends the program or     *)
(* lowers the target below the number the director waits for.              *)
(***************************************************************************)
ClockStarts == <>(clock \/ faults > 0 \/ requested \/ target < Initial)

(***************************************************************************)
(* The users manager exits after the signal, whatever its users and its    *)
(* population control were doing.                                          *)
(***************************************************************************)
ManagerExits == requested ~> mpc = "exit"
=============================================================================
