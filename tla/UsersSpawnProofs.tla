-------------------------- MODULE UsersSpawnProofs --------------------------
(***************************************************************************)
(* The users manager uses the thread pool as ThreadPool allows, so what is *)
(* proved of the pool holds of the manager; and it never hands out a slot  *)
(* twice. For any capacity, target, number of threads and of users.        *)
(***************************************************************************)
EXTENDS UsersSpawn, ThreadPoolProofs

(***************************************************************************)
(* Every step of the users manager is a step of the pool or leaves it.     *)
(***************************************************************************)
THEOREM UsesThePool == UsersSpec => Spec
<1>1. UsersInit => Init
  BY DEF UsersInit
<1>2. [UsersNext]_vars => [Next]_pool
  <2> SUFFICES ASSUME [UsersNext]_vars PROVE [Next]_pool
    OBVIOUS
  <2>1. CASE UNCHANGED vars
    BY <2>1 DEF vars
  <2>2. CASE CreatePool
    BY <2>2 DEF CreatePool, Next, OwnerStep
  <2>3. CASE SubmitUser
    <3> DEFINE x == CHOOSE y \in Tasks \ accepted : TRUE
    <3>1. Tasks \ accepted # {} /\ Submit(x)
      BY <2>3 DEF SubmitUser
    <3>2. x \in Tasks
      BY <3>1
    <3> QED
      BY <3>1, <3>2 DEF Next, OwnerStep
  <2>4. CASE DestroyPool
    BY <2>4 DEF DestroyPool, Next, OwnerStep
  <2>5. CASE FreeWaitGroup
    BY <2>5 DEF FreeWaitGroup, Next, OwnerStep
  <2>6. ASSUME NEW t \in Threads, PoolStep(t) \/ Spurious(t) PROVE Next
    BY <2>6 DEF PoolStep, Spurious, Next, ThreadStep
  <2>7. ASSUME NEW t \in Threads, UserStep(t) PROVE UNCHANGED pool
    BY <2>7 DEF UserStep, Connect, LeaveLoop, FreeSlot, WgDone
  <2>8. CASE Signal \/ ClockStart
    BY <2>8 DEF Signal, ClockStart
  <2>9. CASE \/ PoolReady \/ PreSpawn \/ DayStarts \/ Control \/ RampUp \/ RampDown
             \/ SpawnNext \/ StopNext
    BY <2>9 DEF PoolReady, PreSpawn, DayStarts, Control, RampUp, RampDown, SpawnNext, StopNext
  <2>10. CASE TestCapacity \/ Scan \/ MallocFails \/ WgAdd \/ Rollback \/ ClearFlags
    BY <2>10 DEF TestCapacity, Scan, MallocFails, WgAdd, Rollback, ClearFlags
  <2> QED
    BY <2>1, <2>2, <2>3, <2>4, <2>5, <2>6, <2>7, <2>8, <2>9, <2>10 DEF UsersNext, MainStep
<1> QED
  BY <1>1, <1>2, PTL DEF UsersSpec, Spec

-----------------------------------------------------------------------------
(* Slots *)

UTypes ==
    /\ occupied \subseteq Slots
    /\ ret \in {"prespawn", "spawning"}
    /\ slotOf \in [Tasks -> Slots]
    /\ upc \in [Tasks -> {"none", "queued", "in", "out", "freed", "done"}]
    /\ mpc \in {"claimed", "submit"} => slot \in Slots

SInv == UTypes /\ SlotExclusive

(* Steps that claim and release nothing. *)
LEMMA QuietSlots ==
    ASSUME SInv, UNCHANGED <<occupied, slotOf, upc>>, ret' \in {"prespawn", "spawning"},
           mpc' \in {"claimed", "submit"} => mpc \in {"claimed", "submit"} /\ slot' = slot
    PROVE  SInv'
<1>1. Live' = Live
  BY DEF Live
<1>2. UTypes'
  BY DEF SInv, UTypes
<1>3. SlotExclusive'
  BY <1>1 DEF SInv, SlotExclusive
<1> QED
  BY <1>2, <1>3 DEF SInv

(* Steps of a user that keep its slot. *)
LEMMA UserKeepsSlot ==
    ASSUME SInv, NEW t \in Threads, held[t] \in Tasks,
           Connect(t) \/ LeaveLoop(t) \/ WgDone(t)
    PROVE  SInv'
<1>1. /\ UNCHANGED <<main, occupied, slotOf>>
      /\ \/ upc[held[t]] = "queued" /\ upc' = [upc EXCEPT ![held[t]] = "in"]
         \/ upc[held[t]] = "in" /\ upc' = [upc EXCEPT ![held[t]] = "out"]
         \/ upc[held[t]] = "freed" /\ upc' = [upc EXCEPT ![held[t]] = "done"]
  BY DEF Connect, LeaveLoop, WgDone, Executes, slots
<1>2. UTypes' /\ Live' = Live
  BY <1>1 DEF SInv, UTypes, Live, main
<1>3. SlotExclusive'
  BY <1>1, <1>2 DEF SInv, SlotExclusive, main
<1> QED
  BY <1>2, <1>3 DEF SInv

LEMMA SlotStep ==
    ASSUME SInv, Types, [UsersNext]_vars
    PROVE  SInv'
<1> USE DEF Goto, Return
<1>1. CASE UNCHANGED vars
  BY <1>1, QuietSlots DEF vars, main, user, slots, SInv, UTypes
<1>2. CASE CreatePool \/ Signal \/ ClockStart
  BY <1>2, QuietSlots DEF CreatePool, Signal, ClockStart, main, user, slots, SInv, UTypes
<1>3. CASE PoolReady \/ PreSpawn \/ DayStarts \/ Control \/ RampUp \/ RampDown \/ SpawnNext
  BY <1>3, QuietSlots
  DEF PoolReady, PreSpawn, DayStarts, Control, RampUp, RampDown, SpawnNext,
      user, slots, SInv, UTypes
<1>4. CASE StopNext \/ TestCapacity \/ ClearFlags \/ DestroyPool \/ FreeWaitGroup
  BY <1>4, QuietSlots
  DEF StopNext, StopRandom, TestCapacity, ClearFlags, DestroyPool, FreeWaitGroup,
      user, slots, SInv, UTypes
<1>5. CASE WgAdd
  BY <1>5, QuietSlots DEF WgAdd, user, SInv, UTypes
<1>6. CASE Scan
  <2>1. CASE slot \in Slots \ occupied
    <3>1. /\ occupied' = occupied \cup {slot} /\ mpc' = "claimed"
          /\ UNCHANGED <<ret, slot, slotOf, upc>>
      BY <1>6, <2>1 DEF Scan, user
    <3>2. UTypes' /\ Live' = Live
      BY <2>1, <3>1 DEF SInv, UTypes, Live
    <3>3. SlotExclusive'
      BY <2>1, <3>1, <3>2 DEF SInv, SlotExclusive
    <3> QED
      BY <3>2, <3>3 DEF SInv
  <2>2. CASE slot \notin Slots \ occupied
    BY <1>6, <2>2, QuietSlots DEF Scan, user, SInv, UTypes
  <2> QED
    BY <2>1, <2>2
<1>7. CASE MallocFails \/ Rollback
  <2>1. /\ mpc \in {"claimed", "submit"} /\ mpc' = ret
        /\ occupied' = occupied \ {slot}
        /\ UNCHANGED <<ret, slotOf, upc>>
    BY <1>7 DEF MallocFails, Rollback, user
  <2>2. UTypes' /\ Live' = Live
    BY <2>1 DEF SInv, UTypes, Live
  <2>3. SlotExclusive'
    BY <2>1, <2>2 DEF SInv, SlotExclusive, UTypes
  <2> QED
    BY <2>2, <2>3 DEF SInv
<1>8. CASE SubmitUser
  <2> DEFINE x == CHOOSE y \in Tasks \ accepted : TRUE
  <2>1. /\ mpc = "submit" /\ mpc' = ret /\ Tasks \ accepted # {}
        /\ slotOf' = [slotOf EXCEPT ![x] = slot]
        /\ upc' = [upc EXCEPT ![x] = "queued"]
        /\ UNCHANGED <<ret, occupied>>
    BY <1>8 DEF SubmitUser, slots
  <2>2. x \in Tasks
    BY <2>1
  <2> HIDE DEF x
  <2>3. UTypes' /\ Live' = Live \cup {x}
    BY <2>1, <2>2 DEF SInv, UTypes, Live
  <2>4. /\ slotOf'[x] = slot /\ slot \in occupied
        /\ \A y \in Live \ {x} : slotOf'[y] = slotOf[y] /\ slotOf[y] # slot
    BY <2>1, <2>2 DEF SInv, UTypes, SlotExclusive, Live
  <2>5. SlotExclusive'
    BY <2>1, <2>3, <2>4 DEF SInv, UTypes, SlotExclusive
  <2> QED
    BY <2>3, <2>5 DEF SInv
<1>9. ASSUME NEW t \in Threads, UserStep(t) PROVE SInv'
  <2>1. held[t] \in Tasks
    BY <1>9 DEF UserStep, Connect, LeaveLoop, FreeSlot, WgDone, Executes, Types, Busy
  <2>2. CASE FreeSlot(t)
    <3>1. /\ upc[held[t]] = "out" /\ upc' = [upc EXCEPT ![held[t]] = "freed"]
          /\ occupied' = occupied \ {slotOf[held[t]]}
          /\ UNCHANGED <<mpc, ret, slot, slotOf>>
      BY <2>2 DEF FreeSlot, Executes, main
    <3>2. UTypes' /\ Live' = Live \ {held[t]} /\ held[t] \in Live
      BY <2>1, <3>1 DEF SInv, UTypes, Live
    <3>3. SlotExclusive'
      BY <3>1, <3>2 DEF SInv, SlotExclusive
    <3> QED
      BY <3>2, <3>3 DEF SInv
  <2> QED
    BY <1>9, <2>1, <2>2, UserKeepsSlot DEF UserStep
<1>10. ASSUME NEW t \in Threads, PoolStep(t) \/ Spurious(t) PROVE SInv'
  BY <1>10, QuietSlots DEF PoolStep, Spurious, main, user, slots, SInv, UTypes
<1> QED
  BY <1>1, <1>2, <1>3, <1>4, <1>5, <1>6, <1>7, <1>8, <1>9, <1>10 DEF UsersNext, MainStep

(***************************************************************************)
(* No two users share a slot, and so a should_continue_running flag.       *)
(***************************************************************************)
THEOREM SlotSafe == UsersSpec => []SlotExclusive
<1>1. UsersInit => SInv
  BY UsersAssumption DEF UsersInit, SInv, UTypes, SlotExclusive, Live, Slots
<1>2. IInv => Types
  BY DEF IInv
<1>3. SInv => SlotExclusive
  BY DEF SInv
<1> QED
  BY <1>1, <1>2, <1>3, SlotStep, UsesThePool, Invariant, PTL DEF UsersSpec
=============================================================================
