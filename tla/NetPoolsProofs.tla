--------------------------- MODULE NetPoolsProofs ---------------------------
(***************************************************************************)
(* Proofs about NetPools for any owners, callers and buffers.              *)
(***************************************************************************)
EXTENDS NetPools, FiniteSetTheorems, TLAPS

USE FiniteAssumption

Types ==
    /\ life \in Stages /\ who \in Owners
    /\ owns \subseteq Owners
    /\ created \in [Sides -> 0..MaxPools]
    /\ pool \in [Sides -> 0..MaxPools]
    /\ free \in [Sides -> SUBSET Buffers]
    /\ shutting \subseteq Sides
    /\ users \in [Sides -> Nat]
    /\ refcount \in Nat
    /\ cpc \in [Callers -> {"idle", "count", "recheck", "test", "take", "hold", "uncount"}]
    /\ side \in [Callers -> Sides]
    /\ buf \in [Callers -> Buffers \cup {NoBuffer}]
    /\ from \in [Callers -> 0..MaxPools]
    /\ \A c \in Callers : cpc[c] = "hold" => buf[c] \in Buffers

(* The users counters count the callers between their increment and their  *)
(* decrement, and the reference count counts the owners.                   *)
Counted(s) ==
    {c \in Callers : side[c] = s /\ cpc[c] \in {"recheck", "test", "take", "hold", "uncount"}}

UsersCount == \A s \in Sides : users[s] = Cardinality(Counted(s))
RefCount == refcount = Cardinality(owns)

(* A caller past the second look at the flag. *)
Using(s) == {c \in Callers : side[c] = s /\ cpc[c] \in {"test", "take", "hold"}}

(* Once the wait has seen a count at zero, nobody is past the second look  *)
(* until the flag is cleared: later counts are turned away.                *)
Drained ==
    /\ "tx" \in shutting <=>
        life \in {"flag_rx", "wait_tx", "wait_rx", "destroy_tx", "destroy_rx", "clear_tx"}
    /\ "rx" \in shutting <=>
        life \in {"wait_tx", "wait_rx", "destroy_tx", "destroy_rx", "clear_tx", "clear_rx"}
    /\ life \in {"wait_rx", "destroy_tx", "destroy_rx", "clear_tx"} => Using("tx") = {}
    /\ life \in {"destroy_tx", "destroy_rx", "clear_tx", "clear_rx"} => Using("rx") = {}

(* The lock is held across two steps only while there is no owner. *)
Owned ==
    /\ life # "unlocked" => owns = {}
    /\ life = "create_rx" => pool["tx"] # 0
    /\ owns # {} => \A s \in Sides : pool[s] # 0

LEMMA CountedFinite ==
    ASSUME NEW s
    PROVE  /\ IsFiniteSet(Counted(s)) /\ Cardinality(Counted(s)) \in Nat
           /\ Cardinality(Counted(s)) <= Cardinality(Callers)
           /\ Cardinality(Callers) \in Nat
BY FS_Subset, FS_CardinalityType DEF Counted

LEMMA OwnsFinite ==
    ASSUME owns \subseteq Owners
    PROVE  /\ IsFiniteSet(owns) /\ Cardinality(owns) \in Nat
           /\ Cardinality(owns) <= Cardinality(Owners)
           /\ Cardinality(Owners) \in Nat
           /\ Cardinality(owns) = 0 <=> owns = {}
BY FS_Subset, FS_CardinalityType, FS_EmptySet

-----------------------------------------------------------------------------
(* Types and counts *)

LEMMA TypesStep ==
    ASSUME Types, UsersCount, RefCount, Next
    PROVE  Types'
<1> USE DEF Types, Stages
<1>1. ASSUME NEW o \in Owners, InitAgain(o) \/ InitFirst(o) PROVE Types'
  BY <1>1 DEF InitAgain, InitFirst, callers
<1>2. ASSUME NEW o \in Owners, ShutdownShared(o) PROVE Types'
  BY <1>2 DEF ShutdownShared, callers
<1>3. ASSUME NEW o \in Owners, ShutdownLast(o) PROVE Types'
  BY <1>3 DEF ShutdownLast, callers, Sides
<1>4. ASSUME NEW s \in Sides, Create(s) \/ Existing(s)
      PROVE  /\ pool' \in [Sides -> 0..MaxPools] /\ created' \in [Sides -> 0..MaxPools]
             /\ free' \in [Sides -> SUBSET Buffers]
  BY <1>4 DEF Create, Existing
<1>5. CASE InitTx
  BY <1>4, <1>5 DEF InitTx, callers, Sides
<1>6. CASE InitRx
  BY <1>4, <1>6 DEF InitRx, callers, Sides
<1>7. CASE InitFails \/ FlagRx
  BY <1>7 DEF InitFails, FlagRx, callers, Sides
<1>8. CASE WaitTx \/ WaitRx
  BY <1>8 DEF WaitTx, WaitRx, callers
<1>9. CASE DestroyTx \/ DestroyRx
  BY <1>9 DEF DestroyTx, DestroyRx, Destroy, callers
<1>10. CASE ClearTx \/ ClearRx
  BY <1>10 DEF ClearTx, ClearRx, Clear, callers
<1>11. ASSUME NEW c \in Callers, NEW s \in Sides, AcquireCheck(c, s) PROVE Types'
  BY <1>11 DEF AcquireCheck, Move, lifecycle
<1>12. ASSUME NEW c \in Callers, AcquireCount(c) PROVE Types'
  BY <1>12 DEF AcquireCount, Move, lifecycle
<1>13. ASSUME NEW c \in Callers, AcquireRecheck(c) \/ AcquireTest(c) \/ AcquireEmpty(c)
       PROVE  Types'
  BY <1>13 DEF AcquireRecheck, AcquireTest, AcquireEmpty, Move, lifecycle
<1>14. ASSUME NEW c \in Callers, AcquireTake(c) PROVE Types'
  BY <1>14 DEF AcquireTake, Move, lifecycle
<1>15. ASSUME NEW c \in Callers, Release(c) PROVE Types'
  <2>1. free' \in [Sides -> SUBSET Buffers]
    BY <1>15 DEF Release
  <2> QED
    BY <1>15, <2>1 DEF Release, Move, lifecycle
<1>16. ASSUME NEW c \in Callers, Uncount(c) PROVE Types'
  <2>1. c \in Counted(side[c])
    BY <1>16 DEF Uncount, Counted
  <2>2. Cardinality(Counted(side[c])) # 0
    BY <2>1, CountedFinite, FS_EmptySet
  <2>3. users[side[c]] - 1 \in Nat
    BY <2>2, CountedFinite DEF UsersCount
  <2> QED
    BY <1>16, <2>3 DEF Uncount, Move, lifecycle
<1> QED
  BY <1>1, <1>2, <1>3, <1>5, <1>6, <1>7, <1>8, <1>9, <1>10, <1>11, <1>12, <1>13, <1>14,
     <1>15, <1>16
  DEF Next, OwnerStep, LockedStep, CallerStep, Acquire

(* Steps of the owners leave the callers alone and the other way round. *)
OwnersOnly == (\E o \in Owners : OwnerStep(o)) \/ LockedStep
CallersOnly(c) == CallerStep(c) \/ \E s \in Sides : AcquireCheck(c, s)

LEMMA NextSplits == Next <=> OwnersOnly \/ \E c \in Callers : CallersOnly(c)
BY DEF Next, OwnersOnly, CallersOnly

LEMMA OwnersFrame == OwnersOnly => UNCHANGED callers
BY DEF OwnersOnly, OwnerStep, LockedStep, InitAgain, InitFirst, ShutdownShared,
       ShutdownLast, InitTx, InitRx, InitFails, FlagRx, WaitTx, WaitRx,
       DestroyTx, DestroyRx, ClearTx, ClearRx, Destroy, Clear

LEMMA CallersFrame == \A c \in Callers : CallersOnly(c) => UNCHANGED lifecycle
BY DEF CallersOnly, CallerStep, Acquire, AcquireCheck, AcquireCount, AcquireRecheck,
       AcquireTest, AcquireTake, AcquireEmpty, Release, Uncount

LEMMA UsersCountStep ==
    ASSUME Types, UsersCount, Next
    PROVE  UsersCount'
<1>1. CASE OwnersOnly
  <2>1. UNCHANGED <<users, cpc, side>>
    BY <1>1, OwnersFrame DEF callers
  <2>2. \A s : Counted(s)' = Counted(s)
    BY <2>1 DEF Counted
  <2> QED
    BY <2>1, <2>2 DEF UsersCount
<1>2. ASSUME NEW c \in Callers, NEW s \in Sides, AcquireCheck(c, s) PROVE UsersCount'
  <2>1. \A r : Counted(r)' = Counted(r)
    BY <1>2 DEF AcquireCheck, Move, Counted, Types
  <2> QED
    BY <1>2, <2>1 DEF AcquireCheck, UsersCount
<1>3. ASSUME NEW c \in Callers,
             \/ AcquireRecheck(c) \/ AcquireTest(c) \/ AcquireTake(c)
             \/ AcquireEmpty(c) \/ Release(c)
      PROVE  UsersCount'
  <2>1. /\ UNCHANGED <<users, side>>
        /\ cpc[c] \in {"recheck", "test", "take", "hold", "uncount"}
        /\ \E l \in {"recheck", "test", "take", "hold", "uncount"} :
            cpc' = [cpc EXCEPT ![c] = l]
    BY <1>3 DEF AcquireRecheck, AcquireTest, AcquireTake, AcquireEmpty, Release, Move
  <2>2. \A r : Counted(r)' = Counted(r)
    BY <2>1 DEF Counted, Types
  <2> QED
    BY <2>1, <2>2 DEF UsersCount
<1>4. ASSUME NEW c \in Callers, NEW s \in Sides, AcquireCount(c)
      PROVE  users'[s] = Cardinality(Counted(s))'
  <2>1. CASE s = side[c]
    <3>1. Counted(s)' = Counted(s) \cup {c} /\ c \notin Counted(s)
      BY <1>4, <2>1 DEF AcquireCount, Move, Counted, Types
    <3>2. Cardinality(Counted(s) \cup {c}) = Cardinality(Counted(s)) + 1
      BY <3>1, CountedFinite, FS_AddElement
    <3>3. users'[s] = users[s] + 1
      BY <1>4, <2>1 DEF AcquireCount, Types
    <3> QED
      BY <3>1, <3>2, <3>3 DEF UsersCount
  <2>2. CASE s # side[c]
    <3>1. Counted(s)' = Counted(s) /\ users'[s] = users[s]
      BY <1>4, <2>2 DEF AcquireCount, Move, Counted, Types
    <3> QED
      BY <3>1 DEF UsersCount
  <2> QED
    BY <2>1, <2>2
<1>5. ASSUME NEW c \in Callers, NEW s \in Sides, Uncount(c)
      PROVE  users'[s] = Cardinality(Counted(s))'
  <2>1. CASE s = side[c]
    <3>1. Counted(s)' = Counted(s) \ {c} /\ c \in Counted(s)
      BY <1>5, <2>1 DEF Uncount, Move, Counted, Types
    <3>2. Cardinality(Counted(s) \ {c}) = Cardinality(Counted(s)) - 1
      BY <3>1, CountedFinite, FS_RemoveElement
    <3>3. users'[s] = users[s] - 1
      BY <1>5, <2>1 DEF Uncount, Types
    <3> QED
      BY <3>1, <3>2, <3>3 DEF UsersCount
  <2>2. CASE s # side[c]
    <3>1. Counted(s)' = Counted(s) /\ users'[s] = users[s]
      BY <1>5, <2>2 DEF Uncount, Move, Counted, Types
    <3> QED
      BY <3>1 DEF UsersCount
  <2> QED
    BY <2>1, <2>2
<1>6. ASSUME NEW c \in Callers, AcquireCount(c) \/ Uncount(c) PROVE UsersCount'
  BY <1>4, <1>5, <1>6 DEF UsersCount
<1> QED
  BY <1>1, <1>2, <1>3, <1>6, NextSplits DEF CallersOnly, CallerStep, Acquire

LEMMA OwnedStep ==
    ASSUME Types, RefCount, Owned, Drained, Next
    PROVE  Owned' /\ RefCount'
<1> USE OwnsFinite DEF Sides
<1>1. ASSUME NEW o \in Owners, InitAgain(o) PROVE Owned' /\ RefCount'
  <2>1. owns # {} /\ o \notin owns
    BY <1>1 DEF InitAgain, RefCount, Types
  <2>2. Cardinality(owns \cup {o}) = Cardinality(owns) + 1
    BY <2>1, FS_AddElement DEF Types
  <2> QED
    BY <1>1, <2>1, <2>2 DEF InitAgain, Owned, RefCount
<1>2. ASSUME NEW o \in Owners, InitFirst(o) PROVE Owned' /\ RefCount'
  BY <1>2 DEF InitFirst, Owned, RefCount, Types
<1>3. CASE InitTx
  BY <1>3 DEF InitTx, Existing, Create, Owned, RefCount, Types
<1>4. CASE InitRx
  <2>1. owns = {} /\ pool["tx"] # 0
    BY <1>4 DEF InitRx, Owned
  <2>2. Cardinality({} \cup {who}) = 0 + 1
    BY FS_AddElement, FS_EmptySet
  <2>3. RefCount'
    BY <1>4, <2>1, <2>2 DEF InitRx, RefCount, Types
  <2>4. pool'["tx"] # 0 /\ pool'["rx"] # 0
    BY <1>4, <2>1 DEF InitRx, Existing, Create, Types
  <2> QED
    BY <1>4, <2>3, <2>4 DEF InitRx, Owned
<1>5. CASE InitFails \/ FlagRx
  BY <1>5 DEF InitFails, FlagRx, Owned, RefCount
<1>6. CASE WaitTx \/ WaitRx
  BY <1>6 DEF WaitTx, WaitRx, Owned, RefCount
<1>7. CASE ClearTx \/ ClearRx
  BY <1>7 DEF ClearTx, ClearRx, Clear, Owned, RefCount
<1>8. CASE DestroyTx \/ DestroyRx
  BY <1>8 DEF DestroyTx, DestroyRx, Destroy, Owned, RefCount
<1>9. ASSUME NEW o \in Owners, ShutdownShared(o) \/ ShutdownLast(o) PROVE Owned' /\ RefCount'
  <2>1. o \in owns /\ owns' = owns \ {o}
    BY <1>9 DEF ShutdownShared, ShutdownLast
  <2>2. Cardinality(owns \ {o}) = Cardinality(owns) - 1
    BY <2>1, FS_RemoveElement DEF Types
  <2>3. CASE ShutdownShared(o)
    BY <2>1, <2>2, <2>3 DEF ShutdownShared, Owned, RefCount, Types
  <2>4. CASE ShutdownLast(o)
    <3>1. Cardinality(owns \ {o}) = 0
      BY <2>1, <2>2, <2>4 DEF ShutdownLast, RefCount, Types
    <3>2. owns \ {o} = {}
      BY <3>1, FS_Subset, FS_EmptySet DEF Types
    <3> QED
      BY <2>1, <2>4, <3>1, <3>2 DEF ShutdownLast, Owned, RefCount
  <2> QED
    BY <1>9, <2>3, <2>4
<1>10. ASSUME NEW c \in Callers, CallersOnly(c) PROVE Owned' /\ RefCount'
  BY <1>10, CallersFrame DEF lifecycle, Owned, RefCount
<1> QED
  BY <1>1, <1>2, <1>3, <1>4, <1>5, <1>6, <1>7, <1>8, <1>9, <1>10, NextSplits
  DEF OwnersOnly, OwnerStep, LockedStep

-----------------------------------------------------------------------------
(* The wait, and what it protects *)

LEMMA DrainedStep ==
    ASSUME Types, UsersCount, Drained, Next
    PROVE  Drained'
<1> USE DEF Sides
<1>2. ASSUME NEW o \in Owners, OwnerStep(o) PROVE Drained'
  <2>1. UNCHANGED callers
    BY <1>2, OwnersFrame DEF OwnersOnly
  <2> QED
    BY <1>2, <2>1
    DEF OwnerStep, InitAgain, InitFirst, ShutdownShared, ShutdownLast, callers, Drained, Using
<1>3. CASE InitTx \/ InitRx \/ InitFails \/ FlagRx
  BY <1>3 DEF InitTx, InitRx, InitFails, FlagRx, callers, Drained, Using
<1>4. CASE WaitTx
  <2>1. users["tx"] = 0 => Using("tx") = {}
    <3>1. users["tx"] = 0 => Counted("tx") = {}
      BY CountedFinite, FS_EmptySet DEF UsersCount
    <3> QED
      BY <3>1 DEF Counted, Using
  <2> QED
    BY <1>4, <2>1 DEF WaitTx, callers, Drained, Using
<1>5. CASE WaitRx
  <2>1. users["rx"] = 0 => Using("rx") = {}
    <3>1. users["rx"] = 0 => Counted("rx") = {}
      BY CountedFinite, FS_EmptySet DEF UsersCount
    <3> QED
      BY <3>1 DEF Counted, Using
  <2> QED
    BY <1>5, <2>1 DEF WaitRx, callers, Drained, Using
<1>6. CASE DestroyTx \/ DestroyRx
  BY <1>6 DEF DestroyTx, DestroyRx, Destroy, callers, Drained, Using
<1>7. CASE ClearTx \/ ClearRx
  BY <1>7 DEF ClearTx, ClearRx, Clear, callers, Drained, Using
<1>8. ASSUME NEW c \in Callers, CallersOnly(c) PROVE Drained'
  <2>1. UNCHANGED <<life, shutting>>
    BY <1>8, CallersFrame DEF lifecycle
  <2>2. ASSUME NEW s \in Sides, s \in shutting PROVE Using(s)' \subseteq Using(s)
    BY <1>8, <2>2
    DEF CallersOnly, CallerStep, Acquire, AcquireCheck, AcquireCount, AcquireRecheck,
        AcquireTest, AcquireTake, AcquireEmpty, Release, Uncount, Move, Using, Types
  <2>3. /\ "tx" \in shutting => Using("tx")' \subseteq Using("tx")
        /\ "rx" \in shutting => Using("rx")' \subseteq Using("rx")
    BY <2>2
  <2> QED
    BY <2>1, <2>3 DEF Drained
<1> QED
  BY <1>2, <1>3, <1>4, <1>5, <1>6, <1>7, <1>8, NextSplits DEF OwnersOnly, LockedStep

Safe == HeldIsAlive /\ BuffersConserved

Holders(s) == {c \in Callers : cpc[c] = "hold" /\ side[c] = s}

(* A step that replaces or destroys a pool finds nobody with a buffer. *)
LEMMA PoolChanges ==
    ASSUME Types, Safe, NEW s \in Sides,
           \A c \in Callers : side[c] = s => cpc[c] \notin {"take", "hold"},
           UNCHANGED callers, NEW n, NEW f, n = 0 \/ f = Buffers,
           pool' = [pool EXCEPT ![s] = n], free' = [free EXCEPT ![s] = f]
    PROVE  Safe'
<1>1. HeldIsAlive'
  BY DEF Types, Safe, HeldIsAlive, callers
<1>2. ASSUME NEW r \in Sides, pool'[r] # 0
      PROVE  free'[r] = Buffers \ {buf'[c] : c \in {d \in Callers : cpc'[d] = "hold" /\ side'[d] = r}}
  <2>1. CASE r = s
    <3>1. {d \in Callers : cpc'[d] = "hold" /\ side'[d] = r} = {}
      BY <2>1 DEF callers
    <3>2. free'[r] = Buffers
      BY <1>2, <2>1 DEF Types
    <3> QED
      BY <3>1, <3>2
  <2>2. CASE r # s
    <3>1. pool'[r] = pool[r] /\ free'[r] = free[r]
      BY <2>2 DEF Types
    <3> QED
      BY <1>2, <3>1 DEF Safe, BuffersConserved, callers
  <2> QED
    BY <2>1, <2>2
<1>3. BuffersConserved'
  BY <1>2 DEF Safe, BuffersConserved, callers
<1> QED
  BY <1>1, <1>3 DEF Safe

LEMMA SafeOwners ==
    ASSUME Types, Drained, Safe, OwnersOnly
    PROVE  Safe'
<1> USE DEF Sides
<1>1. UNCHANGED callers
  BY OwnersFrame
<1>2. CASE UNCHANGED <<pool, free>>
  BY <1>1, <1>2 DEF callers, Safe, HeldIsAlive, BuffersConserved
<1>3. ASSUME NEW s \in Sides, pool[s] = 0, Create(s) PROVE Safe'
  <2>1. \A c \in Callers : side[c] = s => cpc[c] \notin {"take", "hold"}
    BY <1>3 DEF Safe, HeldIsAlive
  <2>2. /\ pool' = [pool EXCEPT ![s] = created[s] + 1]
        /\ free' = [free EXCEPT ![s] = Buffers]
    BY <1>3 DEF Create
  <2> QED
    BY <1>1, <2>1, <2>2, PoolChanges
<1>4. CASE DestroyTx
  <2>1. Using("tx") = {}
    BY <1>4 DEF DestroyTx, Drained
  <2>2. \A c \in Callers : side[c] = "tx" => cpc[c] \notin {"take", "hold"}
    BY <2>1 DEF Using
  <2>3. pool' = [pool EXCEPT !["tx"] = 0] /\ free' = [free EXCEPT !["tx"] = {}]
    BY <1>4 DEF DestroyTx, Destroy
  <2> QED
    BY <1>1, <2>2, <2>3, PoolChanges
<1>5. CASE DestroyRx
  <2>1. Using("rx") = {}
    BY <1>5 DEF DestroyRx, Drained
  <2>2. \A c \in Callers : side[c] = "rx" => cpc[c] \notin {"take", "hold"}
    BY <2>1 DEF Using
  <2>3. pool' = [pool EXCEPT !["rx"] = 0] /\ free' = [free EXCEPT !["rx"] = {}]
    BY <1>5 DEF DestroyRx, Destroy
  <2> QED
    BY <1>1, <2>2, <2>3, PoolChanges
<1>6. \/ UNCHANGED <<pool, free>> \/ DestroyTx \/ DestroyRx
      \/ \E s \in Sides : pool[s] = 0 /\ Create(s)
  BY DEF OwnersOnly, OwnerStep, LockedStep, InitAgain, InitFirst, ShutdownShared,
         ShutdownLast, InitTx, InitRx, Existing, InitFails, FlagRx, WaitTx, WaitRx,
         ClearTx, ClearRx, Clear
<1> QED
  BY <1>2, <1>3, <1>4, <1>5, <1>6

LEMMA SafeCallers ==
    ASSUME Types, Safe, NEW c \in Callers, CallersOnly(c)
    PROVE  Safe'
<1>1. UNCHANGED pool
  BY CallersFrame DEF lifecycle
<1>2. ASSUME NEW s \in Sides, AcquireCheck(c, s) PROVE Safe'
  <2>1. \A r \in Sides : {d \in Callers : cpc'[d] = "hold" /\ side'[d] = r} = Holders(r)
    BY <1>2 DEF AcquireCheck, Move, Types, Holders
  <2>2. HeldIsAlive'
    BY <1>1, <1>2 DEF AcquireCheck, Move, Types, Safe, HeldIsAlive
  <2>3. BuffersConserved'
    BY <1>1, <1>2, <2>1 DEF AcquireCheck, Move, Types, Safe, BuffersConserved, Holders
  <2> QED
    BY <2>2, <2>3 DEF Safe
<1>3. CASE \/ AcquireCount(c) \/ AcquireRecheck(c) \/ AcquireTest(c)
           \/ AcquireEmpty(c) \/ Uncount(c)
  <2>1. /\ cpc[c] # "hold" /\ UNCHANGED <<free, side, buf, from>>
        /\ \E l : cpc' = [cpc EXCEPT ![c] = l] /\ l # "hold"
                 /\ (l = "take" => pool[side[c]] # 0)
    BY <1>3 DEF AcquireCount, AcquireRecheck, AcquireTest, AcquireEmpty, Uncount, Move
  <2>2. \A r \in Sides : {d \in Callers : cpc'[d] = "hold" /\ side'[d] = r} = Holders(r)
    BY <2>1 DEF Types, Holders
  <2>3. HeldIsAlive'
    BY <1>1, <2>1 DEF Types, Safe, HeldIsAlive
  <2>4. BuffersConserved'
    BY <1>1, <2>1, <2>2 DEF Types, Safe, BuffersConserved, Holders
  <2> QED
    BY <2>3, <2>4 DEF Safe
<1>4. CASE AcquireTake(c)
  <2>1. PICK b \in free[side[c]] :
          /\ free' = [free EXCEPT ![side[c]] = free[side[c]] \ {b}]
          /\ buf' = [buf EXCEPT ![c] = b]
    BY <1>4 DEF AcquireTake
  <2>2. /\ cpc[c] = "take" /\ cpc' = [cpc EXCEPT ![c] = "hold"] /\ UNCHANGED side
        /\ from' = [from EXCEPT ![c] = pool[side[c]]]
    BY <1>4 DEF AcquireTake, Move
  <2>3. HeldIsAlive'
    BY <1>1, <2>1, <2>2 DEF Types, Safe, HeldIsAlive
  <2>4. /\ pool[side[c]] # 0 /\ side[c] \in Sides
        /\ free[side[c]] = Buffers \ {buf[d] : d \in Holders(side[c])}
    BY <2>2 DEF Types, Safe, HeldIsAlive, BuffersConserved, Holders
  <2>5. \A d \in Callers : cpc[d] = "hold" /\ side[d] = side[c] => buf[d] # b
    BY <2>4 DEF Holders
  <2>6. \A d \in Callers : /\ d # c => cpc'[d] = cpc[d] /\ buf'[d] = buf[d]
                           /\ d = c => cpc'[d] = "hold" /\ buf'[d] = b
    BY <2>1, <2>2 DEF Types
  <2>7. ASSUME NEW r \in Sides, pool'[r] # 0
        PROVE  free'[r] = Buffers \ {buf'[d] : d \in {e \in Callers : cpc'[e] = "hold" /\ side'[e] = r}}
    <3>1. CASE r = side[c]
      <4>1. {e \in Callers : cpc'[e] = "hold" /\ side'[e] = r} = Holders(r) \cup {c}
        BY <2>2, <2>6, <3>1 DEF Holders
      <4>2. {buf'[d] : d \in Holders(r) \cup {c}} = {buf[d] : d \in Holders(r)} \cup {b}
        BY <2>2, <2>6 DEF Holders
      <4>3. free'[r] = free[r] \ {b}
        BY <2>1, <3>1 DEF Types
      <4> QED
        BY <2>4, <3>1, <4>1, <4>2, <4>3
    <3>2. CASE r # side[c]
      <4>1. {e \in Callers : cpc'[e] = "hold" /\ side'[e] = r} = Holders(r)
        BY <2>2, <2>6, <3>2 DEF Holders
      <4>2. {buf'[d] : d \in Holders(r)} = {buf[d] : d \in Holders(r)}
        BY <2>2, <2>6 DEF Holders
      <4>3. free'[r] = free[r] /\ pool[r] # 0
        BY <1>1, <2>1, <2>7, <3>2 DEF Types
      <4>4. free[r] = Buffers \ {buf[d] : d \in Holders(r)}
        BY <4>3 DEF Safe, BuffersConserved, Holders
      <4> QED
        BY <4>1, <4>2, <4>3, <4>4
    <3> QED
      BY <3>1, <3>2
  <2>8. BuffersConserved'
    BY <2>2, <2>5, <2>6, <2>7 DEF Safe, BuffersConserved
  <2> QED
    BY <2>3, <2>8 DEF Safe
<1>5. CASE Release(c)
  <2>1. /\ cpc[c] = "hold" /\ cpc' = [cpc EXCEPT ![c] = "uncount"] /\ UNCHANGED side
        /\ buf' = [buf EXCEPT ![c] = NoBuffer] /\ from' = [from EXCEPT ![c] = 0]
    BY <1>5 DEF Release, Move
  <2>2. pool[side[c]] # 0 /\ side[c] \in Sides
    BY <2>1 DEF Types, Safe, HeldIsAlive
  <2>3. free' = [free EXCEPT ![side[c]] = free[side[c]] \cup {buf[c]}]
    BY <1>5, <2>2 DEF Release
  <2>4. HeldIsAlive'
    BY <1>1, <2>1 DEF Types, Safe, HeldIsAlive
  <2>5. \A d \in Callers : /\ d # c => cpc'[d] = cpc[d] /\ buf'[d] = buf[d]
                           /\ cpc'[c] # "hold"
    BY <2>1 DEF Types
  <2>6. ASSUME NEW r \in Sides, pool'[r] # 0
        PROVE  free'[r] = Buffers \ {buf'[d] : d \in {e \in Callers : cpc'[e] = "hold" /\ side'[e] = r}}
    <3>1. free[r] = Buffers \ {buf[d] : d \in Holders(r)}
      BY <1>1, <2>6 DEF Safe, BuffersConserved, Holders
    <3>2. {e \in Callers : cpc'[e] = "hold" /\ side'[e] = r} = Holders(r) \ {c}
      BY <2>1, <2>5 DEF Holders
    <3>3. {buf'[d] : d \in Holders(r) \ {c}} = {buf[d] : d \in Holders(r) \ {c}}
      BY <2>5 DEF Holders
    <3>4. CASE r = side[c]
      <4>1. c \in Holders(r) /\ buf[c] \in Buffers
        BY <2>1, <3>4 DEF Types, Holders
      <4>2. \A d \in Holders(r) \ {c} : buf[d] # buf[c]
        BY <4>1 DEF Safe, BuffersConserved, Holders
      <4>3. free'[r] = free[r] \cup {buf[c]}
        BY <2>3, <3>4 DEF Types
      <4>4. {buf[d] : d \in Holders(r)} = {buf[d] : d \in Holders(r) \ {c}} \cup {buf[c]}
        BY <4>1
      <4>5. buf[c] \notin {buf[d] : d \in Holders(r) \ {c}}
        BY <4>2
      <4>6. free'[r] = Buffers \ {buf[d] : d \in Holders(r) \ {c}}
        BY <3>1, <4>1, <4>3, <4>4, <4>5
      <4> QED
        BY <3>2, <3>3, <4>6
    <3>5. CASE r # side[c]
      <4>1. Holders(r) \ {c} = Holders(r) /\ free'[r] = free[r]
        BY <2>3, <3>5 DEF Types, Holders
      <4> QED
        BY <3>1, <3>2, <3>3, <4>1
    <3> QED
      BY <3>4, <3>5
  <2>7. BuffersConserved'
    BY <2>1, <2>5, <2>6 DEF Safe, BuffersConserved
  <2> QED
    BY <2>4, <2>7 DEF Safe
<1> QED
  BY <1>2, <1>3, <1>4, <1>5 DEF CallersOnly, CallerStep, Acquire

-----------------------------------------------------------------------------
(* The theorems *)

IInv == Types /\ UsersCount /\ RefCount /\ Owned /\ Drained /\ Safe

LEMMA InitIInv == Init => IInv
<1> SUFFICES ASSUME Init PROVE IInv
  OBVIOUS
<1>1. \A s \in Sides : Counted(s) = {} /\ Using(s) = {}
  BY DEF Init, Counted, Using
<1>2. Types
  BY DEF Init, Types, Stages, Sides
<1>3. UsersCount /\ RefCount
  BY <1>1, FS_EmptySet DEF Init, UsersCount, RefCount
<1>4. Owned /\ Drained
  BY <1>1 DEF Init, Owned, Drained, Sides
<1>5. Safe
  BY DEF Init, Safe, HeldIsAlive, BuffersConserved
<1> QED
  BY <1>2, <1>3, <1>4, <1>5 DEF IInv

LEMMA Inductive == IInv /\ [Next]_vars => IInv'
<1> SUFFICES ASSUME IInv, [Next]_vars PROVE IInv'
  OBVIOUS
<1>1. CASE Next
  <2>1. Types' /\ UsersCount' /\ Owned' /\ RefCount' /\ Drained'
    BY <1>1, TypesStep, UsersCountStep, OwnedStep, DrainedStep DEF IInv
  <2>2. Safe'
    BY <1>1, NextSplits, SafeOwners, SafeCallers DEF IInv
  <2> QED
    BY <2>1, <2>2 DEF IInv
<1>2. CASE UNCHANGED vars
  <2>1. UNCHANGED <<life, who, owns, refcount, pool, created, free, shutting,
                    users, cpc, side, buf, from>>
    BY <1>2 DEF vars, lifecycle, callers
  <2>2. \A s : Counted(s)' = Counted(s) /\ Using(s)' = Using(s)
    BY <2>1 DEF Counted, Using
  <2>3. Types' /\ UsersCount' /\ RefCount' /\ Owned'
    BY <2>1, <2>2 DEF IInv, Types, UsersCount, RefCount, Owned
  <2>4. Drained'
    BY <2>1 DEF IInv, Drained, Using
  <2>5. Safe'
    BY <2>1 DEF IInv, Safe, HeldIsAlive, BuffersConserved
  <2> QED
    BY <2>3, <2>4, <2>5 DEF IInv
<1> QED
  BY <1>1, <1>2

LEMMA Invariant == Spec => []IInv
BY InitIInv, Inductive, PTL DEF Spec

(***************************************************************************)
(* The users counters never pass below zero or above the number of         *)
(* callers, nor the reference count the number of owners.                  *)
(***************************************************************************)
THEOREM TypeCorrect == Spec => []TypeOK
<1>1. IInv => TypeOK
  <2> SUFFICES ASSUME IInv PROVE TypeOK
    OBVIOUS
  <2>1. \A s \in Sides : users[s] \in 0..Cardinality(Callers)
    BY CountedFinite DEF IInv, UsersCount
  <2>2. users \in [Sides -> 0..Cardinality(Callers)]
    BY <2>1 DEF IInv, Types
  <2>3. refcount \in 0..Cardinality(Owners)
    BY OwnsFinite DEF IInv, Types, RefCount
  <2> QED
    BY <2>2, <2>3 DEF IInv, Types, TypeOK
<1> QED
  BY <1>1, Invariant, PTL

(***************************************************************************)
(* No pool is destroyed while a caller holds one of its buffers, and none  *)
(* is called after it is destroyed.                                        *)
(***************************************************************************)
THEOREM HeldSafe == Spec => []HeldIsAlive
<1>1. IInv => HeldIsAlive
  BY DEF IInv, Safe
<1> QED
  BY <1>1, Invariant, PTL

(***************************************************************************)
(* Buffers are neither lost nor handed out twice.                          *)
(***************************************************************************)
THEOREM BuffersSafe == Spec => []BuffersConserved
<1>1. IInv => BuffersConserved
  BY DEF IInv, Safe
<1> QED
  BY <1>1, Invariant, PTL

(***************************************************************************)
(* An owner has both pools, open, until it shuts down.                     *)
(***************************************************************************)
THEOREM OwnersSafe == Spec => []OwnersHavePools
<1>1. IInv => OwnersHavePools
  BY DEF IInv, Types, Owned, Drained, OwnersHavePools, Sides
<1> QED
  BY <1>1, Invariant, PTL
=============================================================================
