------------------------------ MODULE NetPools ------------------------------
(***************************************************************************)
(* The process-wide zero-copy pools of net.c, one for sending and one for  *)
(* receiving. net_init_zerocopy and net_shutdown_zerocopy run under        *)
(* g_zcpool_create_lock; acquiring and releasing a buffer take no lock but *)
(* are counted, and a shutdown waits for the count. A step is one atomic   *)
(* operation, or one call of a pool, whose own mutex makes it one.         *)
(*                                                                         *)
(* The owners are the threads that initialise and shut down, once for each *)
(* success, as the main programs do; the callers send and receive.         *)
(*                                                                         *)
(* net.h calls acquire and release unsafe for concurrent use, the pool     *)
(* below them being for one producer and one consumer. zerocopy.c takes a  *)
(* mutex around its free queue, and users and handlers do call at once, so *)
(* the callers here are any number.                                        *)
(***************************************************************************)
EXTENDS Naturals, FiniteSets

CONSTANTS
    Owners, Callers,
    Buffers,        \* the buffers of each pool
    NoBuffer,
    MaxPools        \* bound on the pools created for each direction

ASSUME FiniteAssumption ==
    /\ IsFiniteSet(Owners) /\ IsFiniteSet(Callers)
    /\ NoBuffer \notin Buffers
    /\ MaxPools \in Nat

VARIABLES
    life,           \* where the holder of g_zcpool_create_lock is
    who,            \* and who it is
    owns,           \* history: owners with a success not yet shut down
    refcount,       \* g_zcpool_refcount
    pool,           \* g_tx_pool, g_rx_pool: 0 for NULL, else the how-manieth
    created,        \* pools created so far
    free,           \* freeq of each pool
    shutting,       \* the directions being shut down
    users,          \* g_tx_users, g_rx_users
    cpc, side,      \* the callers: position and direction
    buf, from       \* the buffer held and the pool it is of

lifecycle == <<life, who, owns, refcount, pool, created, shutting>>
callers == <<users, cpc, side, buf, from>>
vars == <<lifecycle, free, callers>>

Sides == {"tx", "rx"}
Stages == {"unlocked", "create_tx", "create_rx", "flag_rx", "wait_tx", "wait_rx",
           "destroy_tx", "destroy_rx", "clear_tx", "clear_rx"}

TypeOK ==
    /\ life \in Stages /\ who \in Owners
    /\ owns \subseteq Owners
    /\ refcount \in 0..Cardinality(Owners)
    /\ created \in [Sides -> 0..MaxPools]
    /\ pool \in [Sides -> 0..MaxPools]
    /\ free \in [Sides -> SUBSET Buffers]
    /\ shutting \subseteq Sides
    /\ users \in [Sides -> 0..Cardinality(Callers)]
    /\ cpc \in [Callers -> {"idle", "count", "recheck", "test", "take", "hold", "uncount"}]
    /\ side \in [Callers -> Sides]
    /\ buf \in [Callers -> Buffers \cup {NoBuffer}]
    /\ from \in [Callers -> 0..MaxPools]

Init ==
    /\ life = "unlocked" /\ who \in Owners
    /\ owns = {} /\ refcount = 0
    /\ pool = [s \in Sides |-> 0] /\ created = [s \in Sides |-> 0]
    /\ free = [s \in Sides |-> {}]
    /\ shutting = {}
    /\ users = [s \in Sides |-> 0]
    /\ cpc = [c \in Callers |-> "idle"]
    /\ side = [c \in Callers |-> "tx"]
    /\ buf = [c \in Callers |-> NoBuffer]
    /\ from = [c \in Callers |-> 0]

-----------------------------------------------------------------------------
(* net_init_zerocopy *)

InitAgain(o) ==
    /\ life = "unlocked" /\ o \notin owns
    /\ refcount > 0
    /\ refcount' = refcount + 1
    /\ owns' = owns \cup {o}
    /\ UNCHANGED <<life, who, pool, created, shutting, free, callers>>

InitFirst(o) ==
    /\ life = "unlocked" /\ o \notin owns
    /\ refcount = 0
    /\ life' = "create_tx" /\ who' = o
    /\ UNCHANGED <<owns, refcount, pool, created, shutting, free, callers>>

(* perf_zcpool_create: every buffer is free. *)
Create(s) ==
    /\ created[s] < MaxPools
    /\ created' = [created EXCEPT ![s] = @ + 1]
    /\ pool' = [pool EXCEPT ![s] = created[s] + 1]
    /\ free' = [free EXCEPT ![s] = Buffers]

Existing(s) == pool[s] # 0 /\ UNCHANGED <<pool, created, free>>

InitTx ==
    /\ life = "create_tx"
    /\ Existing("tx") \/ (pool["tx"] = 0 /\ Create("tx"))
    /\ life' = "create_rx"
    /\ UNCHANGED <<who, owns, refcount, shutting, callers>>

InitRx ==
    /\ life = "create_rx"
    /\ Existing("rx") \/ (pool["rx"] = 0 /\ Create("rx"))
    /\ refcount' = refcount + 1
    /\ owns' = owns \cup {who}
    /\ life' = "unlocked"
    /\ UNCHANGED <<who, shutting, callers>>

(* A pool cannot be created; a sending pool created above is kept. *)
InitFails ==
    /\ \/ life = "create_tx" /\ pool["tx"] = 0
       \/ life = "create_rx" /\ pool["rx"] = 0
    /\ life' = "unlocked"
    /\ UNCHANGED <<who, owns, refcount, pool, created, shutting, free, callers>>

-----------------------------------------------------------------------------
(* net_shutdown_zerocopy *)

(* Mutant: the pools go with the first owner that shuts down. *)
ShutdownSharedEarly(o) ==
    /\ life = "unlocked" /\ o \in owns
    /\ refcount > 1
    /\ refcount' = refcount - 1
    /\ owns' = owns \ {o}
    /\ life' = "flag_rx" /\ who' = o
    /\ shutting' = shutting \cup {"tx"}
    /\ UNCHANGED <<pool, created, free, callers>>

ShutdownShared(o) ==
    /\ life = "unlocked" /\ o \in owns
    /\ refcount > 1
    /\ refcount' = refcount - 1
    /\ owns' = owns \ {o}
    /\ UNCHANGED <<life, who, pool, created, shutting, free, callers>>

ShutdownLast(o) ==
    /\ life = "unlocked" /\ o \in owns
    /\ refcount <= 1
    /\ refcount' = 0
    /\ owns' = owns \ {o}
    /\ life' = "flag_rx" /\ who' = o
    /\ shutting' = shutting \cup {"tx"}
    /\ UNCHANGED <<pool, created, free, callers>>

FlagRx ==
    /\ life = "flag_rx"
    /\ shutting' = shutting \cup {"rx"}
    /\ life' = "wait_tx"
    /\ UNCHANGED <<who, owns, refcount, pool, created, free, callers>>

(* g_tx_users != 0 || g_rx_users != 0, read one after the other *)
WaitTx ==
    /\ life = "wait_tx"
    /\ life' = IF users["tx"] = 0 THEN "wait_rx" ELSE "wait_tx"
    /\ UNCHANGED <<who, owns, refcount, pool, created, shutting, free, callers>>

WaitRx ==
    /\ life = "wait_rx"
    /\ life' = IF users["rx"] = 0 THEN "destroy_tx" ELSE "wait_tx"
    /\ UNCHANGED <<who, owns, refcount, pool, created, shutting, free, callers>>

Destroy(s, next) ==
    /\ pool' = [pool EXCEPT ![s] = 0]
    /\ free' = [free EXCEPT ![s] = {}]
    /\ life' = next
    /\ UNCHANGED <<who, owns, refcount, created, shutting, callers>>

DestroyTx == life = "destroy_tx" /\ Destroy("tx", "destroy_rx")
DestroyRx == life = "destroy_rx" /\ Destroy("rx", "clear_tx")

Clear(s, next) ==
    /\ shutting' = shutting \ {s}
    /\ life' = next
    /\ UNCHANGED <<who, owns, refcount, pool, created, free, callers>>

ClearTx == life = "clear_tx" /\ Clear("tx", "clear_rx")
ClearRx == life = "clear_rx" /\ Clear("rx", "unlocked")

-----------------------------------------------------------------------------
(* net_zcp_acquire_tx, net_zcp_acquire_rx; a NULL result is back at idle *)

Move(c, l) == cpc' = [cpc EXCEPT ![c] = l]

AcquireCheck(c, s) ==
    /\ cpc[c] = "idle"
    /\ s \notin shutting
    /\ side' = [side EXCEPT ![c] = s]
    /\ Move(c, "count")
    /\ UNCHANGED <<lifecycle, free, users, buf, from>>

AcquireCount(c) ==
    /\ cpc[c] = "count"
    /\ users' = [users EXCEPT ![side[c]] = @ + 1]
    /\ Move(c, "recheck")
    /\ UNCHANGED <<lifecycle, free, side, buf, from>>

(* Mutant: the flag is not looked at again after the count. *)
AcquireNoRecheck(c) ==
    /\ cpc[c] = "recheck"
    /\ Move(c, "test")
    /\ UNCHANGED <<lifecycle, free, users, side, buf, from>>

(* Mutant: the early return keeps the count. *)
AcquireRecheckLeaks(c) ==
    /\ cpc[c] = "recheck"
    /\ Move(c, IF side[c] \in shutting THEN "idle" ELSE "test")
    /\ UNCHANGED <<lifecycle, free, users, side, buf, from>>

AcquireRecheck(c) ==
    /\ cpc[c] = "recheck"
    /\ Move(c, IF side[c] \in shutting THEN "uncount" ELSE "test")
    /\ UNCHANGED <<lifecycle, free, users, side, buf, from>>

AcquireTest(c) ==
    /\ cpc[c] = "test"
    /\ Move(c, IF pool[side[c]] = 0 THEN "uncount" ELSE "take")
    /\ UNCHANGED <<lifecycle, free, users, side, buf, from>>

(* perf_zcpool_acquire *)
AcquireTake(c) ==
    /\ cpc[c] = "take"
    /\ \E b \in free[side[c]] :
        /\ free' = [free EXCEPT ![side[c]] = @ \ {b}]
        /\ buf' = [buf EXCEPT ![c] = b]
    /\ from' = [from EXCEPT ![c] = pool[side[c]]]
    /\ Move(c, "hold")
    /\ UNCHANGED <<lifecycle, users, side>>

AcquireEmpty(c) ==
    /\ cpc[c] = "take"
    /\ free[side[c]] = {}
    /\ Move(c, "uncount")
    /\ UNCHANGED <<lifecycle, free, users, side, buf, from>>

(* Mutant: a failed receive returns without giving the buffer back. *)
ReleaseDrops(c) ==
    /\ cpc[c] = "hold"
    /\ buf' = [buf EXCEPT ![c] = NoBuffer]
    /\ from' = [from EXCEPT ![c] = 0]
    /\ Move(c, "uncount")
    /\ UNCHANGED <<lifecycle, free, users, side>>

(* net_zcp_release_tx, net_zcp_release_rx *)
Release(c) ==
    /\ cpc[c] = "hold"
    /\ free' = IF pool[side[c]] = 0 THEN free
               ELSE [free EXCEPT ![side[c]] = @ \cup {buf[c]}]
    /\ buf' = [buf EXCEPT ![c] = NoBuffer]
    /\ from' = [from EXCEPT ![c] = 0]
    /\ Move(c, "uncount")
    /\ UNCHANGED <<lifecycle, users, side>>

Uncount(c) ==
    /\ cpc[c] = "uncount"
    /\ users' = [users EXCEPT ![side[c]] = @ - 1]
    /\ Move(c, "idle")
    /\ UNCHANGED <<lifecycle, free, side, buf, from>>

-----------------------------------------------------------------------------
OwnerStep(o) == InitAgain(o) \/ InitFirst(o) \/ ShutdownShared(o) \/ ShutdownLast(o)

LockedStep ==
    \/ InitTx \/ InitRx \/ InitFails
    \/ FlagRx \/ WaitTx \/ WaitRx \/ DestroyTx \/ DestroyRx \/ ClearTx \/ ClearRx

Acquire(c) ==
    \/ AcquireCount(c) \/ AcquireRecheck(c) \/ AcquireTest(c)
    \/ AcquireTake(c) \/ AcquireEmpty(c)

CallerStep(c) == Acquire(c) \/ Release(c) \/ Uncount(c)

Next ==
    \/ \E o \in Owners : OwnerStep(o)
    \/ LockedStep
    \/ \E c \in Callers : CallerStep(c) \/ \E s \in Sides : AcquireCheck(c, s)

Spec == Init /\ [][Next]_vars

(* The lock is held for a bounded time but for the wait. A caller goes on  *)
(* with what it has begun: a user's read of its socket has a timeout, and  *)
(* the broker joins its handlers before it shuts the pools down.           *)
FairSpec ==
    /\ Spec
    /\ WF_vars(LockedStep)
    /\ \A c \in Callers : WF_vars(CallerStep(c))

-----------------------------------------------------------------------------
(* Properties *)

(***************************************************************************)
(* `This prevents destroying a pool while a caller still holds an acquired *)
(* buffer': the pool a buffer came from is the one in place while it is    *)
(* held, and so when it is given back, and there is a pool when            *)
(* perf_zcpool_acquire is called, although neither call takes the lock.    *)
(***************************************************************************)
HeldIsAlive ==
    \A c \in Callers :
        /\ cpc[c] = "take" => pool[side[c]] # 0
        /\ cpc[c] = "hold" => pool[side[c]] # 0 /\ from[c] = pool[side[c]]

(***************************************************************************)
(* No buffer is handed to two callers, and none is lost while its pool     *)
(* exists, over any sequence of shutdowns and initialisations.             *)
(***************************************************************************)
BuffersConserved ==
    /\ \A c, d \in Callers :
        cpc[c] = "hold" /\ cpc[d] = "hold" /\ side[c] = side[d] /\ buf[c] = buf[d] => c = d
    /\ \A s \in Sides : pool[s] # 0 =>
        free[s] = Buffers \ {buf[c] : c \in {d \in Callers : cpc[d] = "hold" /\ side[d] = s}}

(***************************************************************************)
(* What net_init_zerocopy promises the code that called it: until that     *)
(* code shuts down, both pools exist and none is being shut down, whatever *)
(* other owners do.                                                        *)
(***************************************************************************)
OwnersHavePools ==
    owns # {} => shutting = {} /\ \A s \in Sides : pool[s] # 0

(***************************************************************************)
(* The wait of net_shutdown_zerocopy ends: calls that begin meanwhile are  *)
(* turned away by the flag.                                                *)
(***************************************************************************)
ShutdownReturns == shutting # {} ~> life = "unlocked"
=============================================================================
