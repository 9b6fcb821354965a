-------------------------- MODULE DayBarrierProofs --------------------------
(***************************************************************************)
(* The day barrier is safe for any finite set of subsystems and any number *)
(* of days, with crashes and interruptions.                                *)
(***************************************************************************)
EXTENDS DayBarrier, FiniteSetTheorems, TLAPS

Arriving(c) == cpc[c] \in {"spin", "lock"}

(* A client that has read day_seq has not joined that day yet. *)
ArrivingIsBehind ==
    \A c \in Clients :
        Arriving(c) => last_day[c] < barrier_day[c] /\ barrier_day[c] <= day_seq

(* What it has read is the barrier that is open. *)
ArrivingIsCurrent ==
    \A c \in Clients :
        (Arriving(c) /\ dpc \in {"opening", "waiting"}) => barrier_day[c] = day_seq

(* Before a barrier opens everyone has joined the one before. *)
BetweenDays ==
    dpc \in {"users", "closed"} =>
        /\ day <= Days
        /\ running => day = day_seq + 1 /\ \A c \in Clients : last_day[c] = day_seq

AtBarrier ==
    dpc \in {"opening", "waiting"} =>
        day_seq = day /\ day <= Days /\ ready_count = Cardinality(Joined)

DuringDay ==
    dpc = "day" =>
        /\ day <= Days
        /\ running => day_seq = day /\ \A c \in Clients : last_day[c] = day

IndInv ==
    /\ TypeOK
    /\ barrier_active <=> dpc = "waiting"
    /\ ArrivingIsBehind
    /\ ArrivingIsCurrent
    /\ BetweenDays
    /\ AtBarrier
    /\ DuringDay

USE ClientsAssumption, BoundsAssumption

(* The joined processes are countable. *)
LEMMA JoinedFinite == IsFiniteSet(Joined) /\ Cardinality(Joined) \in Nat
<1>1. Joined \subseteq Clients  BY DEF Joined
<1>2. IsFiniteSet(Joined)  BY <1>1, FS_Subset
<1> QED  BY <1>2, FS_CardinalityType

(* Nobody has joined day 1 before its barrier opens. *)
LEMMA InitEstablishes == Init => IndInv
<1> SUFFICES ASSUME Init PROVE IndInv  OBVIOUS
<1>0. Days \in Nat /\ 1 <= Days  BY BoundsAssumption
<1>1. TypeOK
  <2>1. day_seq \in 0..Days /\ ready_count \in Nat /\ day \in 1..(Days + 1) /\ 0 \in 0..Days
    BY <1>0 DEF Init
  <2>2. dpc \in DirectorPc /\ cpc \in [Clients -> ClientPc]
    BY DEF Init, DirectorPc, ClientPc
  <2>3. barrier_day \in [Clients -> 0..Days] /\ last_day \in [Clients -> 0..Days]
    BY <2>1 DEF Init
  <2>4. /\ barrier_active \in BOOLEAN /\ running \in BOOLEAN /\ sigchld \in BOOLEAN
        /\ term \in [Clients -> BOOLEAN] /\ flag \in [Clients -> BOOLEAN]
    BY Zenon DEF Init
  <2> QED  BY <2>1, <2>2, <2>3, <2>4 DEF TypeOK
<1>2. barrier_active <=> dpc = "waiting"  BY DEF Init
<1>3. ArrivingIsBehind /\ ArrivingIsCurrent  BY DEF Init, ArrivingIsBehind, ArrivingIsCurrent, Arriving
<1>4. BetweenDays /\ AtBarrier /\ DuringDay  BY <1>0 DEF Init, BetweenDays, AtBarrier, DuringDay
<1> QED  BY <1>1, <1>2, <1>3, <1>4 DEF IndInv

(* Opening: day_seq is new, so nobody has joined it. *)
LEMMA OpenStep == ASSUME IndInv, OpenBarrier PROVE IndInv'
<1> USE DEF OpenBarrier, client
<1>1. day = day_seq + 1 /\ day <= Days /\ \A c \in Clients : last_day[c] = day_seq
  BY DEF IndInv, BetweenDays
<1>2. TypeOK'
  BY <1>1 DEF IndInv, TypeOK, DirectorPc
<1>3. \A c \in Clients : ~Arriving(c)
  BY <1>1 DEF IndInv, TypeOK, ArrivingIsBehind
<1>4. Joined' = {}
  BY <1>1 DEF Joined, IndInv, TypeOK
<1>5. ready_count' = Cardinality(Joined')
  BY <1>4, FS_EmptySet
<1> QED  BY <1>1, <1>2, <1>3, <1>5
  DEF IndInv, ArrivingIsBehind, ArrivingIsCurrent, Arriving, BetweenDays, AtBarrier, DuringDay

(* Releasing with running set: everyone has been counted. *)
LEMMA ReleaseStep == ASSUME IndInv, ReleaseBarrier PROVE IndInv'
<1> USE DEF ReleaseBarrier, client
<1>1. TypeOK'
  BY DEF IndInv, TypeOK, DirectorPc
<1>2. day_seq = day /\ day <= Days /\ ready_count = Cardinality(Joined)
  BY DEF IndInv, AtBarrier
<1>3. ASSUME running PROVE \A c \in Clients : last_day[c] = day
  <2>1. Joined \subseteq Clients  BY DEF Joined
  <2>2. Cardinality(Joined) >= Cardinality(Clients)  BY <1>2, <1>3 DEF RequiredCount
  <2>3. Joined = Clients
    <3>1. Cardinality(Joined) <= Cardinality(Clients) /\ (Cardinality(Joined) = Cardinality(Clients) => Joined = Clients)
      BY <2>1, FS_Subset
    <3>2. Cardinality(Joined) \in Nat /\ Cardinality(Clients) \in Nat
      BY JoinedFinite, FS_CardinalityType
    <3> QED  BY <2>2, <3>1, <3>2
  <2> QED  BY <1>2, <2>3 DEF Joined
<1> QED  BY <1>1, <1>2, <1>3
  DEF IndInv, ArrivingIsBehind, ArrivingIsCurrent, Arriving, BetweenDays, AtBarrier, DuringDay

(* Joining: the process was not counted for this day. *)
LEMMA JoinStep == ASSUME IndInv, NEW c \in Clients, Join(c) PROVE IndInv'
<1> USE DEF Join, director, Go
<1>1. TypeOK'
  BY DEF IndInv, TypeOK, ClientPc
<1>2. CASE ~barrier_active
  <2>1. UNCHANGED <<sync, director, last_day, barrier_day>>  BY <1>2 DEF sync
  <2>2. \A b \in Clients : Arriving(b)' => Arriving(b)  BY <1>2 DEF Arriving, IndInv, TypeOK
  <2>3. Joined' = Joined  BY <2>1 DEF Joined, sync
  <2> QED  BY <1>1, <2>1, <2>2, <2>3
    DEF IndInv, ArrivingIsBehind, ArrivingIsCurrent, BetweenDays, AtBarrier, DuringDay, sync
<1>3. CASE barrier_active
  <2>1. dpc = "waiting" /\ day_seq = day /\ ready_count = Cardinality(Joined) /\ day <= Days
    BY <1>3 DEF IndInv, AtBarrier
  <2>2. barrier_day[c] = day_seq /\ last_day[c] < barrier_day[c]
    BY <2>1 DEF IndInv, ArrivingIsBehind, ArrivingIsCurrent, Arriving
  <2>3. /\ last_day' = [last_day EXCEPT ![c] = day_seq]
        /\ ready_count' = ready_count + 1
        /\ cpc' = [cpc EXCEPT ![c] = "release"]
        /\ UNCHANGED <<day_seq, barrier_active, dpc, day, running, barrier_day>>
    BY <1>3, <2>2
  <2>4. Joined' = Joined \cup {c} /\ c \notin Joined
    <3>1. day_seq \in Int /\ last_day[c] \in Int /\ last_day[c] # day_seq  BY <2>2 DEF IndInv, TypeOK
    <3>2. c \notin Joined  BY <3>1 DEF Joined
    <3>3. \A b \in Clients : last_day'[b] = IF b = c THEN day_seq ELSE last_day[b]
      BY <2>3 DEF IndInv, TypeOK
    <3>4. Joined' = {b \in Clients : last_day'[b] = day_seq}  BY <2>3 DEF Joined
    <3> QED  BY <3>2, <3>3, <3>4 DEF Joined
  <2>5. ready_count' = Cardinality(Joined')
    BY <2>1, <2>3, <2>4, JoinedFinite, FS_AddElement
  <2>6. \A b \in Clients :
            /\ Arriving(b)' => Arriving(b) /\ b # c
            /\ b # c => last_day'[b] = last_day[b]
    BY <2>3 DEF Arriving, IndInv, TypeOK
  <2>7. ArrivingIsBehind' /\ ArrivingIsCurrent'
    BY <2>3, <2>6 DEF IndInv, ArrivingIsBehind, ArrivingIsCurrent
  <2>8. BetweenDays' /\ AtBarrier' /\ DuringDay'
    BY <2>1, <2>3, <2>5 DEF BetweenDays, AtBarrier, DuringDay
  <2> QED  BY <1>1, <2>1, <2>3, <2>7, <2>8 DEF IndInv
<1> QED  BY <1>2, <1>3

(* Reading day_seq: the client gets the number of the open barrier. *)
LEMMA ReadStep == ASSUME IndInv, NEW c \in Clients, ReadDaySeq(c) PROVE IndInv'
<1> USE DEF ReadDaySeq, director, sync, Go
<1>1. TypeOK'
  BY DEF IndInv, TypeOK, ClientPc
<1>2. Joined' = Joined  BY DEF Joined
<1>3. \A b \in Clients : b # c => (Arriving(b)' <=> Arriving(b)) /\ barrier_day'[b] = barrier_day[b]
  BY DEF Arriving, IndInv, TypeOK
<1>4. barrier_day'[c] = day_seq /\ last_day[c] < day_seq
  BY DEF IndInv, TypeOK
<1>5. ArrivingIsBehind' /\ ArrivingIsCurrent'
  BY <1>3, <1>4 DEF IndInv, TypeOK, ArrivingIsBehind, ArrivingIsCurrent
<1>6. BetweenDays' /\ AtBarrier' /\ DuringDay'
  BY <1>2 DEF IndInv, BetweenDays, AtBarrier, DuringDay
<1> QED  BY <1>1, <1>5, <1>6 DEF IndInv

(* Steps of a client that touch neither the barrier nor its two days. *)
LEMMA QuietStep ==
    ASSUME IndInv, TypeOK', NEW c \in Clients, NEW label \in ClientPc,
           cpc' = [cpc EXCEPT ![c] = label],
           label = "lock" => cpc[c] = "spin", label # "spin",
           UNCHANGED <<sync, dpc, day, running, barrier_day, last_day>>
    PROVE  IndInv'
<1>1. Joined' = Joined  BY DEF Joined, sync
<1>2. \A b \in Clients : Arriving(b)' => Arriving(b)
  BY DEF Arriving, IndInv, TypeOK
<1>3. ArrivingIsBehind' /\ ArrivingIsCurrent'
  BY <1>2 DEF IndInv, ArrivingIsBehind, ArrivingIsCurrent, sync
<1>4. BetweenDays' /\ AtBarrier' /\ DuringDay'
  BY <1>1 DEF IndInv, BetweenDays, AtBarrier, DuringDay, sync
<1> QED  BY <1>3, <1>4 DEF IndInv, sync

(* Every step preserves the invariant. *)
LEMMA Inductive == IndInv /\ [Next]_vars => IndInv'
<1> SUFFICES ASSUME IndInv, [Next]_vars PROVE IndInv'  OBVIOUS
<1> USE DEF client, director
<1>1. CASE UNCHANGED vars
  BY <1>1 DEF vars, sync, IndInv, TypeOK, ArrivingIsBehind, ArrivingIsCurrent, Arriving,
              BetweenDays, AtBarrier, DuringDay, Joined
<1>2. CASE OpenBarrier  BY <1>2, OpenStep
<1>3. CASE ReleaseBarrier  BY <1>3, ReleaseStep
<1>4. ASSUME /\ UNCHANGED <<sync, last_day, barrier_day, cpc>>
             /\ TypeOK'
             /\ \/ dpc = "users" /\ dpc' = "closed" /\ UNCHANGED <<day, running>>
                \/ dpc = "closed" /\ ~running /\ dpc' = "day" /\ UNCHANGED <<day, running>>
                \/ dpc = "day" /\ running /\ day' = day + 1 /\ UNCHANGED running
                   /\ dpc' = IF day + 1 > Days THEN "ended" ELSE "closed"
                \/ dpc # "waiting" /\ dpc' \in {"ended", "reaping", "reaped"}
                \/ ~running' /\ UNCHANGED <<dpc, day>>
      PROVE  IndInv'
  <2>1. Joined' = Joined  BY <1>4 DEF Joined, sync
  <2>2. barrier_active' <=> dpc' = "waiting"  BY <1>4 DEF IndInv, sync
  <2>3. ArrivingIsBehind' /\ ArrivingIsCurrent'
    BY <1>4 DEF IndInv, ArrivingIsBehind, ArrivingIsCurrent, Arriving, sync
  <2>4. BetweenDays' /\ AtBarrier' /\ DuringDay'
    BY <1>4, <2>1 DEF IndInv, TypeOK, BetweenDays, AtBarrier, DuringDay, sync
  <2> QED  BY <1>4, <2>2, <2>3, <2>4 DEF IndInv
<1>5. CASE UsersConnected
  <2>1. TypeOK'  BY <1>5 DEF UsersConnected, IndInv, TypeOK, DirectorPc, sync
  <2> QED  BY <1>4, <1>5, <2>1 DEF UsersConnected
<1>6. CASE SkipBarrier
  <2>1. TypeOK'  BY <1>6 DEF SkipBarrier, IndInv, TypeOK, DirectorPc, sync
  <2> QED  BY <1>4, <1>6, <2>1 DEF SkipBarrier
<1>7. CASE ActivateBarrier
  <2>1. TypeOK'  BY <1>7 DEF ActivateBarrier, IndInv, TypeOK, DirectorPc
  <2>2. Joined' = Joined  BY <1>7 DEF ActivateBarrier, Joined
  <2> QED  BY <1>7, <2>1, <2>2
    DEF ActivateBarrier, IndInv, ArrivingIsBehind, ArrivingIsCurrent, Arriving,
        BetweenDays, AtBarrier, DuringDay
<1>8. CASE NoticeCrash
  <2>1. TypeOK'  BY <1>8 DEF NoticeCrash, IndInv, TypeOK, DirectorPc, sync
  <2> QED  BY <1>4, <1>8, <2>1 DEF NoticeCrash
<1>9. CASE DayOver
  <2>1. day <= Days  BY <1>9 DEF DayOver, IndInv, DuringDay
  <2>2. TypeOK'  BY <1>9, <2>1 DEF DayOver, IndInv, TypeOK, DirectorPc, sync
  <2> QED  BY <1>4, <1>9, <2>2 DEF DayOver
<1>10. CASE LeaveClock
  <2>1. TypeOK'  BY <1>10 DEF LeaveClock, IndInv, TypeOK, DirectorPc, sync
  <2> QED  BY <1>4, <1>10, <2>1 DEF LeaveClock
<1>11. CASE Terminate
  <2>1. TypeOK'  BY <1>11 DEF Terminate, IndInv, TypeOK, DirectorPc, sync
  <2> QED  BY <1>4, <1>11, <2>1 DEF Terminate
<1>12. CASE Reap
  <2>1. TypeOK'  BY <1>12 DEF Reap, IndInv, TypeOK, DirectorPc, sync
  <2> QED  BY <1>4, <1>12, <2>1 DEF Reap
<1>13. CASE Interrupt
  <2>1. TypeOK'  BY <1>13 DEF Interrupt, IndInv, TypeOK, sync
  <2> QED  BY <1>4, <1>13, <2>1 DEF Interrupt
<1>14. ASSUME NEW c \in Clients, ClientStep(c) \/ Crash(c) PROVE IndInv'
  <2> USE DEF Go, ClientPc
  <2>1. CASE Enter(c)
    <3>1. TypeOK'  BY <2>1 DEF Enter, IndInv, TypeOK, sync
    <3> QED  BY <2>1, <3>1, QuietStep DEF Enter
  <2>9. CASE Gather(c)
    <3>1. TypeOK'  BY <2>9 DEF Gather, IndInv, TypeOK, sync
    <3> QED  BY <2>9, <3>1, QuietStep DEF Gather
  <2>10. CASE StartSync(c)
    <3>1. TypeOK'  BY <2>10 DEF StartSync, IndInv, TypeOK, sync
    <3> QED  BY <2>10, <3>1, QuietStep DEF StartSync
  <2>2. CASE ReadDaySeq(c)  BY <2>2, ReadStep
  <2>3. CASE SeeActive(c)
    <3>1. TypeOK'  BY <2>3 DEF SeeActive, IndInv, TypeOK, sync
    <3> QED  BY <2>3, <3>1, QuietStep DEF SeeActive
  <2>4. CASE GiveUp(c)
    <3>1. TypeOK'  BY <2>4 DEF GiveUp, IndInv, TypeOK, sync
    <3> QED  BY <2>4, <3>1, QuietStep DEF GiveUp
  <2>5. CASE Join(c)  BY <2>5, JoinStep
  <2>6. CASE Wake(c)
    <3>1. TypeOK'  BY <2>6 DEF Wake, IndInv, TypeOK, sync
    <3> QED  BY <2>6, <3>1, QuietStep DEF Wake
  <2>7. CASE Exit(c)
    <3>1. TypeOK'  BY <2>7 DEF Exit, IndInv, TypeOK, sync
    <3> QED  BY <2>7, <3>1, QuietStep DEF Exit
  <2>8. CASE Crash(c)
    <3>1. TypeOK'  BY <2>8 DEF Crash, IndInv, TypeOK, sync
    <3> QED  BY <2>8, <3>1, QuietStep DEF Crash
  <2> QED  BY <1>14, <2>1, <2>2, <2>3, <2>4, <2>5, <2>6, <2>7, <2>8, <2>9, <2>10 DEF ClientStep
<1> QED  BY <1>1, <1>2, <1>3, <1>5, <1>6, <1>7, <1>8, <1>9, <1>10, <1>11, <1>12, <1>13, <1>14
  DEF Next, DirectorStep

(* The inductive invariant holds throughout. *)
LEMMA Invariance == Spec => []IndInv
BY InitEstablishes, Inductive, PTL DEF Spec

(* The director's and the clients' variables keep their types, for any     *)
(* set of subsystems and any number of days and crashes.                   *)
THEOREM TypeCorrect == Spec => []TypeOK
<1>1. IndInv => TypeOK  BY DEF IndInv
<1> QED  BY <1>1, Invariance, PTL

(* ready_count is the number of processes that joined the open barrier.    *)
THEOREM CountSafe == Spec => []CountIsExact
<1>1. IndInv => CountIsExact  BY DEF IndInv, AtBarrier, CountIsExact
<1> QED  BY <1>1, Invariance, PTL

(* The clock of a day starts when all have joined it.                      *)
THEOREM TogetherSafe == Spec => []DayStartsTogether
<1>1. IndInv => DayStartsTogether  BY DEF IndInv, DuringDay, DayStartsTogether
<1> QED  BY <1>1, Invariance, PTL

(* After the last day everyone is still on that day. *)
AfterClock ==
    (dpc \in {"ended", "reaping", "reaped"} /\ running)
        => \A c \in Clients : last_day[c] = day_seq

LEMMA AfterClockStep == IndInv /\ AfterClock /\ [Next]_vars => AfterClock'
<1> SUFFICES ASSUME IndInv, AfterClock, [Next]_vars PROVE AfterClock'  OBVIOUS
<1> USE DEF client, director, sync, AfterClock
<1>1. CASE UNCHANGED vars  BY <1>1 DEF vars
<1>2. CASE OpenBarrier \/ ReleaseBarrier \/ UsersConnected \/ SkipBarrier \/ ActivateBarrier
  BY <1>2 DEF OpenBarrier, ReleaseBarrier, UsersConnected, SkipBarrier, ActivateBarrier
<1>3. CASE DayOver \/ LeaveClock \/ NoticeCrash
  BY <1>3 DEF IndInv, DuringDay, DayOver, LeaveClock, NoticeCrash
<1>4. CASE Terminate \/ Reap \/ Interrupt
  BY <1>4 DEF Terminate, Reap, Interrupt
<1>5. ASSUME NEW c \in Clients, ClientStep(c) \/ Crash(c) PROVE AfterClock'
  <2>1. CASE Join(c)  BY <2>1 DEF Join, IndInv
  <2>2. CASE \/ Enter(c) \/ Gather(c) \/ StartSync(c) \/ ReadDaySeq(c) \/ SeeActive(c)
             \/ GiveUp(c) \/ Wake(c) \/ Exit(c) \/ Crash(c)
    BY <2>2 DEF Enter, Gather, StartSync, ReadDaySeq, SeeActive, GiveUp, Wake, Exit, Crash
  <2> QED  BY <1>5, <2>1, <2>2 DEF ClientStep
<1> QED  BY <1>1, <1>2, <1>3, <1>4, <1>5 DEF Next, DirectorStep

(* A client leaves the barrier for a day only when all have reached it.    *)
THEOREM AheadSafe == Spec => NobodyAhead
<1>1. Init => AfterClock  BY DEF Init, AfterClock
<1>2. ASSUME IndInv, AfterClock, [Next]_vars PROVE [ReturnTogether]_vars
  <2> SUFFICES ASSUME Next, NEW c \in Clients,
                      cpc[c] = "release", cpc'[c] = "work", ~Stopped(c)
               PROVE  (\A b \in Clients : last_day[b] >= last_day[c]) \/ ~running
    BY <1>2 DEF ReturnTogether, vars
  <2>1. UNCHANGED cpc => FALSE  OBVIOUS
  <2>2. PICK b \in Clients : ClientStep(b) \/ Crash(b)
    BY <2>1 DEF Next, DirectorStep, OpenBarrier, ReleaseBarrier, UsersConnected, SkipBarrier,
       ActivateBarrier, DayOver, LeaveClock, NoticeCrash, Terminate, Reap, Interrupt, client
  <2>3. b = c
    BY <1>2, <2>2 DEF ClientStep, Enter, Gather, StartSync, ReadDaySeq, SeeActive, GiveUp, Join, Wake, Exit, Crash,
       Go, IndInv, TypeOK
  <2>4. ~barrier_active /\ dpc # "opening"
    BY <1>2, <2>2, <2>3 DEF ClientStep, Enter, Gather, StartSync, ReadDaySeq, SeeActive, GiveUp, Join, Wake, Exit,
       Crash, Go, IndInv, TypeOK
  <2>5. ASSUME running PROVE \A a \in Clients : last_day[a] = day_seq
    BY <1>2, <2>4, <2>5 DEF IndInv, TypeOK, DirectorPc, BetweenDays, DuringDay, AfterClock
  <2> QED  BY <1>2, <2>5 DEF IndInv, TypeOK
<1> QED  BY <1>1, <1>2, AfterClockStep, Invariance, PTL DEF Spec, NobodyAhead

(* With days longer than a wake-up, nobody waits for an old release when   *)
(* the next barrier opens.                                                 *)
AwakeBetweenDays == dpc \in {"users", "closed", "opening"} => AllAwake

LEMMA AwakeStep ==
    ASSUME LongDays, IndInv, AwakeBetweenDays, WaitersAreCounted, [Next]_vars
    PROVE  AwakeBetweenDays' /\ WaitersAreCounted'
<1> USE DEF client, director, sync, AwakeBetweenDays, WaitersAreCounted, AllAwake
<1>1. CASE UNCHANGED vars  BY <1>1 DEF vars
<1>2. CASE OpenBarrier \/ ReleaseBarrier \/ UsersConnected \/ SkipBarrier \/ ActivateBarrier
  BY <1>2 DEF OpenBarrier, ReleaseBarrier, UsersConnected, SkipBarrier, ActivateBarrier, IndInv
<1>3. CASE DayOver \/ LeaveClock \/ NoticeCrash
  BY <1>3 DEF DayOver, LeaveClock, NoticeCrash
<1>4. CASE Terminate \/ Reap \/ Interrupt
  BY <1>4 DEF Terminate, Reap, Interrupt
<1>5. ASSUME NEW c \in Clients, ClientStep(c) \/ Crash(c)
      PROVE  AwakeBetweenDays' /\ WaitersAreCounted'
  <2> USE DEF Go
  <2>1. CASE Join(c)
    <3>1. CASE ~barrier_active  BY <2>1, <3>1 DEF Join, IndInv, TypeOK
    <3>2. CASE barrier_active
      <4>1. dpc = "waiting" /\ barrier_day[c] = day_seq
        BY <2>1, <3>2 DEF Join, IndInv, ArrivingIsCurrent, Arriving
      <4> QED  BY <2>1, <3>2, <4>1 DEF Join, IndInv, TypeOK
    <3> QED  BY <3>1, <3>2
  <2>2. CASE \/ Enter(c) \/ Gather(c) \/ StartSync(c) \/ ReadDaySeq(c) \/ SeeActive(c)
             \/ GiveUp(c) \/ Wake(c) \/ Exit(c) \/ Crash(c)
    <3>1. /\ UNCHANGED <<sync, dpc, last_day>>
          /\ \E label \in ClientPc \ {"release"} : cpc' = [cpc EXCEPT ![c] = label]
      BY <2>2 DEF Enter, Gather, StartSync, ReadDaySeq, SeeActive, GiveUp, Wake, Exit, Crash, ClientPc
    <3> QED  BY <3>1 DEF IndInv, TypeOK
  <2> QED  BY <1>5, <2>1, <2>2 DEF ClientStep
<1> QED  BY <1>1, <1>2, <1>3, <1>4, <1>5 DEF Next, DirectorStep

(* Whoever waits for a release has been counted, if days are long enough.  *)
THEOREM WaitersSafe == ASSUME LongDays PROVE Spec => []WaitersAreCounted
<1>1. Init => AwakeBetweenDays /\ WaitersAreCounted
  BY DEF Init, AwakeBetweenDays, WaitersAreCounted, AllAwake
<1>2. IndInv /\ AwakeBetweenDays /\ WaitersAreCounted /\ [Next]_vars
          => AwakeBetweenDays' /\ WaitersAreCounted'
  BY AwakeStep
<1> QED  BY <1>1, <1>2, Invariance, PTL DEF Spec
=============================================================================
