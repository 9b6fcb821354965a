-------------------------- MODULE ThreadPoolProofs --------------------------
(***************************************************************************)
(* Proofs about ThreadPool for any finite set of threads, any tasks and    *)
(* any queue bound.                                                        *)
(***************************************************************************)
EXTENDS ThreadPool, FiniteSetTheorems, SequenceTheorems, TLAPS

USE ThreadsAssumption, QueueAssumption

(* What the types leave out about the counter is that it counts. *)
Running == {t \in Threads : tpc[t] = "running"}

Types ==
    /\ tpc \in [Threads ->
        {"new", "check", "asleep", "woken", "taken", "running", "exited"}]
    /\ held \in [Threads -> Tasks \cup {NoTask}]
    /\ queue \in Seq(Tasks)
    /\ Len(queue) <= QueueSize
    /\ shutdown \in BOOLEAN /\ graceful \in BOOLEAN
    /\ owner \in {"creating", "open", "joining", "gone"}
    /\ accepted \subseteq Tasks
    /\ executed \subseteq Tasks
    /\ \A t \in Busy : held[t] \in Tasks

\* *external_active_counter is the number of threads inside a task function.
Counts == counter = Cardinality(Running)

(* After the broadcast of tp_destroy nobody goes to sleep again; before it *)
(* nobody exits, and the pool is not being joined.                         *)
Phases ==
    /\ shutdown => Asleep = {}
    /\ shutdown <=> owner \in {"joining", "gone"}
    /\ owner = "open" => \A t \in Threads : tpc[t] # "new"
    /\ \A t \in Threads : tpc[t] = "exited" => shutdown
    /\ owner = "gone" => \A t \in Threads : tpc[t] \in {"exited", "new"}

(* Where an accepted task is. *)
Held == {held[t] : t \in Busy}
Tracked ==
    /\ accepted = executed \cup Held \cup InQueue \/ (shutdown /\ ~graceful)
    /\ executed \cup Held \cup InQueue \subseteq accepted
    /\ (graceful /\ \E t \in Threads : tpc[t] = "exited") => queue = <<>>
    /\ graceful => \A t \in Threads : tpc[t] # "new"

LEMMA SubsetsFinite ==
    /\ IsFiniteSet(Woken) /\ IsFiniteSet(Running)
    /\ Cardinality(Woken) \in Nat /\ Cardinality(Running) \in Nat
    /\ Cardinality(Running) <= Cardinality(Threads)
    /\ Cardinality(Threads) \in Nat
BY FS_Subset, FS_CardinalityType DEF Woken, Running

LEMMA InitTypes == Init => Types /\ Counts /\ Phases
<1> SUFFICES ASSUME Init PROVE Types /\ Counts /\ Phases
  OBVIOUS
<1>1. Running = {} /\ Busy = {} /\ Asleep = {}
  BY Zenon DEF Init, Running, Busy, Asleep
<1>2. Counts
  BY <1>1, FS_EmptySet DEF Init, Counts
<1>3. shutdown \in BOOLEAN /\ graceful \in BOOLEAN
  BY Zenon DEF Init
<1>4. Types
  BY <1>1, <1>3 DEF Init, Types
<1>5. Phases
  BY <1>1 DEF Init, Phases
<1> QED
  BY <1>2, <1>4, <1>5

-----------------------------------------------------------------------------
(* Types *)

LEMMA TypesStep ==
    ASSUME Types, Next
    PROVE  Types'
<1> USE DEF Types
<1>1. ASSUME NEW t \in Threads, Sleep(t) \/ SpuriousWakeup(t) \/ Exit(t) PROVE Types'
  BY <1>1 DEF Sleep, SpuriousWakeup, Exit, HasMutex, Busy
<1>2. ASSUME NEW t \in Threads, Take(t) PROVE Types'
  <2>1. queue # <<>> /\ queue \in Seq(Tasks)
    BY <1>2 DEF Take
  <2>2. /\ Head(queue) \in Tasks
        /\ Tail(queue) \in Seq(Tasks) /\ Len(Tail(queue)) <= QueueSize
    BY <2>1, HeadTailProperties
  <2> QED
    BY <1>2, <2>2 DEF Take, HasMutex, Busy
<1>3. ASSUME NEW t \in Threads, Run(t) PROVE Types'
  BY <1>3 DEF Run, Busy
<1>4. ASSUME NEW t \in Threads, Finish(t) PROVE Types'
  BY <1>4 DEF Finish, Busy
<1>5. ASSUME NEW t \in Threads, StartThread(t) PROVE Types'
  BY <1>5 DEF StartThread, Busy
<1>6. CASE Created
  BY <1>6 DEF Created, Busy
<1>7. ASSUME NEW g \in BOOLEAN, BeginDestroy(g) PROVE Types'
  BY <1>7 DEF BeginDestroy, WakeAll, Busy
<1>8. ASSUME NEW x \in Tasks, Submit(x) PROVE Types'
  BY <1>8 DEF Submit, WakeOne, Asleep, Busy
<1>9. CASE Joined
  BY <1>9 DEF Joined, Busy
<1> QED
  BY <1>1, <1>2, <1>3, <1>4, <1>5, <1>6, <1>7, <1>8, <1>9
  DEF Next, ThreadStep, OwnerStep, CreateFails, Destroy

LEMMA PhasesStep ==
    ASSUME Types, Phases, Next
    PROVE  Phases'
<1> USE DEF Types, Phases, Asleep
<1>1. ASSUME NEW t \in Threads, Sleep(t) \/ SpuriousWakeup(t) \/ Exit(t) PROVE Phases'
  BY <1>1 DEF Sleep, SpuriousWakeup, Exit, HasMutex
<1>2. ASSUME NEW t \in Threads, Take(t) \/ Run(t) \/ Finish(t) PROVE Phases'
  BY <1>2 DEF Take, Run, Finish, HasMutex
<1>5. ASSUME NEW t \in Threads, StartThread(t) PROVE Phases'
  BY <1>5 DEF StartThread
<1>6. CASE Created
  BY <1>6 DEF Created
<1>7. ASSUME NEW g \in BOOLEAN, owner \in {"creating", "open"}, BeginDestroy(g) PROVE Phases'
  BY <1>7 DEF BeginDestroy, WakeAll
<1>8. ASSUME NEW x \in Tasks, Submit(x) PROVE Phases'
  BY <1>8 DEF Submit, WakeOne
<1>9. CASE Joined
  BY <1>9 DEF Joined
<1> QED
  BY <1>1, <1>2, <1>5, <1>6, <1>7, <1>8, <1>9
  DEF Next, ThreadStep, OwnerStep, CreateFails, Destroy

(* The counter moves with the threads that run a task. *)
LEMMA CountsStep ==
    ASSUME Types, Counts, Next
    PROVE  Counts'
<1> USE DEF Types, Counts
<1>1. ASSUME NEW t \in Threads, Run(t) PROVE Counts'
  <2>1. Running' = Running \cup {t} /\ t \notin Running
    BY <1>1 DEF Run, Running
  <2> QED
    BY <1>1, <2>1, SubsetsFinite, FS_AddElement DEF Run
<1>2. ASSUME NEW t \in Threads, Finish(t) PROVE Counts'
  <2>1. Running' = Running \ {t} /\ t \in Running
    BY <1>2 DEF Finish, Running
  <2> QED
    BY <1>2, <2>1, SubsetsFinite, FS_RemoveElement DEF Finish
<1>3. ASSUME Running' = Running, UNCHANGED counter PROVE Counts'
  BY <1>3
<1>4. ASSUME NEW t \in Threads,
             Sleep(t) \/ SpuriousWakeup(t) \/ Exit(t) \/ Take(t) \/ StartThread(t)
      PROVE  Counts'
  BY <1>3, <1>4 DEF Sleep, SpuriousWakeup, Exit, Take, StartThread, HasMutex, Running
<1>5. ASSUME NEW g \in BOOLEAN, BeginDestroy(g) PROVE Counts'
  BY <1>3, <1>5 DEF BeginDestroy, WakeAll, Running
<1>6. ASSUME NEW x \in Tasks, Submit(x) PROVE Counts'
  BY <1>3, <1>6 DEF Submit, WakeOne, Asleep, Running
<1>7. CASE Created \/ Joined
  BY <1>3, <1>7 DEF Created, Joined, Running
<1> QED
  BY <1>1, <1>2, <1>4, <1>5, <1>6, <1>7
  DEF Next, ThreadStep, OwnerStep, CreateFails, Destroy

-----------------------------------------------------------------------------
(* No wakeup is lost *)

LEMMA WorkStep ==
    ASSUME Types, Phases, WorkConserving, Next
    PROVE  WorkConserving'
<1>a. Len(queue) \in Nat
  BY DEF Types
<1>1. ASSUME NEW t \in Threads, Sleep(t) PROVE WorkConserving'
  <2>1. Len(queue') = 0
    BY <1>1 DEF Sleep
  <2>2. Cardinality(Woken') \in Nat
    BY FS_Subset, FS_CardinalityType DEF Woken
  <2> QED
    BY <2>1, <2>2 DEF WorkConserving
<1>2. ASSUME NEW t \in Threads, tpc[t] = "asleep", tpc' = [tpc EXCEPT ![t] = "woken"],
             Len(queue') \in Nat, Len(queue') <= Len(queue) + 1
      PROVE  WorkConserving'
  <2>1. Woken' = Woken \cup {t} /\ t \notin Woken /\ Asleep # {}
    BY <1>2 DEF Types, Woken, Asleep
  <2>2. Cardinality(Woken') = Cardinality(Woken) + 1
    BY <2>1, SubsetsFinite, FS_AddElement
  <2> QED
    BY <1>a, <1>2, <2>1, <2>2, SubsetsFinite DEF WorkConserving
<1>3. ASSUME NEW t \in Threads, SpuriousWakeup(t) PROVE WorkConserving'
  <2>1. /\ tpc[t] = "asleep" /\ tpc' = [tpc EXCEPT ![t] = "woken"]
        /\ Len(queue') \in Nat /\ Len(queue') <= Len(queue) + 1
    BY <1>a, <1>3 DEF SpuriousWakeup
  <2> QED
    BY <1>2, <2>1
<1>4. ASSUME NEW x \in Tasks, Submit(x) PROVE WorkConserving'
  <2>1. Len(queue') = Len(queue) + 1 /\ Len(queue) \in Nat
    BY <1>4, AppendProperties DEF Submit, Types
  <2>2. CASE Asleep = {} /\ UNCHANGED tpc
    BY <2>2 DEF Asleep, WorkConserving
  <2>3. ASSUME NEW t \in Asleep, tpc' = [tpc EXCEPT ![t] = "woken"] PROVE WorkConserving'
    <3>1. /\ t \in Threads /\ tpc[t] = "asleep"
          /\ Len(queue') \in Nat /\ Len(queue') <= Len(queue) + 1
      BY <2>1, <2>3 DEF Asleep
    <3> QED
      BY <1>2, <2>3, <3>1
  <2> QED
    BY <1>4, <2>2, <2>3 DEF Submit, WakeOne
<1>5. ASSUME NEW t \in Threads, Take(t) PROVE WorkConserving'
  <2>1. Len(queue') = Len(queue) - 1 /\ Len(queue) \in Nat
    BY <1>5, HeadTailProperties DEF Take, Types
  <2>2. Asleep' = Asleep
    BY <1>5 DEF Take, HasMutex, Asleep, Types
  <2>3. Woken' = Woken \ {t}
    BY <1>5 DEF Take, HasMutex, Woken, Types
  <2>4. Cardinality(Woken') >= Cardinality(Woken) - 1 /\ Cardinality(Woken') \in Nat
    <3>1. Cardinality(Woken \ {t}) =
            IF t \in Woken THEN Cardinality(Woken) - 1 ELSE Cardinality(Woken)
      BY SubsetsFinite, FS_RemoveElement
    <3>2. Cardinality(Woken \ {t}) \in Nat
      BY SubsetsFinite, FS_RemoveElement, FS_CardinalityType
    <3> QED
      BY <2>3, <3>1, <3>2, SubsetsFinite
  <2> QED
    BY <2>1, <2>2, <2>4, SubsetsFinite DEF WorkConserving
<1>6. ASSUME NEW t \in Threads, Run(t) \/ Finish(t) \/ StartThread(t) PROVE WorkConserving'
  <2>1. Asleep' = Asleep /\ Woken' = Woken /\ queue' = queue
    BY <1>6 DEF Run, Finish, StartThread, Asleep, Woken, Types
  <2> QED
    BY <2>1 DEF WorkConserving
<1>7. ASSUME Phases', shutdown' PROVE WorkConserving'
  BY <1>7 DEF Phases, WorkConserving
<1>8. ASSUME NEW t \in Threads, Exit(t) PROVE WorkConserving'
  BY <1>7, <1>8, PhasesStep DEF Exit
<1>9. ASSUME NEW g \in BOOLEAN, BeginDestroy(g) PROVE WorkConserving'
  BY <1>7, <1>9, PhasesStep DEF BeginDestroy
<1>10. CASE Created
  <2>1. Asleep' = Asleep /\ Woken' = Woken /\ queue' = queue
    BY <1>10 DEF Created, Asleep, Woken
  <2> QED
    BY <2>1 DEF WorkConserving
<1>11. CASE Joined
  BY <1>7, <1>11, PhasesStep DEF Joined, Phases
<1> QED
  BY <1>1, <1>3, <1>4, <1>5, <1>6, <1>8, <1>9, <1>10, <1>11
  DEF Next, ThreadStep, OwnerStep, CreateFails, Destroy

-----------------------------------------------------------------------------
(* Where the tasks are *)

LEMMA SubmitQueue ==
    ASSUME Types, TaskOnce, NEW x \in Tasks, x \notin InQueue, queue' = Append(queue, x)
    PROVE  /\ InQueue' = InQueue \cup {x}
           /\ \A i, j \in 1..Len(queue') : queue'[i] = queue'[j] => i = j
<1>1. /\ Len(queue) \in Nat
      /\ Len(queue') = Len(queue) + 1
      /\ \A i \in 1..Len(queue) : queue'[i] = queue[i]
      /\ queue'[Len(queue) + 1] = x
  BY AppendProperties DEF Types
<1>2. InQueue' = InQueue \cup {x}
  BY <1>1 DEF InQueue
<1>3. \A i \in 1..Len(queue) : queue[i] # x
  BY DEF InQueue
<1>4. ASSUME NEW i \in 1..Len(queue'), NEW j \in 1..Len(queue'), queue'[i] = queue'[j]
      PROVE  i = j
  BY <1>1, <1>3, <1>4 DEF TaskOnce
<1> QED
  BY <1>2, <1>4

LEMMA TakeQueue ==
    ASSUME Types, TaskOnce, queue # <<>>, queue' = Tail(queue)
    PROVE  /\ InQueue = InQueue' \cup {Head(queue)}
           /\ Head(queue) \notin InQueue'
           /\ \A i, j \in 1..Len(queue') : queue'[i] = queue'[j] => i = j
<1>1. /\ Len(queue) \in Nat /\ Len(queue) > 0
      /\ Len(queue') = Len(queue) - 1
      /\ \A i \in 1..Len(queue') : queue'[i] = queue[i + 1]
      /\ Head(queue) = queue[1]
  BY HeadTailProperties, EmptySeq DEF Types
<1>2. ASSUME NEW i \in 1..Len(queue)
      PROVE  queue[i] \in InQueue' \cup {Head(queue)}
  <2>1. CASE i = 1
    BY <1>1, <2>1
  <2>2. CASE i # 1
    <3>1. i - 1 \in 1..Len(queue') /\ queue'[i - 1] = queue[i]
      BY <1>1, <2>2
    <3> QED
      BY <3>1 DEF InQueue
  <2> QED
    BY <2>1, <2>2
<1>3. ASSUME NEW i \in 1..Len(queue') PROVE queue'[i] \in InQueue /\ queue'[i] # Head(queue)
  <2>1. i + 1 \in 1..Len(queue) /\ queue'[i] = queue[i + 1] /\ 1 \in 1..Len(queue) /\ i + 1 # 1
    BY <1>1
  <2>2. queue[i + 1] # queue[1]
    BY <2>1 DEF TaskOnce
  <2> QED
    BY <1>1, <2>1, <2>2 DEF InQueue
<1>4. Head(queue) \in InQueue
  BY <1>1 DEF InQueue
<1>5. ASSUME NEW i \in 1..Len(queue'), NEW j \in 1..Len(queue'), queue'[i] = queue'[j]
      PROVE  i = j
  <2>1. /\ i + 1 \in 1..Len(queue) /\ j + 1 \in 1..Len(queue)
        /\ queue[i + 1] = queue[j + 1]
    BY <1>1, <1>5
  <2>2. i + 1 = j + 1
    BY <2>1 DEF TaskOnce
  <2> QED
    BY <2>2
<1>6. InQueue \subseteq InQueue' \cup {Head(queue)}
  BY <1>2 DEF InQueue
<1>7. InQueue' \subseteq InQueue /\ Head(queue) \notin InQueue'
  BY <1>3 DEF InQueue
<1> QED
  BY <1>4, <1>5, <1>6, <1>7

Placement == TaskOnce /\ Tracked

(* Steps that move no task and let no thread out of its work. *)
LEMMA QuietPlacement ==
    ASSUME Placement, Busy' = Busy, UNCHANGED <<held, queue, accepted, executed, graceful>>,
           graceful => ((\E t \in Threads : tpc'[t] = "exited") =>
                            (\E t \in Threads : tpc[t] = "exited") \/ queue = <<>>),
           graceful => \A t \in Threads : tpc[t] # "new" => tpc'[t] # "new",
           shutdown => shutdown'
    PROVE  Placement'
<1>1. InQueue' = InQueue /\ Held' = Held
  BY DEF InQueue, Held
<1>2. TaskOnce'
  BY <1>1 DEF Placement, TaskOnce
<1>3. Tracked'
  BY <1>1 DEF Placement, Tracked
<1> QED
  BY <1>2, <1>3 DEF Placement

LEMMA PlacementStep ==
    ASSUME Types, Phases, Placement, Next
    PROVE  Placement'
<1>1. ASSUME NEW t \in Threads, Sleep(t) \/ SpuriousWakeup(t) PROVE Placement'
  BY <1>1, QuietPlacement DEF Sleep, SpuriousWakeup, HasMutex, Busy, Types
<1>2. ASSUME NEW t \in Threads, Exit(t) PROVE Placement'
  BY <1>2, QuietPlacement DEF Exit, HasMutex, Busy, Types
<1>3. ASSUME NEW t \in Threads, Run(t) PROVE Placement'
  BY <1>3, QuietPlacement DEF Run, Busy, Types
<1>4. ASSUME NEW t \in Threads, StartThread(t) PROVE Placement'
  BY <1>4, QuietPlacement DEF StartThread, Busy, Types
<1>5. CASE Created
  BY <1>5, QuietPlacement DEF Created, Busy, Types
<1>6. ASSUME NEW x \in Tasks, Submit(x) PROVE Placement'
  <2>1. /\ x \notin accepted /\ ~shutdown /\ queue' = Append(queue, x)
        /\ accepted' = accepted \cup {x}
        /\ UNCHANGED <<held, shutdown, graceful, executed>>
    BY <1>6 DEF Submit
  <2>2. x \notin InQueue \cup Held \cup executed
    BY <2>1 DEF Placement, Tracked
  <2>3. /\ InQueue' = InQueue \cup {x}
        /\ \A i, j \in 1..Len(queue') : queue'[i] = queue'[j] => i = j
    BY <2>1, <2>2, SubmitQueue DEF Placement
  <2>4. Busy' = Busy /\ \A t \in Threads : /\ tpc'[t] = "exited" => tpc[t] = "exited"
                                           /\ tpc'[t] = "new" => tpc[t] = "new"
    BY <1>6 DEF Submit, WakeOne, Asleep, Busy, Types
  <2>5. Held' = Held
    BY <2>1, <2>4 DEF Held
  <2>6. \A t \in Busy : held[t] # x
    BY <2>2 DEF Held
  <2>7. TaskOnce'
    BY <2>1, <2>2, <2>3, <2>4, <2>6 DEF Placement, TaskOnce
  <2>8. \A t \in Threads : tpc'[t] \notin {"exited", "new"}
    <3>1. owner = "open"
      BY <1>6 DEF Submit
    <3>2. \A t \in Threads : tpc[t] # "exited" /\ tpc[t] # "new"
      BY <2>1, <3>1, Zenon DEF Phases
    <3> QED
      BY <2>4, <3>2
  <2>9. accepted = executed \cup Held \cup InQueue
    BY <2>1, Zenon DEF Placement, Tracked
  <2>10. accepted' = (executed \cup Held \cup InQueue)'
    BY <2>1, <2>3, <2>5, <2>9
  <2>11. Tracked'
    BY <2>8, <2>10, Zenon DEF Tracked
  <2> QED
    BY <2>7, <2>11 DEF Placement
<1>7. ASSUME NEW t \in Threads, Take(t) PROVE Placement'
  <2>1. /\ t \notin Busy /\ Busy' = Busy \cup {t}
        /\ held' = [held EXCEPT ![t] = Head(queue)]
        /\ queue # <<>> /\ queue' = Tail(queue)
        /\ UNCHANGED <<accepted, executed, shutdown, graceful>>
    BY <1>7 DEF Take, HasMutex, Busy, Types
  <2>2. /\ InQueue = InQueue' \cup {Head(queue)}
        /\ Head(queue) \notin InQueue'
        /\ \A i, j \in 1..Len(queue') : queue'[i] = queue'[j] => i = j
    BY <2>1, TakeQueue DEF Placement
  <2>3. Held' = Held \cup {Head(queue)}
    BY <2>1 DEF Held, Types, Busy
  <2>4. \A s \in Busy : held'[s] = held[s] /\ held[s] # Head(queue)
    BY <2>1, <2>2 DEF Types, Busy, Placement, TaskOnce
  <2>5. held'[t] = Head(queue)
    BY <2>1 DEF Types
  <2>6. TaskOnce'
    BY <2>1, <2>2, <2>4, <2>5 DEF Placement, TaskOnce
  <2>7. \A s \in Threads : /\ tpc'[s] = "exited" => tpc[s] = "exited"
                           /\ tpc'[s] = "new" => tpc[s] = "new"
    BY <1>7 DEF Take, Types
  <2>8. Tracked'
    BY <2>1, <2>2, <2>3, <2>7 DEF Placement, Tracked
  <2> QED
    BY <2>6, <2>8 DEF Placement
<1>8. ASSUME NEW t \in Threads, Finish(t) PROVE Placement'
  <2>1. /\ t \in Busy /\ Busy' = Busy \ {t}
        /\ held' = [held EXCEPT ![t] = NoTask]
        /\ executed' = executed \cup {held[t]}
        /\ UNCHANGED <<queue, accepted, shutdown, graceful>>
    BY <1>8 DEF Finish, Busy, Types
  <2>2. \A s \in Busy' : held'[s] = held[s] /\ held[s] # held[t]
    BY <2>1 DEF Types, Busy, Placement, TaskOnce
  <2>3. Held' \cup {held[t]} = Held /\ InQueue' = InQueue
    BY <2>1, <2>2 DEF Held, InQueue
  <2>4. TaskOnce'
    BY <2>1, <2>2, <2>3 DEF Placement, TaskOnce
  <2>5. \A s \in Threads : /\ tpc'[s] = "exited" => tpc[s] = "exited"
                           /\ tpc'[s] = "new" => tpc[s] = "new"
    BY <1>8 DEF Finish, Types
  <2>6. Tracked'
    BY <2>1, <2>3, <2>5 DEF Placement, Tracked
  <2> QED
    BY <2>4, <2>6 DEF Placement
<1>9. ASSUME NEW g \in BOOLEAN, BeginDestroy(g), owner \in {"creating", "open"},
             g => owner = "open"
      PROVE  Placement'
  <2>1. /\ Busy' = Busy /\ UNCHANGED <<held, queue, accepted, executed>>
        /\ shutdown' /\ graceful' = g /\ ~shutdown
        /\ \A s \in Threads : /\ tpc'[s] = "exited" => tpc[s] = "exited"
                              /\ tpc'[s] = "new" => tpc[s] = "new"
    BY <1>9 DEF BeginDestroy, WakeAll, Busy, Types, Phases
  <2>2. Held' = Held /\ InQueue' = InQueue
    BY <2>1 DEF Held, InQueue
  <2>3. TaskOnce'
    BY <2>1, <2>2 DEF Placement, TaskOnce
  <2>4. \A s \in Threads : tpc[s] # "exited"
    BY <2>1 DEF Phases
  <2>5. accepted = executed \cup Held \cup InQueue
    BY <2>1, Zenon DEF Placement, Tracked
  <2>6. accepted' = (executed \cup Held \cup InQueue)'
    BY <2>1, <2>2, <2>5
  <2>7. /\ \A s \in Threads : tpc'[s] # "exited"
        /\ graceful' => \A s \in Threads : tpc'[s] # "new"
    <3>1. \A s \in Threads : tpc'[s] # "exited"
      BY <2>1, <2>4
    <3>2. g => \A s \in Threads : tpc[s] # "new"
      BY <1>9, Zenon DEF Phases
    <3>3. g => \A s \in Threads : tpc'[s] # "new"
      BY <2>1, <3>2
    <3> QED
      BY <2>1, <3>1, <3>3, Zenon
  <2>8. Tracked'
    BY <2>6, <2>7, Zenon DEF Tracked
  <2> QED
    BY <2>3, <2>8 DEF Placement
<1>10. CASE Joined
  <2>1. /\ Busy' = Busy /\ queue' = <<>>
        /\ UNCHANGED <<tpc, held, accepted, executed, shutdown, graceful>>
        /\ \A t \in Threads : tpc[t] \in {"exited", "new"}
        /\ shutdown
    BY <1>10 DEF Joined, Busy, Phases
  <2>2. Held' = Held /\ InQueue' = {}
    BY <2>1 DEF Held, InQueue
  <2>3. graceful => queue = <<>>
    BY <2>1 DEF Placement, Tracked
  <2>4. graceful => InQueue = {}
    BY <2>3 DEF InQueue
  <2>5. TaskOnce'
    BY <2>1, <2>2 DEF Placement, TaskOnce
  <2>6. Tracked'
    BY <2>1, <2>2, <2>4 DEF Placement, Tracked
  <2> QED
    BY <2>5, <2>6 DEF Placement
<1> QED
  BY <1>1, <1>2, <1>3, <1>4, <1>5, <1>6, <1>7, <1>8, <1>9, <1>10
  DEF Next, ThreadStep, OwnerStep, CreateFails, Destroy

-----------------------------------------------------------------------------
(* The theorems *)

IInv == Types /\ Counts /\ Phases /\ Placement

LEMMA InitPlacement == Init => Placement /\ WorkConserving
<1> SUFFICES ASSUME Init PROVE Placement /\ WorkConserving
  OBVIOUS
<1>1. Busy = {} /\ Asleep = {} /\ executed = {} /\ accepted = {} /\ queue = <<>>
  BY Zenon DEF Init, Busy, Asleep
<1>2. InQueue = {} /\ Held = {}
  BY <1>1 DEF InQueue, Held
<1>3. TaskOnce
  BY <1>1, <1>2 DEF TaskOnce
<1>4. ~graceful
  BY Zenon DEF Init
<1>5. Tracked
  BY <1>1, <1>2, <1>4 DEF Tracked
<1> QED
  BY <1>1, <1>3, <1>5 DEF Placement, WorkConserving

LEMMA Inductive == IInv /\ [Next]_pool => IInv'
<1> SUFFICES ASSUME IInv, [Next]_pool PROVE IInv'
  OBVIOUS
<1>1. CASE Next
  BY <1>1, TypesStep, CountsStep, PhasesStep, PlacementStep DEF IInv
<1>2. CASE UNCHANGED pool
  <2>1. UNCHANGED <<Busy, Running, Asleep, InQueue>>
    BY <1>2 DEF pool, Busy, Running, Asleep, InQueue
  <2>2. Held' = Held
    BY <1>2, <2>1 DEF pool, Held
  <2> QED
    BY <1>2, <2>1, <2>2
    DEF pool, IInv, Types, Counts, Phases, Placement, TaskOnce, Tracked
<1> QED
  BY <1>1, <1>2

LEMMA Invariant == Spec => []IInv
<1>1. Init => IInv
  BY InitTypes, InitPlacement DEF IInv
<1> QED
  BY <1>1, Inductive, PTL DEF Spec

(***************************************************************************)
(* The list never outgrows queue_size, and *external_active_counter is the *)
(* number of threads inside a task function: never negative, never more    *)
(* than the pool has threads.                                              *)
(***************************************************************************)
THEOREM TypeCorrect == Spec => [](TypeOK /\ Counts)
<1>1. IInv => TypeOK /\ Counts
  BY SubsetsFinite DEF IInv, Types, Counts, TypeOK
<1> QED
  BY <1>1, Invariant, PTL

(***************************************************************************)
(* One pthread_cond_signal per tp_submit loses no wakeup, for any number   *)
(* of threads and tasks.                                                   *)
(***************************************************************************)
THEOREM WorkSafe == Spec => []WorkConserving
<1>1. Init => WorkConserving
  BY InitPlacement
<1>2. IInv /\ WorkConserving /\ [Next]_pool => WorkConserving'
  <2>1. CASE Next
    BY <2>1, WorkStep DEF IInv
  <2>2. CASE UNCHANGED pool
    BY <2>2 DEF pool, WorkConserving, Asleep, Woken
  <2> QED
    BY <2>1, <2>2
<1> QED
  BY <1>1, <1>2, Invariant, PTL DEF Spec

(***************************************************************************)
(* No task accepted by tp_submit is run twice.                             *)
(***************************************************************************)
THEOREM OnceSafe == Spec => []TaskOnce
<1>1. IInv => TaskOnce
  BY DEF IInv, Placement
<1> QED
  BY <1>1, Invariant, PTL

(***************************************************************************)
(* A graceful tp_destroy returns only when every accepted task has been    *)
(* executed, and no destroy returns while a thread is inside a task.       *)
(***************************************************************************)
THEOREM DrainSafe == Spec => []GracefulDrains
<1>1. IInv => GracefulDrains
  <2> SUFFICES ASSUME IInv, owner = "gone" PROVE Busy = {} /\ (graceful => executed = accepted)
    BY DEF GracefulDrains
  <2>1. \A t \in Threads : tpc[t] \in {"exited", "new"}
    BY DEF IInv, Phases
  <2>2. Busy = {}
    BY <2>1 DEF Busy
  <2>3. ASSUME graceful PROVE executed = accepted
    <3>1. queue = <<>>
      BY <2>1, <2>3 DEF IInv, Placement, Tracked
    <3>2. InQueue = {} /\ Held = {}
      BY <2>2, <3>1 DEF InQueue, Held
    <3>3. accepted = executed \cup Held \cup InQueue
      BY <2>3, Zenon DEF IInv, Placement, Tracked
    <3> QED
      BY <3>2, <3>3
  <2> QED
    BY <2>2, <2>3
<1> QED
  BY <1>1, Invariant, PTL
=============================================================================
