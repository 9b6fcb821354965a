--------------------------- MODULE TicketService ---------------------------
(***************************************************************************)
(* Users, the work broker and the worker threads around a ticket: a user   *)
(* enters the office, joins a queue through the broker and waits until the *)
(* shared last_finished_ticket reaches its own (user_loop.c); a handler of *)
(* the broker runs each request (broker_handler.c); a worker thread asks   *)
(* for work and serves it (worker_loop.c, worker_job.c).                   *)
(*                                                                         *)
(* A connection is the state of the handler that runs it. A client that    *)
(* gives up closes its end and leaves the handler behind as an orphan. The *)
(* broker's pool is taken to have a thread for every connection.           *)
(***************************************************************************)
EXTENDS Naturals, FiniteSets

CONSTANTS
    Users, Workers, Services,
    Service,        \* the service of each user and worker thread
    Requests,       \* PO_USER_REQUESTS
    Stoppable,      \* the users that the users manager may stop
    MayEnd,         \* may the simulation end?
    WorkerPools,    \* does the worker process call net_init_zerocopy? The one
                    \* in the repository does not
    MaxFaults,      \* failed receives, refused connections, failed allocations
    MaxOrphans      \* handlers whose client has gone, at any one time

ASSUME ServiceAssumption == Service \in [Users \cup Workers -> Services]
ASSUME BoundAssumption ==
    /\ Requests \in Nat /\ MaxFaults \in Nat /\ MaxOrphans \in Nat
    /\ WorkerPools \in BOOLEAN /\ MayEnd \in BOOLEAN
    /\ Stoppable \subseteq Users

VARIABLES
    ticket_seq,         \* shm->ticket_seq
    clock,              \* CLOCK_MONOTONIC, counted in the readings taken
    queue,              \* ctx->queues
    handler,            \* the broker's handler of each connection
    upc, left, ticket,  \* users: position, requests left, ticket held
    cont,               \* users whose should_continue flag is set
    wpc, current,       \* workers: position, ticket being served
    last_finished,      \* q->last_finished_ticket
    open,               \* 8 <= hour < 17
    sim_active,
    faults,
    served              \* history: the tickets a worker has finished

users == <<upc, left, ticket, cont>>
workers == <<wpc, current, last_finished, served>>
control == <<open, sim_active>>
broker == <<ticket_seq, clock, queue>>
vars == <<broker, handler, users, workers, control, faults>>

MaxTickets == Cardinality(Users) * Requests
Tickets == 0..MaxTickets
Clients == Users \cup Workers
Orphans == 1..MaxOrphans

(* ahead is history: the tickets already queued, and not to be overtaken,  *)
(* when the request was sent.                                              *)
Item == [ticket : Tickets, vip : 0..1, arrival : Tickets, ahead : SUBSET Tickets]
Handler ==
    [stage : {"idle", "read", "issued", "stamped", "reply", "sent", "closed"},
     kind : {"join", "work"}, service : Services, vip : 0..1,
     ticket : Tickets, arrival : Tickets, ahead : SUBSET Tickets]

TypeOK ==
    /\ ticket_seq \in Tickets /\ clock \in Tickets
    /\ queue \in [Services -> SUBSET Item]
    /\ handler \in [Clients \cup Orphans -> Handler]
    /\ upc \in [Users -> {"office", "inside", "joining", "waiting", "overtime", "done"}]
    /\ left \in [Users -> 0..Requests]
    /\ ticket \in [Users -> Tickets]
    /\ cont \subseteq Users
    /\ wpc \in [Workers -> {"ready", "asking", "serving"}]
    /\ current \in [Workers -> Tickets]
    /\ last_finished \in [Services -> Tickets]
    /\ open \in BOOLEAN /\ sim_active \in BOOLEAN
    /\ faults \in 0..MaxFaults
    /\ served \subseteq Tickets

Request(kind, s, vip, ahead) ==
    [stage |-> "read", kind |-> kind, service |-> s, vip |-> vip,
     ticket |-> 0, arrival |-> 0, ahead |-> ahead]

Idle == [Request("work", CHOOSE s \in Services : TRUE, 0, {}) EXCEPT !.stage = "idle"]

Init ==
    /\ ticket_seq = 0 /\ clock = 0
    /\ queue = [s \in Services |-> {}]
    /\ handler = [c \in Clients \cup Orphans |-> Idle]
    /\ upc = [u \in Users |-> "office"]
    /\ left = [u \in Users |-> Requests]
    /\ ticket = [u \in Users |-> 0]
    /\ cont = Users
    /\ wpc = [k \in Workers |-> "ready"]
    /\ current = [k \in Workers |-> 0]
    /\ last_finished = [s \in Services |-> 0]
    /\ open = FALSE /\ sim_active = TRUE
    /\ faults = 0
    /\ served = {}

(* One of the failures that the bound MaxFaults counts. *)
Fault ==
    /\ faults < MaxFaults
    /\ faults' = faults + 1

(* The client closes its end; a handler still at work goes on without it. *)
Hangup(c) ==
    IF handler[c].stage \in {"sent", "closed"}
    THEN handler' = [handler EXCEPT ![c] = Idle]
    ELSE \E o \in Orphans :
            /\ handler[o].stage = "idle"
            /\ \A p \in 1..(o - 1) : handler[p].stage # "idle"
            /\ handler' = [handler EXCEPT ![o] = handler[c], ![c] = Idle]

-----------------------------------------------------------------------------
(* Users: run_user_simulation_loop *)

Enter(u) ==
    /\ upc[u] = "office"
    /\ left[u] > 0
    /\ u \in cont
    /\ open
    /\ upc' = [upc EXCEPT ![u] = "inside"]
    /\ UNCHANGED <<broker, handler, left, ticket, cont, workers, control, faults>>

(* The loop ends after the last request, or once the flag is cleared. *)
Leave(u) ==
    /\ upc[u] = "office"
    /\ left[u] = 0 \/ u \notin cont
    /\ upc' = [upc EXCEPT ![u] = "done"]
    /\ UNCHANGED <<broker, handler, left, ticket, cont, workers, control, faults>>

(* Back to the head of the for loop: a failed join is not repeated. *)
NextRequest(u) ==
    /\ upc' = [upc EXCEPT ![u] = "office"]
    /\ left' = [left EXCEPT ![u] = @ - 1]

(* join_queue_broker: connect and send; one user in ten is a VIP. *)
JoinQueue(u) ==
    /\ upc[u] = "inside"
    /\ u \in cont
    /\ \E vip \in 0..1 :
        LET ahead == {i.ticket : i \in {j \in queue[Service[u]] : j.vip >= vip}}
        IN handler' = [handler EXCEPT ![u] = Request("join", Service[u], vip, ahead)]
    /\ upc' = [upc EXCEPT ![u] = "joining"]
    /\ UNCHANGED <<broker, left, ticket, cont, workers, control, faults>>

(* sim_client_connect_issuer finds the flag cleared, or 500 tries failed. *)
NotConnected(u) ==
    /\ upc[u] = "inside"
    /\ IF u \in cont THEN Fault ELSE UNCHANGED faults
    /\ NextRequest(u)
    /\ UNCHANGED <<broker, handler, ticket, cont, workers, control>>

(* No JOIN_ACK within 500 ms, no receive buffer to read it into, or the    *)
(* broker has closed the connection.                                       *)
JoinFails(u) ==
    /\ upc[u] = "joining"
    /\ IF handler[u].stage = "closed" THEN UNCHANGED faults ELSE Fault
    /\ Hangup(u)
    /\ NextRequest(u)
    /\ UNCHANGED <<broker, ticket, cont, workers, control>>

Joined(u) ==
    /\ upc[u] = "joining"
    /\ handler[u].stage = "sent"
    /\ ticket' = [ticket EXCEPT ![u] = handler[u].ticket]
    /\ handler' = [handler EXCEPT ![u] = Idle]
    /\ upc' = [upc EXCEPT ![u] = "waiting"]
    /\ UNCHANGED <<broker, left, cont, workers, control, faults>>

Waiting(u) == upc[u] \in {"waiting", "overtime"}

(* wait_service, done = true *)
Finished(u) ==
    /\ Waiting(u)
    /\ u \in cont
    /\ sim_active
    /\ last_finished[Service[u]] >= ticket[u]
    /\ NextRequest(u)
    /\ UNCHANGED <<broker, handler, ticket, cont, workers, control, faults>>

(* wait_service after 17:00. q->tickets[] is never written, so removing    *)
(* the ticket by compare-exchange always fails and the user waits on.      *)
KeepWaiting(u) ==
    /\ upc[u] = "waiting"
    /\ u \in cont
    /\ sim_active
    /\ ~open
    /\ last_finished[Service[u]] < ticket[u]
    /\ upc' = [upc EXCEPT ![u] = "overtime"]
    /\ UNCHANGED <<broker, handler, left, ticket, cont, workers, control, faults>>

(* Mutant: the flag is not tested while waiting. *)
InterruptedOnlyByEnd(u) ==
    /\ Waiting(u)
    /\ ~sim_active
    /\ NextRequest(u)
    /\ UNCHANGED <<broker, handler, ticket, cont, workers, control, faults>>

(* wait_service, done = false *)
Interrupted(u) ==
    /\ Waiting(u)
    /\ u \notin cont \/ ~sim_active
    /\ NextRequest(u)
    /\ UNCHANGED <<broker, handler, ticket, cont, workers, control, faults>>

-----------------------------------------------------------------------------
(* The broker: broker_handler_process_request, one step per shared access  *)

(* The handler cannot read the request (a failed receive, no receive       *)
(* buffer): it closes the connection without an answer.                    *)
RecvFails(h) ==
    /\ handler[h].stage = "read"
    /\ Fault
    /\ handler' = IF h \in Orphans THEN [handler EXCEPT ![h] = Idle]
                  ELSE [handler EXCEPT ![h].stage = "closed"]
    /\ UNCHANGED <<broker, users, workers, control>>

JoinStage(h, stage) == handler[h].kind = "join" /\ handler[h].stage = stage

IssueTicket(h) ==
    /\ JoinStage(h, "read")
    /\ handler' = [handler EXCEPT ![h].ticket = ticket_seq, ![h].stage = "issued"]
    /\ ticket_seq' = ticket_seq + 1
    /\ UNCHANGED <<clock, queue, users, workers, control, faults>>

StampArrival(h) ==
    /\ JoinStage(h, "issued")
    /\ handler' = [handler EXCEPT ![h].arrival = clock, ![h].stage = "stamped"]
    /\ clock' = clock + 1
    /\ UNCHANGED <<ticket_seq, queue, users, workers, control, faults>>

Push(h) ==
    LET r == handler[h] IN
    /\ JoinStage(h, "stamped")
    /\ queue' = [queue EXCEPT ![r.service] = @ \cup
            {[ticket |-> r.ticket, vip |-> r.vip, arrival |-> r.arrival, ahead |-> r.ahead]}]
    /\ handler' = [handler EXCEPT ![h].stage = "reply"]
    /\ UNCHANGED <<ticket_seq, clock, users, workers, control, faults>>

(* malloc or po_priority_queue_push fails: acknowledged all the same. *)
PushFails(h) ==
    /\ JoinStage(h, "stamped")
    /\ Fault
    /\ handler' = [handler EXCEPT ![h].stage = "reply"]
    /\ UNCHANGED <<broker, users, workers, control>>

(* Mutant: the later arrival first. *)
LatestFirst(a, b) ==
    IF a.vip # b.vip THEN a.vip > b.vip ELSE a.arrival > b.arrival

item_compare(a, b) ==
    IF a.vip # b.vip THEN a.vip > b.vip ELSE a.arrival < b.arrival

(* Mutant: the item is answered but left in the queue. *)
PopKeeps(h) ==
    LET q == queue[handler[h].service] IN
    /\ handler[h].kind = "work" /\ handler[h].stage = "read"
    /\ \/ /\ q = {}
          /\ handler' = [handler EXCEPT ![h].stage = "reply"]
          /\ UNCHANGED queue
       \/ \E i \in q :
          /\ \A j \in q \ {i} : item_compare(i, j)
          /\ handler' = [handler EXCEPT ![h].ticket = i.ticket, ![h].stage = "reply"]
          /\ UNCHANGED queue
    /\ UNCHANGED <<ticket_seq, clock, users, workers, control, faults>>

(* The answer 0 stands for `no work'. *)
Pop(h) ==
    LET q == queue[handler[h].service] IN
    /\ handler[h].kind = "work" /\ handler[h].stage = "read"
    /\ \/ /\ q = {}
          /\ handler' = [handler EXCEPT ![h].stage = "reply"]
          /\ UNCHANGED queue
       \/ \E i \in q :
          /\ \A j \in q \ {i} : item_compare(i, j)
          /\ handler' = [handler EXCEPT ![h].ticket = i.ticket, ![h].stage = "reply"]
          /\ queue' = [queue EXCEPT ![handler[h].service] = @ \ {i}]
    /\ UNCHANGED <<ticket_seq, clock, users, workers, control, faults>>

(* net_send_message's result is ignored: an orphan's answer is lost. *)
Reply(h) ==
    /\ handler[h].stage = "reply"
    /\ handler' = IF h \in Orphans THEN [handler EXCEPT ![h] = Idle]
                  ELSE [handler EXCEPT ![h].stage = "sent"]
    /\ UNCHANGED <<broker, users, workers, control, faults>>

-----------------------------------------------------------------------------
(* Workers: the service loop of run_worker_service_loop *)


(* retrieve_next_ticket_broker, up to the send *)
GetWork(k) ==
    /\ wpc[k] = "ready"
    /\ sim_active
    /\ handler' = [handler EXCEPT ![k] = Request("work", Service[k], 0, {})]
    /\ wpc' = [wpc EXCEPT ![k] = "asking"]
    /\ UNCHANGED <<broker, users, current, last_finished, served, control, faults>>

(* The receive times out, or the broker has closed the connection. Without *)
(* pools it fails at once, every time: net_zcp_acquire_rx finds no         *)
(* g_rx_pool.                                                              *)
NoAnswer(k) ==
    /\ wpc[k] = "asking"
    /\ IF WorkerPools /\ handler[k].stage # "closed" THEN Fault ELSE UNCHANGED faults
    /\ Hangup(k)
    /\ wpc' = [wpc EXCEPT ![k] = "ready"]
    /\ UNCHANGED <<broker, users, current, last_finished, served, control>>

(* Mutant: tickets are numbered from 1, so 1 is taken for `no work'. *)
GotAnswerAboveOne(k) ==
    /\ wpc[k] = "asking"
    /\ WorkerPools
    /\ handler[k].stage = "sent"
    /\ IF handler[k].ticket > 1
       THEN /\ current' = [current EXCEPT ![k] = handler[k].ticket]
            /\ wpc' = [wpc EXCEPT ![k] = "serving"]
       ELSE /\ wpc' = [wpc EXCEPT ![k] = "ready"]
            /\ UNCHANGED current
    /\ handler' = [handler EXCEPT ![k] = Idle]
    /\ UNCHANGED <<broker, users, last_finished, served, control, faults>>

GotAnswer(k) ==
    /\ wpc[k] = "asking"
    /\ WorkerPools
    /\ handler[k].stage = "sent"
    /\ IF handler[k].ticket > 0
       THEN /\ current' = [current EXCEPT ![k] = handler[k].ticket]
            /\ wpc' = [wpc EXCEPT ![k] = "serving"]
       ELSE /\ wpc' = [wpc EXCEPT ![k] = "ready"]
            /\ UNCHANGED current
    /\ handler' = [handler EXCEPT ![k] = Idle]
    /\ UNCHANGED <<broker, users, last_finished, served, control, faults>>

(* worker_job_simulate, at its end: at the end of the job or cut short at  *)
(* 17:00, the ticket counts as finished.                                   *)
FinishJob(k) ==
    /\ wpc[k] = "serving"
    /\ last_finished' = [last_finished EXCEPT ![Service[k]] = current[k]]
    /\ served' = served \cup {current[k]}
    /\ current' = [current EXCEPT ![k] = 0]
    /\ wpc' = [wpc EXCEPT ![k] = "ready"]
    /\ UNCHANGED <<broker, handler, users, control, faults>>

-----------------------------------------------------------------------------
(* The clock, the end of the simulation and the users manager *)

OfficeHours ==
    /\ sim_active
    /\ open' = ~open
    /\ UNCHANGED <<broker, handler, users, workers, sim_active, faults>>

EndSimulation ==
    /\ MayEnd
    /\ sim_active
    /\ sim_active' = FALSE
    /\ UNCHANGED <<broker, handler, users, workers, open, faults>>

StopUser(u) ==
    /\ u \in cont \cap Stoppable
    /\ cont' = cont \ {u}
    /\ UNCHANGED <<broker, handler, upc, left, ticket, workers, control, faults>>

UserStep(u) ==
    \/ Enter(u) \/ Leave(u) \/ JoinQueue(u) \/ NotConnected(u) \/ JoinFails(u)
    \/ Joined(u) \/ Finished(u) \/ KeepWaiting(u) \/ Interrupted(u)

HandlerStep(h) ==
    \/ RecvFails(h) \/ IssueTicket(h) \/ StampArrival(h) \/ Push(h) \/ PushFails(h)
    \/ Pop(h) \/ Reply(h)

WorkerStep(k) == GetWork(k) \/ NoAnswer(k) \/ GotAnswer(k) \/ FinishJob(k)

Next ==
    \/ \E u \in Users : UserStep(u) \/ StopUser(u)
    \/ \E h \in Clients \cup Orphans : HandlerStep(h)
    \/ \E k \in Workers : WorkerStep(k)
    \/ OfficeHours
    \/ EndSimulation

Spec == Init /\ [][Next]_vars

(* Threads are scheduled; nobody has to open the office, stop a user or    *)
(* end the simulation.                                                     *)
Fairness ==
    /\ \A u \in Users : WF_vars(UserStep(u))
    /\ \A h \in Clients \cup Orphans : WF_vars(HandlerStep(h))
    /\ \A k \in Workers : WF_vars(WorkerStep(k))

FairSpec == Spec /\ Fairness

-----------------------------------------------------------------------------
(* Properties *)

Queued == {i.ticket : i \in UNION {queue[s] : s \in Services}}
Entering ==
    {handler[h].ticket : h \in {c \in Clients \cup Orphans :
        JoinStage(c, "issued") \/ JoinStage(c, "stamped")}}
Leaving ==
    {handler[h].ticket : h \in {c \in Clients \cup Orphans :
        handler[c].kind = "work" /\ handler[c].stage \in {"reply", "sent"}}}
Serving == {current[k] : k \in {c \in Workers : wpc[c] = "serving"}}

(***************************************************************************)
(* A ticket is never in two hands: the users that wait hold different      *)
(* numbers, and a ticket is entering the queue, queued, on its way to a    *)
(* worker, being served by one worker, or served. Ticket 0 is left out: on *)
(* the wire it also means `no work'.                                       *)
(***************************************************************************)
TicketOnce ==
    LET Places == <<Entering, Queued, Leaving \ {0}, Serving, served>> IN
    /\ \A u, v \in Users : (u # v /\ Waiting(u) /\ Waiting(v)) => ticket[u] # ticket[v]
    /\ \A i, j \in 1..5 : i # j => Places[i] \cap Places[j] = {}
    /\ \A j, k \in Workers :
        (j # k /\ wpc[j] = "serving" /\ wpc[k] = "serving") => current[j] # current[k]

Lost == (0..(ticket_seq - 1)) \ (Entering \cup Queued \cup Leaving \cup Serving \cup served)

(***************************************************************************)
(* `Consumes jobs / tickets issued by the ticket issuer': a ticket other   *)
(* than 0 that was issued is still on its way or was served, but for one   *)
(* ticket per failure. So with a worker that has receive buffers           *)
(* (WorkerPools); the worker as it is loses every ticket it asks for.      *)
(***************************************************************************)
LossesAccounted == Cardinality(Lost \ {0}) <= faults

(***************************************************************************)
(* A worker is never given a ticket while a VIP waits and it is not one,   *)
(* or while a ticket waits that was in the queue, with at least the same   *)
(* priority, before the request for the given one was even sent.           *)
(***************************************************************************)
Turn ==
    \A s \in Services :
        \A b \in queue[s] \ queue'[s] : \A a \in queue[s] \cap queue'[s] :
            a.vip <= b.vip /\ a.ticket \notin b.ahead
ServedInTurn == [][Turn]_vars


(***************************************************************************)
(* A user told to stop leaves, whether or not anybody serves it.           *)
(***************************************************************************)
StoppedUserLeaves == \A u \in Users : (u \notin cont) ~> (upc[u] = "done")

(***************************************************************************)
(* `Persistent record of completion': last_finished_ticket tells a waiting *)
(* user whether its ticket has been served.                                *)
(***************************************************************************)
CompletionIsRecorded ==
    \A u \in Users :
        Waiting(u) => (last_finished[Service[u]] >= ticket[u] <=> ticket[u] \in served)
=============================================================================
