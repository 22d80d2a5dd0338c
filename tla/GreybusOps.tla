---------------------------- MODULE GreybusOps ----------------------------
(***************************************************************************)
(* Outgoing and incoming operations of one Greybus cport                   *)
(* (drivers/greybus/greybus-core.c): the tasks that send requests and wait *)
(* for the answers, the cport's worker task, the unipro receive interrupt, *)
(* and the watchdog that expires requests nobody answered.                 *)
(*                                                                         *)
(* One CPU, preempted anywhere interrupts are enabled.  A section between  *)
(* irq_disable (or spinlock_lock, the same thing) and irq_enable is one    *)
(* step, and so is an interrupt handler; the worker walks tx_fifo with     *)
(* interrupts enabled, so every pointer it follows is a step of its own.   *)
(* A semaphore is its count: Scheduler.tla is about how it blocks.         *)
(*                                                                         *)
(* An operation is a slab object: its memory outlives mcache_free and a    *)
(* dangling pointer still reads it, whoever owns it by then.               *)
(***************************************************************************)
EXTENDS TaskLists, FiniteSets

CONSTANTS
    Clients,        \* the tasks that send requests
    SyncClients,    \* those that use gb_operation_send_request_sync
    Ops,            \* the objects op_slab can supply
    FirstFit,       \* nobody but this cport takes objects from op_slab
    End,            \* the list_head of tx_fifo, where a walk of it ends
    Timeout,        \* cport->timedout_operation
    None,
    IdSpace,        \* operation ids are taken modulo IdSpace (2^16 in C)
    StartIds,       \* what earlier requests may have left in request_id
    MaxSends,       \* bound: requests sent by the clients
    MaxRequests,    \* bound: requests received
    Connectivity    \* the possible initial values of cport->is_connected

ASSUME GreybusAssumption ==
    /\ IsFiniteSet(Clients) /\ SyncClients \subseteq Clients
    /\ End \notin Ops /\ Timeout \notin Ops /\ None \notin Ops
    /\ End # Timeout /\ End # None /\ Timeout # None
    /\ IdSpace \in Nat /\ IdSpace > 1
    /\ StartIds \subseteq Nat
    /\ MaxSends \in Nat /\ MaxRequests \in Nat
    /\ Connectivity \subseteq BOOLEAN /\ FirstFit \in BOOLEAN

VARIABLES
    ref,        \* operation->ref_count; 0 for an object back in op_slab
    id,         \* the id in the header of operation->request_buffer
    ser,        \* ghost: the number of the request an operation is
    draw,       \* ghost: the value of request_id its id was taken from
    kind,       \* type of a received operation, callback of one to be sent
    response,   \* operation->response
    sync_sem,   \* count of operation->sync_sem
    fires,      \* watchdog expirations since operation->time, up to 3
    tx_fifo, rx_fifo, rx_sem,   \* of the cport
    wd,         \* the watchdog is active
    request_id, \* the count ids are drawn from, wider than an id
    sends, requests,
    wire,       \* requests the peer has and may yet answer
    connected,  \* cport->is_connected
    paused,     \* the cport's flow of received data is stopped
    asserted,   \* RET_IF_FAIL found a reference count of zero
    pc, cop,    \* each client's place and operation
    w, wop,     \* the worker's place and the operation it took from rx_fifo
    it, nx,     \* iter and niter of its walk of tx_fifo
    calls       \* ghost: callbacks made for each request

opvars == <<ref, id, ser, draw, kind, response, sync_sem, fires>>
fifos == <<tx_fifo, rx_fifo, rx_sem, wd>>
link == <<wire, connected, paused>>
client == <<request_id, sends, pc, cop>>
worker == <<w, wop, it, nx>>
vars == <<opvars, fifos, link, client, worker, requests, asserted, calls>>

ClientPcs == {"idle", "prepare", "queue", "send", "failed", "wait", "destroy"}
WorkerPcs == {"down", "take", "first", "next", "test", "del", "attach",
              "call", "unref", "advance", "update", "request", "free"}

TypeOK ==
    /\ ref \in [Ops -> Nat]
    /\ id \in [Ops -> 0..IdSpace - 1]
    /\ ser \in [Ops -> 0..MaxSends] /\ draw \in [Ops -> Nat]
    /\ kind \in [Ops -> {"request", "response", "sync", "async"}]
    /\ response \in [Ops -> Ops \cup {None}]
    /\ sync_sem \in [Ops -> Nat]
    /\ fires \in [Ops -> 0..3]
    /\ tx_fifo \in Seq(Ops) /\ rx_fifo \in Seq(Ops \cup {Timeout})
    /\ rx_sem \in Nat
    /\ wd \in BOOLEAN /\ connected \in BOOLEAN
    /\ paused \in BOOLEAN /\ asserted \in BOOLEAN
    /\ request_id \in Nat
    /\ sends \in 0..MaxSends /\ requests \in 0..MaxRequests
    /\ wire \subseteq (0..IdSpace - 1) \X Nat
    /\ pc \in [Clients -> ClientPcs]
    /\ cop \in [Clients -> Ops \cup {None}]
    /\ w \in WorkerPcs
    /\ wop \in Ops \cup {Timeout, None}
    /\ it \in Ops \cup {End} /\ nx \in Ops \cup {End}
    /\ calls \in [0..MaxSends -> Nat]

-----------------------------------------------------------------------------
(* Helpers *)

\* node->next: tx_fifo is a ring through its list_head, and list_del leaves
\* a node linked to itself.
NextNode(o) ==
    LET ring == <<End>> \o tx_fifo
        i == IndexOf(ring, o)
    IN IF o \notin Range(ring) THEN o
       ELSE IF i = Len(ring) THEN End ELSE ring[i + 1]

\* gb_watchdog_update: cancel the watchdog or start it afresh.
gb_watchdog_update(f) == wd' = (f # <<>>)

(* gb_operation_unref: the last reference also drops the response's.       *)
(* op->response of a response is never set, so the recursion ends there.   *)
gb_operation_unref(o) ==
    LET r == response[o]
        last == ref[o] = 1 /\ r # None
    IN /\ asserted' = (ref[o] = 0 \/ (last /\ ref[r] = 0))
       /\ ref' = [p \in Ops |->
            IF p = o \/ (last /\ p = r)
            THEN IF ref[p] = 0 THEN 0 ELSE ref[p] - 1
            ELSE ref[p]]
       /\ response' = IF last THEN [response EXCEPT ![o] = None] ELSE response

\* The objects op_slab holds.
Free == {o \in Ops : ref[o] = 0}

(* gb_operation_create's mcache_alloc: the first free object, which is any *)
(* when other cports take and return theirs.                               *)
Supply == IF FirstFit /\ Free # {} THEN {CHOOSE o \in Free : TRUE} ELSE Free

-----------------------------------------------------------------------------
(* Clients *)

\* gb_operation_create; no object makes the client give up.
Create(c) ==
    /\ pc[c] = "idle" /\ sends < MaxSends
    /\ sends' = sends + 1
    /\ \E o \in Supply :
         /\ ref' = [ref EXCEPT ![o] = 1]
         /\ ser' = [ser EXCEPT ![o] = sends + 1]
         /\ kind' = [kind EXCEPT ![o] = IF c \in SyncClients THEN "sync"
                                        ELSE "async"]
         /\ cop' = [cop EXCEPT ![c] = o]
         /\ sync_sem' = [sync_sem EXCEPT ![o] = IF c \in SyncClients THEN 0
                                                ELSE @]
    /\ pc' = [pc EXCEPT ![c] = "prepare"]
    /\ UNCHANGED <<id, draw, response, fires, fifos, link, request_id, worker,
                   requests, asserted, calls>>

\* Mutation: tx_fifo takes no reference to the operation it links.
PrepareNoRef(c) ==
    LET n == (request_id + 1) % IdSpace
        o == cop[c]
    IN /\ pc[c] = "prepare"
       /\ request_id' = request_id + 1
       /\ id' = [id EXCEPT ![o] = n]
       /\ draw' = [draw EXCEPT ![o] = request_id + 1]
       /\ IF n = 0
          THEN UNCHANGED <<pc, fires>>
          ELSE /\ pc' = [pc EXCEPT ![c] = "queue"]
               /\ fires' = [fires EXCEPT ![o] = 0]
       /\ UNCHANGED <<ref, ser, kind, response, sync_sem, fifos, link, sends,
                      cop, worker, requests, asserted, calls>>

\* Draw an id, and another if it is 0; note the time and take a reference.
Prepare(c) ==
    LET n == (request_id + 1) % IdSpace
        o == cop[c]
    IN /\ pc[c] = "prepare"
       /\ request_id' = request_id + 1
       /\ id' = [id EXCEPT ![o] = n]
       /\ draw' = [draw EXCEPT ![o] = request_id + 1]
       /\ IF n = 0
          THEN UNCHANGED <<pc, ref, fires>>
          ELSE /\ pc' = [pc EXCEPT ![c] = "queue"]
               /\ ref' = [ref EXCEPT ![o] = @ + 1]
               /\ fires' = [fires EXCEPT ![o] = 0]
       /\ UNCHANGED <<ser, kind, response, sync_sem, fifos, link, sends, cop,
                      worker, requests, asserted, calls>>

\* The section under tx_fifo_lock, which starts a watchdog that is not active.
Queue(c) ==
    /\ pc[c] = "queue"
    /\ tx_fifo' = Append(tx_fifo, cop[c])
    /\ wd' = TRUE
    /\ pc' = [pc EXCEPT ![c] = "send"]
    /\ UNCHANGED <<opvars, rx_fifo, rx_sem, link, request_id, sends, cop,
                   worker, requests, asserted, calls>>

\* unipro_send: the peer has the request, or the cport is not connected.
Send(c) ==
    /\ pc[c] = "send"
    /\ IF connected
       THEN /\ wire' = wire \cup {<<id[cop[c]], draw[cop[c]]>>}
            /\ pc' = [pc EXCEPT ![c] = IF c \in SyncClients THEN "wait"
                                       ELSE "destroy"]
       ELSE /\ pc' = [pc EXCEPT ![c] = "failed"]
            /\ UNCHANGED wire
    /\ UNCHANGED <<opvars, fifos, connected, paused, request_id, sends, cop,
                   worker, requests, asserted, calls>>

\* The section under tx_fifo_lock that undoes a request that was not sent.
SendFailed(c) ==
    /\ pc[c] = "failed"
    /\ tx_fifo' = Unlink(tx_fifo, cop[c])
    /\ gb_watchdog_update(tx_fifo')
    /\ gb_operation_unref(cop[c])
    /\ pc' = [pc EXCEPT ![c] = "destroy"]
    /\ UNCHANGED <<id, ser, draw, kind, sync_sem, fires, rx_fifo, rx_sem, link,
                   request_id, sends, cop, worker, requests, calls>>

\* semaphore_lock(&operation->sync_sem)
Wait(c) ==
    /\ pc[c] = "wait" /\ sync_sem[cop[c]] > 0
    /\ sync_sem' = [sync_sem EXCEPT ![cop[c]] = @ - 1]
    /\ pc' = [pc EXCEPT ![c] = "destroy"]
    /\ UNCHANGED <<ref, id, ser, draw, kind, response, fires, fifos, link,
                   request_id, sends, cop, worker, requests, asserted, calls>>

\* gb_operation_destroy by the client that created the operation
Destroy(c) ==
    /\ pc[c] = "destroy"
    /\ gb_operation_unref(cop[c])
    /\ pc' = [pc EXCEPT ![c] = "idle"]
    /\ cop' = [cop EXCEPT ![c] = None]
    /\ UNCHANGED <<id, ser, draw, kind, sync_sem, fires, fifos, link, request_id,
                   sends, worker, requests, calls>>

-----------------------------------------------------------------------------
(* Interrupts *)

(* greybus_rx_handler: queue a new operation for the worker and restart    *)
(* the flow, or, when there is no object for it, do neither.               *)
Receive(k, n, d) ==
    /\ connected /\ ~paused
    /\ IF Free = {}
       THEN /\ paused' = TRUE
            /\ UNCHANGED <<ref, id, draw, kind, rx_fifo, rx_sem>>
       ELSE /\ \E o \in Supply :
                 /\ ref' = [ref EXCEPT ![o] = 1]
                 /\ id' = [id EXCEPT ![o] = n]
                 /\ draw' = [draw EXCEPT ![o] = d]
                 /\ kind' = [kind EXCEPT ![o] = k]
                 /\ rx_fifo' = Append(rx_fifo, o)
            /\ rx_sem' = rx_sem + 1
            /\ UNCHANGED paused
    /\ UNCHANGED <<ser, response, sync_sem, fires, tx_fifo, wd, connected,
                   client, worker, asserted, calls>>

\* A response that never comes is a member of wire never chosen here.
RxResponse ==
    /\ \E m \in wire : Receive("response", m[1], m[2]) /\ wire' = wire \ {m}
    /\ UNCHANGED requests

RxRequest ==
    /\ requests < MaxRequests
    /\ requests' = requests + 1
    /\ Receive("request", 0, 0)
    /\ UNCHANGED wire

\* Mutation: queues timedout_operation again while it is still queued.
TimeoutRequeues ==
    /\ wd
    /\ wd' = FALSE
    /\ fires' = [o \in Ops |-> IF fires[o] < 3 THEN fires[o] + 1 ELSE 3]
    /\ rx_fifo' = Append(rx_fifo, Timeout)
    /\ rx_sem' = rx_sem + 1
    /\ UNCHANGED <<ref, id, ser, draw, kind, response, sync_sem, tx_fifo, link,
                   client, worker, requests, asserted, calls>>

\* watchdog_check_expired, then gb_operation_timeout, both from SysTick
gb_operation_timeout ==
    /\ wd
    /\ wd' = FALSE
    /\ fires' = [o \in Ops |-> IF fires[o] < 3 THEN fires[o] + 1 ELSE 3]
    /\ IF Timeout \in Range(rx_fifo)
       THEN UNCHANGED <<rx_fifo, rx_sem>>
       ELSE /\ rx_fifo' = Append(rx_fifo, Timeout)
            /\ rx_sem' = rx_sem + 1
    /\ UNCHANGED <<ref, id, ser, draw, kind, response, sync_sem, tx_fifo, link,
                   client, worker, requests, asserted, calls>>

\* configure_connected_cport, from the unipro mailbox interrupt
Connect ==
    /\ ~connected
    /\ connected' = TRUE /\ paused' = FALSE
    /\ UNCHANGED <<opvars, fifos, wire, client, worker, requests, asserted,
                   calls>>

-----------------------------------------------------------------------------
(* The worker, gb_pending_message_worker *)

Goto(l) == w' = l

\* Mutation: goes on whether or not the semaphore has been released.
DownUnguarded ==
    /\ w = "down"
    /\ rx_sem' = rx_sem - 1
    /\ Goto("take")
    /\ UNCHANGED <<opvars, tx_fifo, rx_fifo, wd, link, client, wop, it, nx,
                   requests, asserted, calls>>

\* semaphore_lock(&cport->rx_fifo_semaphore)
Down ==
    /\ w = "down" /\ rx_sem > 0
    /\ rx_sem' = rx_sem - 1
    /\ Goto("take")
    /\ UNCHANGED <<opvars, tx_fifo, rx_fifo, wd, link, client, wop, it, nx,
                   requests, asserted, calls>>

\* The head of rx_fifo decides what the worker does with it.
Take ==
    /\ w = "take"
    /\ wop' = Head(rx_fifo)
    /\ rx_fifo' = Tail(rx_fifo)
    /\ Goto(IF wop' = Timeout \/ kind[wop'] = "response" THEN "first"
            ELSE "request")
    /\ UNCHANGED <<opvars, tx_fifo, rx_sem, wd, link, client, it, nx,
                   requests, asserted, calls>>

\* gb_process_request: the handler and its response leave this state alone.
ProcessRequest ==
    /\ w = "request"
    /\ Goto("free")
    /\ UNCHANGED <<opvars, fifos, link, client, wop, it, nx, requests,
                   asserted, calls>>

(* list_foreach_safe, of gb_clean_timedout_operation when wop is Timeout   *)
(* and of gb_process_response otherwise.                                   *)
First ==
    /\ w = "first"
    /\ it' = NextNode(End)
    /\ Goto("next")
    /\ UNCHANGED <<opvars, fifos, link, client, wop, nx, requests, asserted,
                   calls>>

ReadNext ==
    /\ w = "next"
    /\ nx' = NextNode(it)
    /\ Goto("test")
    /\ UNCHANGED <<opvars, fifos, link, client, wop, it, requests, asserted,
                   calls>>

\* Mutation: the plain list_foreach, which reads the node it has unlinked.
AdvanceFromIter ==
    /\ w = "advance"
    /\ it' = NextNode(it)
    /\ Goto("next")
    /\ UNCHANGED <<opvars, fifos, link, client, wop, nx, requests, asserted,
                   calls>>

Advance ==
    /\ w = "advance"
    /\ it' = nx
    /\ Goto("next")
    /\ UNCHANGED <<opvars, fifos, link, client, wop, nx, requests, asserted,
                   calls>>

(* gb_operation_has_timedout.  The worker may look arbitrarily late, so    *)
(* any operation may have timed out.  The second expiration since          *)
(* operation->time is of a watchdog started later than it, but may fall on *)
(* the very tick the comparison > still refuses; the third one is late.    *)
has_timedout(o) == IF fires[o] = 3 THEN {TRUE} ELSE BOOLEAN

\* Mutation: answers are taken to come in the order of the requests.
TestInOrder ==
    /\ w = "test"
    /\ IF it = End
       THEN Goto(IF wop = Timeout THEN "update" ELSE "free")
       ELSE \E m \in IF wop = Timeout THEN has_timedout(it) ELSE {TRUE} :
              Goto(IF m THEN "del" ELSE "advance")
    /\ UNCHANGED <<opvars, fifos, link, client, wop, it, nx, requests,
                   asserted, calls>>

Test ==
    /\ w = "test"
    /\ IF it = End
       THEN Goto(IF wop = Timeout THEN "update" ELSE "free")
       ELSE \E m \in IF wop = Timeout THEN has_timedout(it)
                     ELSE {id[it] = id[wop]} :
              Goto(IF m THEN "del" ELSE "advance")
    /\ UNCHANGED <<opvars, fifos, link, client, wop, it, nx, requests,
                   asserted, calls>>

\* Mutation: leaves the timed out operation on tx_fifo.
CleanKeeps ==
    /\ w = "del" /\ wop = Timeout
    /\ Goto("call")
    /\ UNCHANGED <<opvars, fifos, link, client, wop, it, nx, requests,
                   asserted, calls>>

\* gb_clean_timedout_operation takes a timed out operation off tx_fifo.
CleanDel ==
    /\ w = "del" /\ wop = Timeout
    /\ tx_fifo' = Unlink(tx_fifo, it)
    /\ Goto("call")
    /\ UNCHANGED <<opvars, rx_fifo, rx_sem, wd, link, client, wop, it, nx,
                   requests, asserted, calls>>

\* gb_process_response does so for an answered one, and sees to the watchdog.
ResponseDel ==
    /\ w = "del" /\ wop # Timeout
    /\ tx_fifo' = Unlink(tx_fifo, it)
    /\ gb_watchdog_update(tx_fifo')
    /\ Goto("attach")
    /\ UNCHANGED <<opvars, rx_fifo, rx_sem, link, client, wop, it, nx,
                   requests, asserted, calls>>

\* Mutation: attaches the response without a reference to it.
AttachNoRef ==
    /\ w = "attach"
    /\ response' = [response EXCEPT ![it] = wop]
    /\ Goto("call")
    /\ UNCHANGED <<ref, id, ser, draw, kind, sync_sem, fires, fifos, link, client,
                   wop, it, nx, requests, asserted, calls>>

\* gb_operation_ref(operation); op->response = operation
Attach ==
    /\ w = "attach"
    /\ asserted' = (ref[wop] = 0)
    /\ ref' = [ref EXCEPT ![wop] = IF @ = 0 THEN 0 ELSE @ + 1]
    /\ response' = [response EXCEPT ![it] = wop]
    /\ Goto("call")
    /\ UNCHANGED <<id, ser, draw, kind, sync_sem, fires, fifos, link, client, wop,
                   it, nx, requests, calls>>

\* op->callback(op): gb_operation_callback_sync, or a client's own.
Callback ==
    /\ w = "call"
    /\ calls' = [calls EXCEPT ![ser[it]] = @ + 1]
    /\ sync_sem' = [sync_sem EXCEPT ![it] = IF kind[it] = "sync" THEN @ + 1
                                            ELSE @]
    /\ Goto("unref")
    /\ UNCHANGED <<ref, id, ser, draw, kind, response, fires, fifos, link, client,
                   wop, it, nx, requests, asserted>>

\* Mutation: only an answered operation gives its reference up.
UnrefAnswered ==
    /\ w = "unref"
    /\ IF wop = Timeout THEN UNCHANGED <<ref, response, asserted>>
       ELSE gb_operation_unref(it)
    /\ Goto(IF wop = Timeout THEN "advance" ELSE "free")
    /\ UNCHANGED <<id, ser, draw, kind, sync_sem, fires, fifos, link, client, wop,
                   it, nx, requests, calls>>

\* gb_operation_unref(op), after which only the cleaning walk goes on.
Unref ==
    /\ w = "unref"
    /\ gb_operation_unref(it)
    /\ Goto(IF wop = Timeout THEN "advance" ELSE "free")
    /\ UNCHANGED <<id, ser, draw, kind, sync_sem, fires, fifos, link, client, wop,
                   it, nx, requests, calls>>

\* Mutation: does not start the watchdog again for what did not time out.
UpdateNothing ==
    /\ w = "update"
    /\ wop' = None
    /\ Goto("down")
    /\ UNCHANGED <<opvars, fifos, link, client, it, nx, requests, asserted,
                   calls>>

\* The gb_watchdog_update that ends gb_clean_timedout_operation
Update ==
    /\ w = "update"
    /\ gb_watchdog_update(tx_fifo)
    /\ wop' = None
    /\ Goto("down")
    /\ UNCHANGED <<opvars, tx_fifo, rx_fifo, rx_sem, link, client, it, nx,
                   requests, asserted, calls>>

\* gb_operation_destroy of the operation taken from rx_fifo
FreeReceived ==
    /\ w = "free"
    /\ gb_operation_unref(wop)
    /\ wop' = None
    /\ Goto("down")
    /\ UNCHANGED <<id, ser, draw, kind, sync_sem, fires, fifos, link, client, it,
                   nx, requests, calls>>

-----------------------------------------------------------------------------

(* A quiescent cport, at any moment of its life: the peer may still answer *)
(* requests that timed out before.                                         *)
Init ==
    /\ ref = [o \in Ops |-> 0] /\ id = [o \in Ops |-> 0]
    /\ ser = [o \in Ops |-> 0] /\ draw = [o \in Ops |-> 0]
    /\ kind = [o \in Ops |-> "request"]
    /\ response = [o \in Ops |-> None]
    /\ sync_sem = [o \in Ops |-> 0] /\ fires = [o \in Ops |-> 0]
    /\ tx_fifo = <<>> /\ rx_fifo = <<>> /\ rx_sem = 0 /\ wd = FALSE
    /\ request_id \in StartIds
    /\ wire \in SUBSET {<<d % IdSpace, d>> :
                        d \in {e \in 1..request_id : e % IdSpace # 0}}
    /\ sends = 0 /\ requests = 0
    /\ connected \in Connectivity
    /\ paused = FALSE /\ asserted = FALSE
    /\ pc = [c \in Clients |-> "idle"] /\ cop = [c \in Clients |-> None]
    /\ w = "down" /\ wop = None /\ it = End /\ nx = End
    /\ calls = [n \in 0..MaxSends |-> 0]

ClientStep(c) ==
    \/ Create(c) \/ Prepare(c) \/ Queue(c) \/ Send(c) \/ SendFailed(c)
    \/ Wait(c) \/ Destroy(c)

WorkerStep ==
    \/ Down \/ Take \/ ProcessRequest \/ First \/ ReadNext \/ Advance \/ Test
    \/ CleanDel \/ ResponseDel \/ Attach \/ Callback \/ Unref \/ Update
    \/ FreeReceived

Interrupt == RxResponse \/ RxRequest \/ gb_operation_timeout \/ Connect

(* A failed RET_IF_FAIL reports misuse and returns: objects then change    *)
(* hands under their owners, and the model goes no further.                *)
Next ==
    /\ ~asserted
    /\ (\E c \in Clients : ClientStep(c)) \/ WorkerStep \/ Interrupt

Spec == Init /\ [][Next]_vars

(* A task that can run is run in the end, but need not send a request, and *)
(* an active watchdog expires: every matched answer restarts it, but there *)
(* are no more than MaxSends of them and what the peer still owed.         *)
(* Nothing is assumed of the peer or of the interrupts that deliver its    *)
(* messages.                                                               *)
Fairness ==
    /\ \A c \in Clients :
         WF_vars(~asserted /\ pc[c] # "idle" /\ ClientStep(c))
    /\ WF_vars(~asserted /\ WorkerStep)
    /\ WF_vars(~asserted /\ gb_operation_timeout)

LiveSpec == Spec /\ Fairness

-----------------------------------------------------------------------------
(* Properties *)

Cleaning == wop = Timeout

(* A request waiting for its answer is covered by the watchdog: it is      *)
(* active, or has expired and the worker has yet to finish looking for     *)
(* what timed out.  The clients start it, the interrupt stops it and the   *)
(* worker restarts it, each under a lock of its own.                       *)
WatchdogCovers == tx_fifo # <<>> => wd \/ Timeout \in Range(rx_fifo) \/ Cleaning

(* The worker unlinks the head of rx_fifo on the word of the semaphore     *)
(* alone: the count always says how many nodes are there for it.  And      *)
(* timedout_operation, which the interrupt may find queued, in the hands   *)
(* of the worker or idle, is linked at most once.                          *)
RxCount ==
    /\ Len(rx_fifo) = rx_sem + (IF w = "take" THEN 1 ELSE 0)
    /\ \A i, j \in DOMAIN rx_fifo :
         rx_fifo[i] = Timeout /\ rx_fifo[j] = Timeout => i = j

(* No node is linked twice on rx_fifo, or on it and tx_fifo at once: an    *)
(* object is not allocated to a received message while a list holds it.    *)
LinkedOnce ==
    /\ IsInjective(rx_fifo) /\ IsInjective(tx_fifo)
    /\ Range(rx_fifo) \cap Range(tx_fifo) = {}

InHand(o) == it = o /\ w \in {"attach", "call", "unref"}

(* An operation's ref_count is the number of those that hold it: the       *)
(* client, tx_fifo or the worker completing it, rx_fifo or the worker      *)
(* processing it, and the request it was attached to.  So no object goes   *)
(* back to op_slab while somebody uses it and none is lost.                *)
RefExact ==
    \A o \in Ops :
        ref[o] = Cardinality({c \in Clients : cop[c] = o})
               + Cardinality({c \in Clients : cop[c] = o /\ pc[c] = "queue"})
               + (IF o \in Range(tx_fifo) \/ InHand(o) THEN 1 ELSE 0)
               + (IF o \in Range(rx_fifo) \/ wop = o THEN 1 ELSE 0)
               + Cardinality({p \in Ops : response[p] = o})

(* The response a client finds attached is the answer to its own request,  *)
(* or to one that drew the same id a whole round of IdSpace draws earlier  *)
(* or later: gb_process_response knows a request by its 16-bit id alone.   *)
(* Objects are used again, and answers come late and out of order.         *)
AnswersMatch ==
    \A o \in Ops : response[o] # None =>
        LET r == response[o]
        IN /\ ref[r] > 0
           /\ \/ draw[r] = draw[o]
              \/ draw[r] >= draw[o] + IdSpace
              \/ draw[o] >= draw[r] + IdSpace

(* The callback of a request is called at most once, by the response or by *)
(* the time-out but not by both, and has been called when the synchronous  *)
(* client that sent it goes on.                                            *)
CompletedOnce ==
    /\ \A n \in 1..MaxSends : calls[n] <= 1
    /\ \A c \in SyncClients :
         pc[c] = "destroy" => calls[ser[cop[c]]] = 1

(* The walk of tx_fifo, without the lock, never stands on an unlinked node *)
(* (which is linked to itself: the walk would not end).                    *)
WalkOnList ==
    /\ w \in {"next", "test", "del"} => it \in Range(tx_fifo) \cup {End}
    /\ w \in {"test", "del", "attach", "call", "unref", "advance"} =>
         nx \in Range(tx_fifo) \cup {End}

(* RET_IF_FAIL(atomic_get(&operation->ref_count) > 0,) of gb_operation_ref *)
(* and gb_operation_unref.                                                 *)
RefAsserted == ~asserted

(* The worker has matched an answer and so restarted the whole delay of    *)
(* the cport's only watchdog.                                              *)
Matched == w = "attach"

(* A client that waits is woken, be it by the time-out, unless an answer   *)
(* is matched first; its wait then begins anew.  So the client of a lost   *)
(* request waits on only for as long as answers to others keep coming.     *)
SyncCompletes ==
    \A c \in SyncClients : pc[c] = "wait" ~> (pc[c] # "wait" \/ Matched)

(* Once the clients are done every object is back in op_slab for good.     *)
Drained == <>[](\A o \in Ops : ref[o] = 0)

=============================================================================
