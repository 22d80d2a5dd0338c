-------------------------- MODULE GreybusProofs --------------------------
(***************************************************************************)
(* Theorems about GreybusOps, for any number of clients, objects, requests *)
(* and ids, with sends that fail or not.                                   *)
(***************************************************************************)
EXTENDS GreybusOps, TaskListsProofs, FiniteSetTheorems

-----------------------------------------------------------------------------
(* The inductive invariant *)

\* A client outside "idle" has the operation it created.
ClientInv == \A c \in Clients : pc[c] # "idle" => cop[c] \in Ops

Walking == {"first", "next", "test", "del", "call", "unref", "advance"}

\* What the worker has in its hands at each place.
WorkerInv ==
    /\ w \in {"down", "take"} => wop = None
    /\ w \in {"attach", "request", "free"} => wop \in Ops
    /\ w = "update" => wop = Timeout
    /\ w \in Walking => wop \in Ops \cup {Timeout}
    /\ w \in {"del", "attach", "call", "unref"} => it \in Ops

RxLen == Len(rx_fifo) = rx_sem + (IF w = "take" THEN 1 ELSE 0)

TypeInv == TypeOK /\ ClientInv /\ WorkerInv /\ RxLen

-----------------------------------------------------------------------------
(* The shared parts of the actions *)

\* gb_operation_unref keeps the types of what it changes.
LEMMA UnrefType ==
    ASSUME TypeOK, NEW o \in Ops, gb_operation_unref(o)
    PROVE  /\ ref' \in [Ops -> Nat]
           /\ response' \in [Ops -> Ops \cup {None}]
           /\ asserted' \in BOOLEAN
  <1> DEFINE last == ref[o] = 1 /\ response[o] # None
             dropped(p) == p = o \/ (last /\ p = response[o])
             less(p) == IF ref[p] = 0 THEN 0 ELSE ref[p] - 1
  <1>1. ref' \in [Ops -> Nat]
    <2>1. ref' = [p \in Ops |-> IF dropped(p) THEN less(p) ELSE ref[p]]
      BY DEF gb_operation_unref
    <2>2. \A p \in Ops : ref[p] \in Nat
      BY DEF TypeOK
    <2>3. \A p \in Ops : less(p) \in Nat
      BY <2>2
    <2> HIDE DEF dropped, less
    <2> QED BY <2>1, <2>2, <2>3
  <1>2. response' \in [Ops -> Ops \cup {None}]
    BY DEF gb_operation_unref, TypeOK
  <1>3. asserted' \in BOOLEAN
    BY DEF gb_operation_unref
  <1> QED BY <1>1, <1>2, <1>3

\* A node of tx_fifo, or its head, is followed by one of them.
LEMMA NextNodeType ==
    ASSUME TypeOK, NEW o \in Ops \cup {End}
    PROVE  NextNode(o) \in Ops \cup {End}
  <1> DEFINE ring == <<End>> \o tx_fifo
             i == IndexOf(ring, o)
  <1>1. ring \in Seq(Ops \cup {End})
    BY GreybusAssumption DEF TypeOK
  <1> HIDE DEF ring
  <1>2. CASE o \in Range(ring)
    <2>1. PICK j \in 1..Len(ring) : ring[j] = o
      BY <1>1, <1>2 DEF Range
    <2>2. i \in 1..Len(ring)
      BY <2>1 DEF IndexOf
    <2> HIDE DEF i
    <2>3. i # Len(ring) => ring[i + 1] \in Ops \cup {End}
      BY <1>1, <2>2
    <2>4. NextNode(o) = IF i = Len(ring) THEN End ELSE ring[i + 1]
      BY <1>2 DEF NextNode, ring, i
    <2> QED BY <2>3, <2>4
  <1>3. CASE o \notin Range(ring)
    BY <1>3 DEF NextNode, ring
  <1> QED BY <1>2, <1>3

\* mcache_alloc returns an object that is free.
LEMMA SupplyFree == Supply \subseteq Free
  BY DEF Supply

\* A new operation is the client's, with a header of its own.
LEMMA CreateType ==
    ASSUME TypeInv, NEW c \in Clients, Create(c)
    PROVE  TypeOK'
  <1>1. ref' \in [Ops -> Nat]
    BY GreybusAssumption, SupplyFree DEF TypeInv, TypeOK, Create, Free
  <1>2. ser' \in [Ops -> 0..MaxSends]
    BY GreybusAssumption, SupplyFree DEF TypeInv, TypeOK, Create, Free
  <1>3. kind' \in [Ops -> {"request", "response", "sync", "async"}]
    BY GreybusAssumption, SupplyFree DEF TypeInv, TypeOK, Create, Free
  <1>4. cop' \in [Clients -> Ops \cup {None}]
    BY GreybusAssumption, SupplyFree DEF TypeInv, TypeOK, Create, Free
  <1>5. sync_sem' \in [Ops -> Nat]
    BY GreybusAssumption, SupplyFree DEF TypeInv, TypeOK, Create, Free
  <1>6. sends' \in 0..MaxSends
    BY GreybusAssumption, SupplyFree DEF TypeInv, TypeOK, Create, Free
  <1>7. pc' \in [Clients -> ClientPcs]
    BY GreybusAssumption, SupplyFree DEF TypeInv, TypeOK, ClientPcs, Create, Free
  <1>8. UNCHANGED <<id, draw, response, fires, tx_fifo, rx_fifo, rx_sem, wd,
                    request_id, requests, wire, connected, paused, asserted,
                    w, wop, it, nx, calls>>
    BY DEF Create, opvars, fifos, link, client, worker
  <1> QED BY <1>1, <1>2, <1>3, <1>4, <1>5, <1>6, <1>7, <1>8 DEF TypeInv, TypeOK

\* An id, whichever of the two draws it comes from.
LEMMA PrepareType ==
    ASSUME TypeInv, NEW c \in Clients, Prepare(c)
    PROVE  TypeOK'
  <1>1. cop[c] \in Ops
    BY DEF TypeInv, ClientInv, Prepare
  <1>2. /\ ref \in [Ops -> Nat] /\ fires \in [Ops -> 0..3]
        /\ pc \in [Clients -> ClientPcs]
    BY DEF TypeInv, TypeOK
  <1>3. \/ UNCHANGED <<pc, ref, fires>>
        \/ /\ pc' = [pc EXCEPT ![c] = "queue"]
           /\ ref' = [ref EXCEPT ![cop[c]] = @ + 1]
           /\ fires' = [fires EXCEPT ![cop[c]] = 0]
    BY DEF Prepare
  <1>4. /\ request_id' \in Nat /\ draw' \in [Ops -> Nat]
        /\ (request_id + 1) % IdSpace \in 0..IdSpace - 1
    <2>1. request_id \in Nat /\ IdSpace \in Nat /\ IdSpace > 1
      BY GreybusAssumption DEF TypeInv, TypeOK
    <2>2. request_id + 1 \in Nat
      BY <2>1
    <2>3. request_id' \in Nat /\ draw' \in [Ops -> Nat]
      BY <1>1, <2>2 DEF TypeInv, TypeOK, Prepare
    <2>4. \A n \in Nat : n % IdSpace \in 0..IdSpace - 1
      BY <2>1
    <2> QED BY <2>2, <2>3, <2>4
  <1>5. id' \in [Ops -> 0..IdSpace - 1]
    BY <1>4 DEF TypeInv, TypeOK, Prepare
  <1>6. pc' \in [Clients -> ClientPcs]
    BY <1>2, <1>3 DEF ClientPcs
  <1>7. ref' \in [Ops -> Nat]
    BY <1>1, <1>2, <1>3
  <1>8. fires' \in [Ops -> 0..3]
    BY <1>1, <1>2, <1>3
  <1>9. UNCHANGED <<ser, kind, response, sync_sem, tx_fifo, rx_fifo, rx_sem,
                    wd, sends, requests, wire, connected, paused, asserted,
                    cop, w, wop, it, nx, calls>>
    BY DEF Prepare, opvars, fifos, link, client, worker
  <1> QED BY <1>4, <1>5, <1>6, <1>7, <1>8, <1>9 DEF TypeInv, TypeOK

\* tx_fifo and the watchdog.
LEMMA QueueType ==
    ASSUME TypeInv, NEW c \in Clients, Queue(c)
    PROVE  TypeOK'
  <1>1. cop[c] \in Ops
    BY DEF TypeInv, ClientInv, Queue
  <1>2. tx_fifo' \in Seq(Ops)
    BY <1>1 DEF TypeInv, TypeOK, Queue
  <1>3. wd' \in BOOLEAN
    BY DEF Queue
  <1>4. pc' \in [Clients -> ClientPcs]
    BY GreybusAssumption DEF TypeInv, TypeOK, ClientPcs, Queue
  <1>5. UNCHANGED <<ref, id, ser, draw, kind, response, sync_sem, fires, rx_fifo,
                    rx_sem, request_id, sends, requests, wire, connected,
                    paused, asserted, cop, w, wop, it, nx, calls>>
    BY DEF Queue, opvars, fifos, link, client, worker
  <1> QED BY <1>2, <1>3, <1>4, <1>5 DEF TypeInv, TypeOK

\* What the peer gets.
LEMMA SendType ==
    ASSUME TypeInv, NEW c \in Clients, Send(c)
    PROVE  TypeOK'
  <1>1. cop[c] \in Ops
    BY DEF TypeInv, ClientInv, Send
  <1>2. id[cop[c]] \in 0..IdSpace - 1 /\ draw[cop[c]] \in Nat
    BY <1>1 DEF TypeInv, TypeOK
  <1>3. wire \subseteq (0..IdSpace - 1) \X Nat
    BY DEF TypeInv, TypeOK
  <1>4. wire' \subseteq (0..IdSpace - 1) \X Nat
    BY <1>2, <1>3 DEF Send
  <1>5. pc' \in [Clients -> ClientPcs]
    BY DEF TypeInv, TypeOK, ClientPcs, Send
  <1>6. UNCHANGED <<ref, id, ser, draw, kind, response, sync_sem, fires, tx_fifo,
                    rx_fifo, rx_sem, wd, request_id, sends, requests,
                    connected, paused, asserted, cop, w, wop, it, nx, calls>>
    BY DEF Send, opvars, fifos, link, client, worker
  <1> QED BY <1>4, <1>5, <1>6 DEF TypeInv, TypeOK

\* A semaphore that is taken was not zero.
LEMMA WaitType ==
    ASSUME TypeInv, NEW c \in Clients, Wait(c)
    PROVE  TypeOK'
  <1>1. cop[c] \in Ops
    BY DEF TypeInv, ClientInv, Wait
  <1>2. sync_sem[cop[c]] - 1 \in Nat
    BY <1>1 DEF TypeInv, TypeOK, Wait
  <1>3. sync_sem' \in [Ops -> Nat]
    BY <1>2 DEF TypeInv, TypeOK, Wait
  <1>4. pc' \in [Clients -> ClientPcs]
    BY GreybusAssumption DEF TypeInv, TypeOK, ClientPcs, Wait
  <1>5. UNCHANGED <<ref, id, ser, draw, kind, response, fires, tx_fifo, rx_fifo,
                    rx_sem, wd, request_id, sends, requests, wire, connected,
                    paused, asserted, cop, w, wop, it, nx, calls>>
    BY DEF Wait, opvars, fifos, link, client, worker
  <1> QED BY <1>3, <1>4, <1>5 DEF TypeInv, TypeOK

\* Likewise for the worker's.
LEMMA DownType ==
    ASSUME TypeInv, Down
    PROVE  TypeOK'
  <1>1. rx_sem' \in Nat
    BY GreybusAssumption DEF TypeInv, TypeOK, Down
  <1>2. w' \in WorkerPcs
    BY DEF Down, Goto, WorkerPcs
  <1>3. UNCHANGED <<ref, id, ser, draw, kind, response, sync_sem, fires, tx_fifo,
                    rx_fifo, wd, request_id, sends, requests, wire,
                    connected, paused, asserted, pc, cop, wop, it, nx, calls>>
    BY DEF Down, opvars, fifos, link, client, worker
  <1> QED BY <1>1, <1>2, <1>3 DEF TypeInv, TypeOK

\* rx_fifo has a head, for the semaphore said so.
LEMMA TakeType ==
    ASSUME TypeInv, Take
    PROVE  TypeOK'
  <1>1. wop' \in Ops \cup {Timeout, None}
    BY GreybusAssumption DEF TypeInv, TypeOK, RxLen, Take
  <1>2. rx_fifo' \in Seq(Ops \cup {Timeout})
    BY GreybusAssumption DEF TypeInv, TypeOK, RxLen, Take
  <1>3. w' \in WorkerPcs
    BY DEF Take, Goto, WorkerPcs
  <1>4. UNCHANGED <<ref, id, ser, draw, kind, response, sync_sem, fires, tx_fifo,
                    rx_sem, wd, request_id, sends, requests, wire, connected,
                    paused, asserted, pc, cop, it, nx, calls>>
    BY DEF Take, opvars, fifos, link, client, worker
  <1> QED BY <1>1, <1>2, <1>3, <1>4 DEF TypeInv, TypeOK

\* The worker has both the response and the request.
LEMMA AttachType ==
    ASSUME TypeInv, Attach
    PROVE  TypeOK'
  <1>1. wop \in Ops /\ it \in Ops
    BY DEF TypeInv, WorkerInv, Attach
  <1>2. ref \in [Ops -> Nat]
    BY DEF TypeInv, TypeOK
  <1>3. ref' \in [Ops -> Nat]
    BY <1>1, <1>2 DEF Attach
  <1>4. response' \in [Ops -> Ops \cup {None}]
    BY <1>1 DEF TypeInv, TypeOK, Attach
  <1>5. asserted' \in BOOLEAN
    BY DEF Attach
  <1>6. w' \in WorkerPcs
    BY DEF Attach, Goto, WorkerPcs
  <1>7. UNCHANGED <<id, ser, draw, kind, sync_sem, fires, tx_fifo, rx_fifo, rx_sem,
                    wd, request_id, sends, requests, wire, connected, paused,
                    pc, cop, wop, it, nx, calls>>
    BY DEF Attach, opvars, fifos, link, client, worker
  <1> QED BY <1>3, <1>4, <1>5, <1>6, <1>7 DEF TypeInv, TypeOK

\* The completed operation.
LEMMA CallbackType ==
    ASSUME TypeInv, Callback
    PROVE  TypeOK'
  <1>1. it \in Ops
    BY DEF TypeInv, WorkerInv, Callback
  <1>2. ser[it] \in 0..MaxSends
    BY <1>1 DEF TypeInv, TypeOK
  <1>3. calls' \in [0..MaxSends -> Nat]
    BY <1>2 DEF TypeInv, TypeOK, Callback
  <1>4. sync_sem' \in [Ops -> Nat]
    BY <1>1 DEF TypeInv, TypeOK, Callback
  <1>5. w' \in WorkerPcs
    BY DEF Callback, Goto, WorkerPcs
  <1>6. UNCHANGED <<ref, id, ser, draw, kind, response, fires, tx_fifo, rx_fifo,
                    rx_sem, wd, request_id, sends, requests, wire, connected,
                    paused, asserted, pc, cop, wop, it, nx>>
    BY DEF Callback, opvars, fifos, link, client, worker
  <1> QED BY <1>3, <1>4, <1>5, <1>6 DEF TypeInv, TypeOK

\* The watchdog's interrupt.
LEMMA TimeoutType ==
    ASSUME TypeInv, gb_operation_timeout
    PROVE  TypeOK'
  <1>1. rx_sem \in Nat /\ rx_fifo \in Seq(Ops \cup {Timeout})
    BY DEF TypeInv, TypeOK
  <1>2. \A o \in Ops : fires[o] \in 0..3
    BY DEF TypeInv, TypeOK
  <1>3. fires' \in [Ops -> 0..3]
    BY <1>2 DEF gb_operation_timeout
  <1>4. rx_fifo' \in Seq(Ops \cup {Timeout})
    BY <1>1 DEF gb_operation_timeout
  <1>5. rx_sem' \in Nat
    BY <1>1 DEF gb_operation_timeout
  <1>6. wd' \in BOOLEAN
    BY DEF gb_operation_timeout
  <1>7. UNCHANGED <<ref, id, ser, draw, kind, response, sync_sem, tx_fifo,
                    request_id, sends, requests, wire, connected, paused,
                    asserted, pc, cop, w, wop, it, nx, calls>>
    BY DEF gb_operation_timeout, opvars, fifos, link, client, worker
  <1> QED BY <1>3, <1>4, <1>5, <1>6, <1>7 DEF TypeInv, TypeOK

\* A received message becomes an operation at the end of rx_fifo, or nothing.
LEMMA ReceiveType ==
    ASSUME TypeInv, NEW k \in {"request", "response"},
           NEW n \in 0..IdSpace - 1, NEW d \in Nat, Receive(k, n, d)
    PROVE  /\ ref' \in [Ops -> Nat]
           /\ id' \in [Ops -> 0..IdSpace - 1]
           /\ draw' \in [Ops -> Nat]
           /\ kind' \in [Ops -> {"request", "response", "sync", "async"}]
           /\ rx_fifo' \in Seq(Ops \cup {Timeout})
           /\ rx_sem' \in Nat
           /\ paused' \in BOOLEAN
           /\ RxLen'
           /\ UNCHANGED <<ser, response, sync_sem, fires, tx_fifo, wd, connected,
                          client, worker, asserted, calls>>
  <1>1. /\ ref \in [Ops -> Nat] /\ id \in [Ops -> 0..IdSpace - 1]
        /\ draw \in [Ops -> Nat]
        /\ kind \in [Ops -> {"request", "response", "sync", "async"}]
        /\ rx_fifo \in Seq(Ops \cup {Timeout}) /\ rx_sem \in Nat
        /\ paused \in BOOLEAN
    BY DEF TypeInv, TypeOK
  <1>2. UNCHANGED <<ser, response, sync_sem, fires, tx_fifo, wd, connected,
                    client, worker, asserted, calls>>
    BY DEF Receive
  <1>3. w' = w
    BY <1>2 DEF worker
  <1>4. CASE Free = {}
    <2>1. UNCHANGED <<ref, id, draw, kind, rx_fifo, rx_sem>> /\ paused' = TRUE
      BY <1>4 DEF Receive
    <2>2. RxLen'
      BY <1>3, <2>1 DEF TypeInv, RxLen
    <2> QED BY <1>1, <1>2, <2>1, <2>2
  <1>5. CASE Free # {}
    <2>1. PICK o \in Free : /\ ref' = [ref EXCEPT ![o] = 1]
                            /\ id' = [id EXCEPT ![o] = n]
                            /\ draw' = [draw EXCEPT ![o] = d]
                            /\ kind' = [kind EXCEPT ![o] = k]
                            /\ rx_fifo' = Append(rx_fifo, o)
      BY <1>5, SupplyFree DEF Receive
    <2>2. rx_sem' = rx_sem + 1 /\ UNCHANGED paused
      BY <1>5 DEF Receive
    <2>3. o \in Ops
      BY DEF Free
    <2>4. Len(rx_fifo') = Len(rx_fifo) + 1
      BY <1>1, <2>1, <2>3
    <2>5. RxLen'
      BY <1>1, <1>3, <2>2, <2>4 DEF TypeInv, RxLen
    <2>6. rx_fifo' \in Seq(Ops \cup {Timeout})
      BY <1>1, <2>1, <2>3
    <2>7. /\ ref' \in [Ops -> Nat]
          /\ id' \in [Ops -> 0..IdSpace - 1]
          /\ draw' \in [Ops -> Nat]
          /\ kind' \in [Ops -> {"request", "response", "sync", "async"}]
      BY <1>1, <2>1, <2>3
    <2> QED BY <1>1, <1>2, <2>2, <2>5, <2>6, <2>7
  <1> QED BY <1>4, <1>5

-----------------------------------------------------------------------------
(* Type correctness *)

\* The types at the start.
LEMMA TypeInit == Init => TypeInv
  <1> SUFFICES ASSUME Init PROVE TypeInv
    OBVIOUS
  <1>1. TypeOK
    <2>1. request_id \in Nat /\ connected \in BOOLEAN
      BY GreybusAssumption DEF Init
    <2>2. /\ 0 \in 0..IdSpace - 1 /\ 0 \in 0..MaxSends
          /\ 0 \in 0..MaxRequests /\ 0 \in 0..3
      BY GreybusAssumption
    <2>3. tx_fifo \in Seq(Ops) /\ rx_fifo \in Seq(Ops \cup {Timeout})
      BY DEF Init
    <2>4. wire \subseteq (0..IdSpace - 1) \X Nat
      <3>1. ASSUME NEW d \in 1..request_id
            PROVE  <<d % IdSpace, d>> \in (0..IdSpace - 1) \X Nat
        <4>1. d \in Nat /\ IdSpace \in Nat /\ IdSpace > 1
          BY <2>1, GreybusAssumption
        <4>2. d % IdSpace \in 0..IdSpace - 1
          BY <4>1
        <4> QED BY <4>1, <4>2
      <3>2. \A m \in wire : \E d \in 1..request_id : m = <<d % IdSpace, d>>
        BY DEF Init
      <3> QED BY <3>1, <3>2
    <2> QED BY <2>1, <2>2, <2>3, <2>4 DEF Init, TypeOK, ClientPcs, WorkerPcs
  <1>2. ClientInv /\ WorkerInv /\ RxLen
    BY DEF Init, ClientInv, WorkerInv, Walking, RxLen
  <1> QED BY <1>1, <1>2 DEF TypeInv

\* No step of a client, of the worker or of an interrupt breaks a type.
LEMMA TypeStep == TypeInv /\ [Next]_vars => TypeInv'
  <1> SUFFICES ASSUME TypeInv, [Next]_vars PROVE TypeInv'
    OBVIOUS
  <1> USE DEF TypeInv
  <1>1. ASSUME NEW c \in Clients, Create(c) PROVE TypeInv'
    <2>1. TypeOK'
      BY <1>1, CreateType
    <2>2. ClientInv'
      BY <1>1, SupplyFree DEF TypeOK, ClientInv, Create, Free
    <2>3. WorkerInv' /\ RxLen'
      BY <1>1 DEF WorkerInv, RxLen, Create, fifos, worker
    <2> QED BY <2>1, <2>2, <2>3
  <1>2. ASSUME NEW c \in Clients, Prepare(c) PROVE TypeInv'
    <2>1. TypeOK'
      BY <1>2, PrepareType
    <2>2. ClientInv'
      BY <1>2 DEF TypeOK, ClientInv, Prepare
    <2>3. WorkerInv' /\ RxLen'
      BY <1>2 DEF WorkerInv, RxLen, Prepare, fifos, worker
    <2> QED BY <2>1, <2>2, <2>3
  <1>3. ASSUME NEW c \in Clients, Queue(c) PROVE TypeInv'
    <2>1. TypeOK'
      BY <1>3, QueueType
    <2>2. ClientInv'
      BY <1>3 DEF TypeOK, ClientInv, Queue
    <2>3. WorkerInv' /\ RxLen'
      BY <1>3 DEF WorkerInv, RxLen, Queue, fifos, worker
    <2> QED BY <2>1, <2>2, <2>3
  <1>4. ASSUME NEW c \in Clients, Send(c) PROVE TypeInv'
    <2>1. TypeOK'
      BY <1>4, SendType
    <2>2. ClientInv'
      BY <1>4 DEF TypeOK, ClientInv, Send
    <2>3. WorkerInv' /\ RxLen'
      BY <1>4 DEF WorkerInv, RxLen, Send, fifos, worker
    <2> QED BY <2>1, <2>2, <2>3
  <1>5. ASSUME NEW c \in Clients, SendFailed(c) PROVE TypeInv'
    <2>1. TypeOK'
      BY <1>5, UnrefType, UnlinkType DEF TypeOK, SendFailed,
         gb_watchdog_update, ClientInv, ClientPcs, opvars, fifos, link,
         client, worker
    <2>2. ClientInv'
      BY <1>5 DEF TypeOK, ClientInv, SendFailed
    <2>3. WorkerInv' /\ RxLen'
      BY <1>5 DEF WorkerInv, RxLen, SendFailed, fifos, worker
    <2> QED BY <2>1, <2>2, <2>3
  <1>6. ASSUME NEW c \in Clients, Wait(c) PROVE TypeInv'
    <2>1. TypeOK'
      BY <1>6, WaitType
    <2>2. ClientInv'
      BY <1>6 DEF TypeOK, ClientInv, Wait
    <2>3. WorkerInv' /\ RxLen'
      BY <1>6 DEF WorkerInv, RxLen, Wait, fifos, worker
    <2> QED BY <2>1, <2>2, <2>3
  <1>7. ASSUME NEW c \in Clients, Destroy(c) PROVE TypeInv'
    <2>1. TypeOK'
      BY <1>7, UnrefType DEF TypeOK, Destroy, ClientInv, ClientPcs, opvars,
         fifos, link, client, worker
    <2>2. ClientInv'
      BY <1>7 DEF TypeOK, ClientInv, Destroy
    <2>3. WorkerInv' /\ RxLen'
      BY <1>7 DEF WorkerInv, RxLen, Destroy, fifos, worker
    <2> QED BY <2>1, <2>2, <2>3
  <1>8. ASSUME Down PROVE TypeInv'
    <2>1. TypeOK'
      BY <1>8, DownType
    <2>2. ClientInv'
      BY <1>8 DEF ClientInv, Down, client
    <2>3. WorkerInv'
      BY <1>8 DEF TypeOK, WorkerInv, Walking, Down, Goto, worker
    <2>4. RxLen'
      BY <1>8 DEF TypeOK, RxLen, Down, Goto, fifos, worker
    <2> QED BY <2>1, <2>2, <2>3, <2>4
  <1>9. ASSUME Take PROVE TypeInv'
    <2>1. TypeOK'
      BY <1>9, TakeType
    <2>2. ClientInv'
      BY <1>9 DEF ClientInv, Take, client
    <2>3. WorkerInv'
      BY <1>9 DEF TypeOK, WorkerInv, Walking, Take, Goto, worker, RxLen
    <2>4. RxLen'
      BY <1>9 DEF TypeOK, RxLen, Take, Goto, fifos, worker
    <2> QED BY <2>1, <2>2, <2>3, <2>4
  <1>10. ASSUME ProcessRequest PROVE TypeInv'
    <2>1. TypeOK'
      BY <1>10 DEF TypeOK, ProcessRequest, WorkerInv, WorkerPcs, Goto,
         opvars, fifos, link, client, worker
    <2>2. ClientInv'
      BY <1>10 DEF ClientInv, ProcessRequest, client
    <2>3. WorkerInv'
      BY <1>10 DEF TypeOK, WorkerInv, Walking, ProcessRequest, Goto, worker
    <2>4. RxLen'
      BY <1>10 DEF TypeOK, RxLen, ProcessRequest, Goto, fifos, worker
    <2> QED BY <2>1, <2>2, <2>3, <2>4
  <1>11. ASSUME First PROVE TypeInv'
    <2>1. TypeOK'
      BY <1>11, NextNodeType DEF TypeOK, First, WorkerInv, WorkerPcs, Goto,
         opvars, fifos, link, client, worker
    <2>2. ClientInv'
      BY <1>11 DEF ClientInv, First, client
    <2>3. WorkerInv'
      BY <1>11, NextNodeType DEF TypeOK, WorkerInv, Walking, First, Goto,
         worker
    <2>4. RxLen'
      BY <1>11 DEF TypeOK, RxLen, First, Goto, fifos, worker
    <2> QED BY <2>1, <2>2, <2>3, <2>4
  <1>12. ASSUME ReadNext PROVE TypeInv'
    <2>1. TypeOK'
      BY <1>12, NextNodeType DEF TypeOK, ReadNext, WorkerInv, WorkerPcs,
         Goto, opvars, fifos, link, client, worker
    <2>2. ClientInv'
      BY <1>12 DEF ClientInv, ReadNext, client
    <2>3. WorkerInv'
      BY <1>12, NextNodeType DEF TypeOK, WorkerInv, Walking, ReadNext, Goto,
         worker
    <2>4. RxLen'
      BY <1>12 DEF TypeOK, RxLen, ReadNext, Goto, fifos, worker
    <2> QED BY <2>1, <2>2, <2>3, <2>4
  <1>13. ASSUME Advance PROVE TypeInv'
    <2>1. TypeOK'
      BY <1>13 DEF TypeOK, Advance, WorkerInv, WorkerPcs, Goto, opvars,
         fifos, link, client, worker
    <2>2. ClientInv'
      BY <1>13 DEF ClientInv, Advance, client
    <2>3. WorkerInv'
      BY <1>13 DEF TypeOK, WorkerInv, Walking, Advance, Goto, worker
    <2>4. RxLen'
      BY <1>13 DEF TypeOK, RxLen, Advance, Goto, fifos, worker
    <2> QED BY <2>1, <2>2, <2>3, <2>4
  <1>14. ASSUME Test PROVE TypeInv'
    <2>1. TypeOK'
      BY <1>14 DEF TypeOK, Test, has_timedout, WorkerInv, WorkerPcs, Goto,
         Walking, opvars, fifos, link, client, worker
    <2>2. ClientInv'
      BY <1>14 DEF ClientInv, Test, client
    <2>3. WorkerInv'
      BY <1>14 DEF TypeOK, WorkerInv, Walking, Test, Goto, worker
    <2>4. RxLen'
      BY <1>14 DEF TypeOK, RxLen, Test, Goto, fifos, worker
    <2> QED BY <2>1, <2>2, <2>3, <2>4
  <1>15. ASSUME CleanDel PROVE TypeInv'
    <2>1. TypeOK'
      BY <1>15, UnlinkType DEF TypeOK, CleanDel, WorkerInv, WorkerPcs, Goto,
         Walking, opvars, fifos, link, client, worker
    <2>2. ClientInv'
      BY <1>15 DEF ClientInv, CleanDel, client
    <2>3. WorkerInv'
      BY <1>15 DEF TypeOK, WorkerInv, Walking, CleanDel, Goto, worker
    <2>4. RxLen'
      BY <1>15 DEF TypeOK, RxLen, CleanDel, Goto, fifos, worker
    <2> QED BY <2>1, <2>2, <2>3, <2>4
  <1>16. ASSUME ResponseDel PROVE TypeInv'
    <2>1. TypeOK'
      BY <1>16, UnlinkType DEF TypeOK, ResponseDel, gb_watchdog_update,
         WorkerInv, WorkerPcs, Goto, Walking, opvars, fifos, link, client,
         worker
    <2>2. ClientInv'
      BY <1>16 DEF ClientInv, ResponseDel, client
    <2>3. WorkerInv'
      BY <1>16 DEF TypeOK, WorkerInv, Walking, ResponseDel, Goto, worker
    <2>4. RxLen'
      BY <1>16 DEF TypeOK, RxLen, ResponseDel, Goto, fifos, worker
    <2> QED BY <2>1, <2>2, <2>3, <2>4
  <1>17. ASSUME Attach PROVE TypeInv'
    <2>1. TypeOK'
      BY <1>17, AttachType
    <2>2. ClientInv'
      BY <1>17 DEF ClientInv, Attach, client
    <2>3. WorkerInv'
      BY <1>17 DEF TypeOK, WorkerInv, Walking, Attach, Goto, worker
    <2>4. RxLen'
      BY <1>17 DEF TypeOK, RxLen, Attach, Goto, fifos, worker
    <2> QED BY <2>1, <2>2, <2>3, <2>4
  <1>18. ASSUME Callback PROVE TypeInv'
    <2>1. TypeOK'
      BY <1>18, CallbackType
    <2>2. ClientInv'
      BY <1>18 DEF ClientInv, Callback, client
    <2>3. WorkerInv'
      BY <1>18 DEF TypeOK, WorkerInv, Walking, Callback, Goto, worker
    <2>4. RxLen'
      BY <1>18 DEF TypeOK, RxLen, Callback, Goto, fifos, worker
    <2> QED BY <2>1, <2>2, <2>3, <2>4
  <1>19. ASSUME Unref PROVE TypeInv'
    <2>1. TypeOK'
      BY <1>19, UnrefType DEF TypeOK, Unref, WorkerInv, WorkerPcs, Goto,
         opvars, fifos, link, client, worker
    <2>2. ClientInv'
      BY <1>19 DEF ClientInv, Unref, client
    <2>3. WorkerInv'
      BY <1>19 DEF TypeOK, WorkerInv, Walking, Unref, Goto, worker
    <2>4. RxLen'
      BY <1>19 DEF TypeOK, RxLen, Unref, Goto, fifos, worker
    <2> QED BY <2>1, <2>2, <2>3, <2>4
  <1>20. ASSUME Update PROVE TypeInv'
    <2>1. TypeOK'
      BY <1>20 DEF TypeOK, Update, gb_watchdog_update, WorkerInv, WorkerPcs,
         Goto, opvars, fifos, link, client, worker
    <2>2. ClientInv'
      BY <1>20 DEF ClientInv, Update, client
    <2>3. WorkerInv'
      BY <1>20 DEF TypeOK, WorkerInv, Walking, Update, Goto, worker
    <2>4. RxLen'
      BY <1>20 DEF TypeOK, RxLen, Update, Goto, fifos, worker
    <2> QED BY <2>1, <2>2, <2>3, <2>4
  <1>21. ASSUME FreeReceived PROVE TypeInv'
    <2>1. TypeOK'
      BY <1>21, UnrefType DEF TypeOK, FreeReceived, WorkerInv, WorkerPcs,
         Goto, opvars, fifos, link, client, worker
    <2>2. ClientInv'
      BY <1>21 DEF ClientInv, FreeReceived, client
    <2>3. WorkerInv'
      BY <1>21 DEF TypeOK, WorkerInv, Walking, FreeReceived, Goto, worker
    <2>4. RxLen'
      BY <1>21 DEF TypeOK, RxLen, FreeReceived, Goto, fifos, worker
    <2> QED BY <2>1, <2>2, <2>3, <2>4
  <1>22. ASSUME RxResponse PROVE TypeInv'
    <2>1. PICK m \in wire : Receive("response", m[1], m[2])
      BY <1>22 DEF RxResponse
    <2>2. m[1] \in 0..IdSpace - 1 /\ m[2] \in Nat
      BY DEF TypeOK
    <2>3. wire' \subseteq wire /\ UNCHANGED requests
      BY <1>22 DEF RxResponse
    <2>4. Receive("response", m[1], m[2])
      BY <2>1
    <2>5. /\ ref' \in [Ops -> Nat]
          /\ id' \in [Ops -> 0..IdSpace - 1]
          /\ draw' \in [Ops -> Nat]
          /\ kind' \in [Ops -> {"request", "response", "sync", "async"}]
          /\ rx_fifo' \in Seq(Ops \cup {Timeout})
          /\ rx_sem' \in Nat
          /\ paused' \in BOOLEAN
          /\ RxLen'
          /\ UNCHANGED <<ser, response, sync_sem, fires, tx_fifo, wd, connected,
                         client, worker, asserted, calls>>
      BY <2>2, <2>4, ReceiveType
    <2>6. TypeOK'
      BY <2>3, <2>5 DEF TypeOK, client, worker
    <2>7. ClientInv' /\ WorkerInv'
      BY <2>5 DEF ClientInv, WorkerInv, client, worker
    <2> QED BY <2>5, <2>6, <2>7
  <1>23. ASSUME RxRequest PROVE TypeInv'
    <2>1. 0 \in 0..IdSpace - 1
      BY GreybusAssumption
    <2>2. requests' \in 0..MaxRequests /\ UNCHANGED wire
      BY <1>23, GreybusAssumption DEF RxRequest, TypeOK
    <2>3. Receive("request", 0, 0)
      BY <1>23 DEF RxRequest
    <2>5. /\ ref' \in [Ops -> Nat]
          /\ id' \in [Ops -> 0..IdSpace - 1]
          /\ draw' \in [Ops -> Nat]
          /\ kind' \in [Ops -> {"request", "response", "sync", "async"}]
          /\ rx_fifo' \in Seq(Ops \cup {Timeout})
          /\ rx_sem' \in Nat
          /\ paused' \in BOOLEAN
          /\ RxLen'
          /\ UNCHANGED <<ser, response, sync_sem, fires, tx_fifo, wd, connected,
                         client, worker, asserted, calls>>
      BY <2>1, <2>3, ReceiveType
    <2>6. TypeOK'
      BY <2>2, <2>5 DEF TypeOK, client, worker
    <2>7. ClientInv' /\ WorkerInv'
      BY <2>5 DEF ClientInv, WorkerInv, client, worker
    <2> QED BY <2>5, <2>6, <2>7
  <1>24. ASSUME gb_operation_timeout PROVE TypeInv'
    <2>1. TypeOK'
      BY <1>24, TimeoutType
    <2>2. ClientInv' /\ WorkerInv'
      BY <1>24 DEF ClientInv, WorkerInv, gb_operation_timeout, client, worker
    <2>3. rx_sem \in Nat /\ rx_fifo \in Seq(Ops \cup {Timeout})
      BY DEF TypeOK
    <2>4. w' = w
      BY <1>24 DEF gb_operation_timeout, worker
    <2>5. \/ UNCHANGED <<rx_fifo, rx_sem>>
          \/ rx_sem' = rx_sem + 1 /\ Len(rx_fifo') = Len(rx_fifo) + 1
      BY <1>24, <2>3 DEF gb_operation_timeout
    <2>6. RxLen'
      BY <2>3, <2>4, <2>5 DEF RxLen
    <2> QED BY <2>1, <2>2, <2>6
  <1>25. ASSUME Connect PROVE TypeInv'
    <2>1. TypeOK'
      BY <1>25 DEF TypeOK, Connect, opvars, fifos, link, client, worker
    <2>2. ClientInv'
      BY <1>25 DEF ClientInv, Connect, client
    <2>3. WorkerInv'
      BY <1>25 DEF TypeOK, WorkerInv, Walking, Connect, Goto, worker
    <2>4. RxLen'
      BY <1>25 DEF TypeOK, RxLen, Connect, Goto, fifos, worker
    <2> QED BY <2>1, <2>2, <2>3, <2>4
  <1>26. CASE UNCHANGED vars
    <2>1. UNCHANGED <<opvars, fifos, link, client, worker, requests, asserted,
                      calls>>
      BY <1>26 DEF vars
    <2>2. TypeOK'
      BY <2>1 DEF TypeOK, opvars, fifos, link, client, worker
    <2>3. ClientInv' /\ WorkerInv' /\ RxLen'
      BY <2>1 DEF ClientInv, WorkerInv, RxLen, fifos, client, worker
    <2> QED BY <2>2, <2>3
  <1> QED
    BY <1>1, <1>2, <1>3, <1>4, <1>5, <1>6, <1>7, <1>8, <1>9, <1>10, <1>11,
       <1>12, <1>13, <1>14, <1>15, <1>16, <1>17, <1>18, <1>19, <1>20, <1>21,
       <1>22, <1>23, <1>24, <1>25, <1>26 DEF Next, ClientStep, WorkerStep,
       Interrupt

\* Every variable keeps its type, so no step reads a field of an operation
\* that is none: what the worker takes from rx_fifo is always there.
THEOREM GreybusTypes == Spec => []TypeOK
  <1>1. Spec => []TypeInv
    BY TypeInit, TypeStep, PTL DEF Spec
  <1>2. TypeInv => TypeOK
    BY DEF TypeInv
  <1> QED BY <1>1, <1>2, PTL

-----------------------------------------------------------------------------
(* The queue of received operations *)

\* timedout_operation is linked at most once.
TimeoutOnce == \A i, j \in DOMAIN rx_fifo :
                   rx_fifo[i] = Timeout /\ rx_fifo[j] = Timeout => i = j

\* Appending something else to rx_fifo, or timedout_operation when it is
\* not there, keeps it so.
LEMMA AppendTimeoutOnce ==
    ASSUME NEW f \in Seq(Ops \cup {Timeout}), NEW o \in Ops \cup {Timeout},
           \A i, j \in DOMAIN f : f[i] = Timeout /\ f[j] = Timeout => i = j,
           o = Timeout => Timeout \notin Range(f)
    PROVE  \A i, j \in DOMAIN Append(f, o) :
               Append(f, o)[i] = Timeout /\ Append(f, o)[j] = Timeout => i = j
  <1> DEFINE a == Append(f, o)
             n == Len(f)
  <1>1. n \in Nat /\ DOMAIN f = 1..n /\ DOMAIN a = 1..(n + 1)
    OBVIOUS
  <1>2. a[n + 1] = o /\ \A i \in 1..n : a[i] = f[i]
    OBVIOUS
  <1>3. o = Timeout => \A i \in 1..n : f[i] # Timeout
    BY <1>1 DEF Range
  <1> HIDE DEF a, n
  <1> SUFFICES ASSUME NEW i \in 1..(n + 1), NEW j \in 1..(n + 1),
                      a[i] = Timeout, a[j] = Timeout
               PROVE  i = j
    BY <1>1 DEF a
  <1>4. CASE i \in 1..n /\ j \in 1..n
    BY <1>1, <1>2, <1>4
  <1>5. CASE i = n + 1 \/ j = n + 1
    <2>1. o = Timeout
      BY <1>2, <1>5
    <2>2. i \notin 1..n /\ j \notin 1..n
      BY <1>2, <1>3, <2>1
    <2> QED BY <1>1, <2>2
  <1> QED BY <1>1, <1>4, <1>5

\* The interrupts append to rx_fifo and the worker takes its head off.
LEMMA TimeoutOnceStep ==
    TypeInv /\ TimeoutOnce /\ [Next]_vars => TimeoutOnce'
  <1> SUFFICES ASSUME TypeInv, TimeoutOnce, [Next]_vars PROVE TimeoutOnce'
    OBVIOUS
  <1>1. rx_fifo \in Seq(Ops \cup {Timeout})
    BY DEF TypeInv, TypeOK
  <1>2. CASE UNCHANGED rx_fifo
    BY <1>2 DEF TimeoutOnce
  <1>3. ASSUME NEW k, NEW n, NEW s, Receive(k, n, s) PROVE TimeoutOnce'
    <2>1. CASE Free = {}
      BY <1>2, <1>3, <2>1 DEF Receive
    <2>2. CASE Free # {}
      <3>1. PICK o \in Free : rx_fifo' = Append(rx_fifo, o)
        BY <1>3, <2>2, SupplyFree DEF Receive
      <3>2. o \in Ops /\ o # Timeout
        BY GreybusAssumption DEF Free
      <3> QED BY <1>1, <3>1, <3>2, AppendTimeoutOnce DEF TimeoutOnce
    <2> QED BY <2>1, <2>2
  <1>4. CASE gb_operation_timeout
    <2>1. CASE Timeout \in Range(rx_fifo)
      BY <1>2, <1>4, <2>1 DEF gb_operation_timeout
    <2>2. CASE Timeout \notin Range(rx_fifo)
      <3>1. rx_fifo' = Append(rx_fifo, Timeout)
        BY <1>4, <2>2 DEF gb_operation_timeout
      <3> QED BY <1>1, <2>2, <3>1, AppendTimeoutOnce DEF TimeoutOnce
    <2> QED BY <2>1, <2>2
  <1>5. CASE Take
    <2>1. rx_fifo # <<>> /\ rx_fifo' = Tail(rx_fifo)
      BY <1>1, <1>5 DEF TypeInv, TypeOK, RxLen, Take
    <2>2. \A i \in DOMAIN rx_fifo' : /\ i \in Nat /\ i + 1 \in DOMAIN rx_fifo
                                     /\ rx_fifo'[i] = rx_fifo[i + 1]
      BY <1>1, <2>1
    <2> QED BY <2>2 DEF TimeoutOnce
  <1>6. CASE RxResponse \/ RxRequest
    BY <1>3, <1>6 DEF RxResponse, RxRequest
  <1>7. ASSUME NEW c \in Clients, ClientStep(c) PROVE UNCHANGED rx_fifo
    BY <1>7 DEF ClientStep, Create, Prepare, Queue, Send, SendFailed, Wait,
                Destroy, fifos
  <1>8. CASE WorkerStep /\ ~Take
    BY <1>2, <1>8 DEF WorkerStep, Down, ProcessRequest, First, ReadNext,
                Advance, Test, CleanDel, ResponseDel, Attach, Callback, Unref,
                Update, FreeReceived, fifos
  <1>9. CASE Connect \/ UNCHANGED vars
    BY <1>2, <1>9 DEF Connect, vars, fifos
  <1> QED BY <1>2, <1>4, <1>5, <1>6, <1>7, <1>8, <1>9 DEF Next, Interrupt

\* The worker never unlinks the head of an empty rx_fifo, and the time-out
\* interrupt never links timedout_operation twice.
THEOREM ReceiveQueueCounted == Spec => []RxCount
  <1>1. Init => TypeInv /\ TimeoutOnce
    BY TypeInit DEF Init, TimeoutOnce
  <1>2. TypeInv /\ TimeoutOnce /\ [Next]_vars => (TypeInv /\ TimeoutOnce)'
    BY TypeStep, TimeoutOnceStep
  <1>3. TypeInv /\ TimeoutOnce => RxCount
    BY DEF TypeInv, RxLen, TimeoutOnce, RxCount
  <1> QED BY <1>1, <1>2, <1>3, PTL DEF Spec

-----------------------------------------------------------------------------
(* The watchdog *)

\* Only the end of the cleaning walk and an empty tx_fifo let the watchdog
\* rest, and only a watchdog that is started again ends the walk.
LEMMA WatchdogStep ==
    TypeInv /\ WatchdogCovers /\ [Next]_vars => WatchdogCovers'
  <1> SUFFICES ASSUME TypeInv, WatchdogCovers, [Next]_vars
               PROVE  WatchdogCovers'
    OBVIOUS
  <1> USE DEF WatchdogCovers, Cleaning
  <1>1. rx_fifo \in Seq(Ops \cup {Timeout})
    BY DEF TypeInv, TypeOK
  <1>2. CASE UNCHANGED <<tx_fifo, rx_fifo, wd, wop>>
    BY <1>2
  <1>3. ASSUME NEW c \in Clients, ClientStep(c) PROVE WatchdogCovers'
    <2>1. CASE Queue(c)
      BY <2>1 DEF Queue
    <2>2. CASE SendFailed(c)
      BY <2>2 DEF SendFailed, gb_watchdog_update
    <2>3. CASE Create(c) \/ Prepare(c) \/ Send(c) \/ Wait(c) \/ Destroy(c)
      BY <1>2, <2>3 DEF Create, Prepare, Send, Wait, Destroy, fifos, worker
    <2> QED BY <1>3, <2>1, <2>2, <2>3 DEF ClientStep
  <1>4. ASSUME NEW k, NEW n, NEW s, Receive(k, n, s) PROVE WatchdogCovers'
    <2>1. UNCHANGED <<tx_fifo, wd, wop>>
      BY <1>4 DEF Receive, worker
    <2>2. Timeout \in Range(rx_fifo) => Timeout \in Range(rx_fifo')
      <3>1. CASE Free = {}
        BY <1>4, <3>1 DEF Receive
      <3>2. CASE Free # {}
        <4>1. PICK o \in Free : rx_fifo' = Append(rx_fifo, o)
          BY <1>4, <3>2, SupplyFree DEF Receive
        <4>2. o \in Ops \cup {Timeout}
          BY DEF Free
        <4>3. Range(rx_fifo') = Range(rx_fifo) \cup {o}
          BY <1>1, <4>1, <4>2, AppendOnce
        <4> QED BY <4>3
      <3> QED BY <3>1, <3>2
    <2> QED BY <2>1, <2>2
  <1>5. CASE RxResponse \/ RxRequest
    BY <1>4, <1>5 DEF RxResponse, RxRequest
  <1>6. CASE gb_operation_timeout
    <2>1. CASE Timeout \in Range(rx_fifo)
      BY <1>6, <2>1 DEF gb_operation_timeout
    <2>2. CASE Timeout \notin Range(rx_fifo)
      <3>1. rx_fifo' = Append(rx_fifo, Timeout)
        BY <1>6, <2>2 DEF gb_operation_timeout
      <3>2. Range(rx_fifo') = Range(rx_fifo) \cup {Timeout}
        BY <1>1, <3>1, AppendOnce
      <3> QED BY <3>2
    <2> QED BY <2>1, <2>2
  <1>7. CASE Take
    <2>1. /\ rx_fifo # <<>> /\ rx_fifo' = Tail(rx_fifo)
          /\ wop' = Head(rx_fifo) /\ UNCHANGED <<tx_fifo, wd>>
      BY <1>1, <1>7 DEF TypeInv, TypeOK, RxLen, Take
    <2>2. wop # Timeout
      BY <1>7, GreybusAssumption DEF TypeInv, WorkerInv, Take
    <2>3. ASSUME Timeout \in Range(rx_fifo)
          PROVE  Timeout = Head(rx_fifo) \/ Timeout \in Range(Tail(rx_fifo))
      <3>1. PICK i \in 1..Len(rx_fifo) : rx_fifo[i] = Timeout
        BY <1>1, <2>3 DEF Range
      <3>2. CASE i = 1
        BY <1>1, <3>1, <3>2
      <3>3. CASE i # 1
        <4>1. i - 1 \in DOMAIN Tail(rx_fifo) /\ Tail(rx_fifo)[i - 1] = Timeout
          BY <1>1, <2>1, <3>1, <3>3
        <4> QED BY <4>1 DEF Range
      <3> QED BY <3>2, <3>3
    <2> QED BY <2>1, <2>2, <2>3
  <1>8. CASE CleanDel
    BY <1>8 DEF CleanDel
  <1>9. CASE ResponseDel
    BY <1>9 DEF ResponseDel, gb_watchdog_update
  <1>10. CASE Update
    BY <1>10 DEF Update, gb_watchdog_update
  <1>11. CASE FreeReceived
    <2>1. wop # Timeout
      BY <1>11, GreybusAssumption DEF TypeInv, WorkerInv, FreeReceived
    <2>2. UNCHANGED <<tx_fifo, rx_fifo, wd>>
      BY <1>11 DEF FreeReceived, fifos
    <2> QED BY <2>1, <2>2
  <1>12. CASE Down \/ ProcessRequest \/ First \/ ReadNext \/ Advance \/ Test
              \/ Attach \/ Callback \/ Unref
    BY <1>2, <1>12 DEF Down, ProcessRequest, First, ReadNext, Advance, Test,
                       Attach, Callback, Unref, fifos
  <1>13. CASE Connect \/ UNCHANGED vars
    BY <1>2, <1>13 DEF Connect, vars, fifos, worker
  <1> QED BY <1>3, <1>5, <1>6, <1>7, <1>8, <1>9, <1>10, <1>11, <1>12, <1>13
          DEF Next, WorkerStep, Interrupt

\* However clients, interrupts and worker interleave, and whether or not the
\* sends succeed, a request that waits for its answer will be timed.
THEOREM WaitingIsTimed == Spec => []WatchdogCovers
  <1>1. Init => TypeInv /\ WatchdogCovers
    BY TypeInit DEF Init, WatchdogCovers
  <1>2. TypeInv /\ WatchdogCovers /\ [Next]_vars
        => (TypeInv /\ WatchdogCovers)'
    BY TypeStep, WatchdogStep
  <1> QED BY <1>1, <1>2, PTL DEF Spec

-----------------------------------------------------------------------------
(* A cport that stays connected *)

(* unipro_send refuses to send only on a cport that is not connected, and  *)
(* a connected cport stays so: below, no send fails.  Where sends fail, a  *)
(* client and the worker may both take an operation off tx_fifo, and drop  *)
(* one reference too many (RefAsserted).                                   *)
AlwaysConnected == Connectivity \subseteq {TRUE}

LinkUp == connected /\ \A c \in Clients : pc[c] # "failed"

One(b) == IF b THEN 1 ELSE 0

\* The four kinds of references to an operation.
Held(o) == \E c \in Clients : cop[c] = o
Waits(o) == o \in Range(tx_fifo) \/ InHand(o)
Queued(o) == Waits(o) \/ \E c \in Clients : cop[c] = o /\ pc[c] = "queue"
Received(o) == o \in Range(rx_fifo) \/ wop = o
Attached(o) == \E p \in Ops : response[p] = o

\* An object is a request that a client made, or a message that came in.
Sent(o) == Held(o) \/ Waits(o)
Came(o) == Received(o) \/ Attached(o)

\* Before it is queued, a client's operation is known to the client alone.
Unqueued(c) == pc[c] \in {"prepare", "queue"}

HoldInv ==
    /\ \A c \in Clients : pc[c] = "idle" => cop[c] = None
    /\ \A c, d \in Clients : cop[c] = cop[d] /\ cop[c] # None => c = d
    /\ \A c \in Clients : Unqueued(c) => ~Waits(cop[c])

FifoInv ==
    /\ IsInjective(tx_fifo) /\ IsInjective(rx_fifo)
    /\ w \in {"attach", "call", "unref"} => it \notin Range(tx_fifo)
    /\ wop \in Ops => wop \notin Range(rx_fifo)

RoleInv == \A o \in Ops : ~(Sent(o) /\ Came(o))

\* A response is attached once, to a request that was waiting.
ResponseInv ==
    /\ \A o \in Ops : Came(o) => response[o] = None
    /\ \A o \in Ops : response[o] # None =>
         /\ Sent(o) /\ o \notin Range(tx_fifo)
         /\ w = "attach" => it # o
         /\ \A c \in Clients : Unqueued(c) => cop[c] # o
    /\ \A p, q \in Ops : response[p] = response[q] /\ response[p] # None => p = q
    /\ \A o \in Ops : o \in Range(rx_fifo) => ~Attached(o)
    /\ wop \in Ops /\ w \notin {"call", "unref", "free"} => ~Attached(wop)
    /\ wop \in Ops /\ w \in {"call", "unref"} => response[it] = wop

RefInv ==
    /\ ~asserted
    /\ \A o \in Ops : ref[o] = One(Held(o)) + One(Queued(o))
                               + One(Received(o)) + One(Attached(o))

\* The walk, with the node that follows the one it stands on.
WalkInv ==
    /\ WalkOnList
    /\ w = "del" => it \in Range(tx_fifo)
    /\ w \in {"test", "del"} /\ it \in Ops => nx # it

RolesInv == /\ LinkUp /\ HoldInv /\ FifoInv
            /\ RoleInv /\ ResponseInv /\ RefInv

CountInv == TypeInv /\ RolesInv /\ WalkInv

\* An object of op_slab is nowhere else.
LEMMA FreeUnused ==
    ASSUME RolesInv, NEW o \in Free
    PROVE  /\ o \in Ops /\ response[o] = None
           /\ ~Held(o) /\ ~Waits(o) /\ ~Queued(o) /\ ~Received(o) /\ ~Attached(o)
  <1>1. o \in Ops /\ ref[o] = 0
    BY DEF Free
  <1>2. 0 = One(Held(o)) + One(Queued(o)) + One(Received(o)) + One(Attached(o))
    BY <1>1 DEF RolesInv, RefInv
  <1>3. ~Held(o) /\ ~Queued(o) /\ ~Received(o) /\ ~Attached(o)
    <2> DEFINE a == Held(o)
               b == Queued(o)
               c == Received(o)
               d == Attached(o)
    <2>1. 0 = One(a) + One(b) + One(c) + One(d)
      BY <1>2
    <2> HIDE DEF a, b, c, d
    <2>2. ~a /\ ~b /\ ~c /\ ~d
      BY <2>1 DEF One
    <2> QED BY <2>2 DEF a, b, c, d
  <1>4. ~Waits(o)
    BY <1>3 DEF Queued
  <1>5. response[o] = None
    BY <1>1, <1>3, <1>4 DEF RolesInv, ResponseInv, Sent
  <1> QED BY <1>1, <1>3, <1>4, <1>5

(* A step that moves a client or the worker without touching an operation, *)
(* a list of operations or what the two hold.                              *)
LEMMA RolesFrame ==
    ASSUME TypeInv, RolesInv,
           UNCHANGED <<ref, response, tx_fifo, cop, asserted, connected>>,
           \A c \in Clients :
               \/ pc'[c] = pc[c]
               \/ /\ pc[c] \notin {"idle", "prepare", "queue"}
                  /\ pc'[c] \notin {"idle", "prepare", "queue", "failed"},
           IsInjective(rx_fifo'),
           \A o \in Ops : o \in Range(rx_fifo') <=> o \in Range(rx_fifo),
           \A o \in Ops : wop' = o <=> wop = o,
           w' \in {"attach", "call", "unref"} =>
               w \in {"attach", "call", "unref"} /\ it' = it,
           w \in {"attach", "call", "unref"} =>
               w' \in {"attach", "call", "unref"},
           w' = "attach" => w = "attach",
           wop \in Ops =>
               /\ w' \notin {"call", "unref", "free"} =>
                     w \notin {"call", "unref", "free"}
               /\ w' \in {"call", "unref"} => w \in {"call", "unref"}
    PROVE  RolesInv'
  <1> USE DEF RolesInv
  <1>1. \A o \in Ops : InHand(o)' <=> InHand(o)
    BY DEF InHand
  <1>2. \A o \in Ops : Waits(o)' <=> Waits(o)
    BY <1>1 DEF Waits
  <1>3. \A o \in Ops : Held(o)' <=> Held(o)
    BY DEF Held
  <1>4. \A o \in Ops : Received(o)' <=> Received(o)
    BY DEF Received
  <1>5. \A o \in Ops : Attached(o)' <=> Attached(o)
    BY DEF Attached
  <1>6. \A o \in Ops : Queued(o)' <=> Queued(o)
    BY <1>2 DEF Queued
  <1>7. \A o \in Ops : (Sent(o)' <=> Sent(o)) /\ (Came(o)' <=> Came(o))
    BY <1>2, <1>3, <1>4, <1>5 DEF Sent, Came
  <1>8. \A c \in Clients : Unqueued(c)' <=> Unqueued(c)
    BY DEF Unqueued
  <1>9. LinkUp'
    BY DEF LinkUp
  <1>10. HoldInv'
    <2>1. \A c \in Clients : Unqueued(c) => cop[c] \in Ops
      BY DEF TypeInv, ClientInv, Unqueued
    <2> QED BY <1>2, <1>8, <2>1 DEF HoldInv
  <1>11. FifoInv'
    <2>1. wop' \in Ops => wop = wop'
      OBVIOUS
    <2> QED BY <2>1 DEF FifoInv
  <1>12. RoleInv'
    BY <1>7 DEF RoleInv
  <1>13. ResponseInv'
    <2>1. wop' \in Ops => wop = wop'
      OBVIOUS
    <2> QED BY <1>5, <1>7, <1>8, <2>1 DEF ResponseInv
  <1>14. RefInv'
    BY <1>3, <1>4, <1>5, <1>6 DEF RefInv, One
  <1> QED BY <1>9, <1>10, <1>11, <1>12, <1>13, <1>14

\* Only these variables say what holds an operation.
LEMMA RolesQuiet ==
    ASSUME TypeInv, RolesInv,
           UNCHANGED <<ref, response, tx_fifo, rx_fifo, cop, asserted,
                       connected, pc, wop, it, w>>
    PROVE  RolesInv'
  <1>1. IsInjective(rx_fifo')
    BY DEF RolesInv, FifoInv
  <1> QED BY <1>1, RolesFrame

\* A client takes an object of op_slab: its only reference.
LEMMA RolesCreate ==
    ASSUME TypeInv, RolesInv, NEW c \in Clients, Create(c)
    PROVE  RolesInv'
  <1> USE DEF RolesInv
  <1>1. PICK o \in Free : /\ ref' = [ref EXCEPT ![o] = 1]
                          /\ cop' = [cop EXCEPT ![c] = o]
    BY SupplyFree DEF Create
  <1>2. /\ pc[c] = "idle" /\ pc' = [pc EXCEPT ![c] = "prepare"]
        /\ UNCHANGED <<response, tx_fifo, rx_fifo, asserted, connected, w, wop,
                       it>>
    BY DEF Create, fifos, link, worker
  <1>3. /\ o \in Ops /\ response[o] = None /\ o # None
        /\ ~Held(o) /\ ~Waits(o) /\ ~Queued(o) /\ ~Received(o) /\ ~Attached(o)
    BY FreeUnused, GreybusAssumption
  <1>4. /\ ref \in [Ops -> Nat] /\ pc \in [Clients -> ClientPcs]
        /\ cop \in [Clients -> Ops \cup {None}]
    BY DEF TypeInv, TypeOK
  <1>5. cop[c] = None
    BY <1>2 DEF HoldInv
  <1>6. \A d \in Clients : /\ d # c => pc'[d] = pc[d] /\ cop'[d] = cop[d]
                           /\ d = c => pc'[d] = "prepare" /\ cop'[d] = o
    BY <1>1, <1>2, <1>4
  <1>7. \A p \in Ops : /\ Held(p)' <=> (Held(p) \/ p = o)
                       /\ Waits(p)' <=> Waits(p)
                       /\ Received(p)' <=> Received(p)
                       /\ Attached(p)' <=> Attached(p)
    <2>1. \A p \in Ops : Held(p)' <=> (Held(p) \/ p = o)
      BY <1>5, <1>6, GreybusAssumption DEF Held
    <2>2. \A p \in Ops : Waits(p)' <=> Waits(p)
      BY <1>2 DEF Waits, InHand
    <2>3. \A p \in Ops : Received(p)' <=> Received(p)
      BY <1>2 DEF Received
    <2>4. \A p \in Ops : Attached(p)' <=> Attached(p)
      BY <1>2 DEF Attached
    <2> QED BY <2>1, <2>2, <2>3, <2>4
  <1>8. \A p \in Ops : Queued(p)' <=> Queued(p)
    BY <1>2, <1>6, <1>7 DEF Queued
  <1>9. \A p \in Ops : /\ Sent(p)' <=> (Sent(p) \/ p = o)
                       /\ Came(p)' <=> Came(p)
    BY <1>7 DEF Sent, Came
  <1>10. \A d \in Clients : Unqueued(d)' <=> (Unqueued(d) \/ d = c)
    BY <1>6 DEF Unqueued
  <1>11. LinkUp'
    BY <1>2, <1>6 DEF LinkUp
  <1>12. HoldInv'
    <2>1. \A d \in Clients : pc'[d] = "idle" => cop'[d] = None
      BY <1>6 DEF HoldInv
    <2>2. \A d, e \in Clients : cop'[d] = cop'[e] /\ cop'[d] # None => d = e
      BY <1>3, <1>6 DEF HoldInv, Held
    <2>3. \A d \in Clients : Unqueued(d)' => ~Waits(cop[d])'
      BY <1>2, <1>3, <1>6, <1>10 DEF HoldInv, Waits, InHand
    <2> QED BY <2>1, <2>2, <2>3 DEF HoldInv
  <1>13. FifoInv'
    BY <1>2 DEF FifoInv
  <1>14. RoleInv'
    BY <1>3, <1>9 DEF RoleInv, Came
  <1>15. ResponseInv'
    BY <1>2, <1>3, <1>6, <1>7, <1>9, <1>10 DEF ResponseInv
  <1>16. RefInv'
    <2>1. \A p \in Ops : ref'[p] = IF p = o THEN 1 ELSE ref[p]
      BY <1>1, <1>4
    <2> QED BY <1>2, <1>3, <1>7, <1>8, <2>1 DEF RefInv, One
  <1> QED BY <1>11, <1>12, <1>13, <1>14, <1>15, <1>16

\* The reference for the queue is taken before the operation is queued.
LEMMA RolesPrepare ==
    ASSUME TypeInv, RolesInv, NEW c \in Clients, Prepare(c)
    PROVE  RolesInv'
  <1> USE DEF RolesInv
  <1> DEFINE o == cop[c]
  <1>1. /\ pc[c] = "prepare" /\ o \in Ops
        /\ UNCHANGED <<response, tx_fifo, rx_fifo, cop, asserted, connected, w,
                       wop, it>>
    BY DEF TypeInv, ClientInv, Prepare, fifos, link, worker
  <1>2. CASE UNCHANGED <<pc, ref>>
    BY <1>1, <1>2, RolesQuiet
  <1>3. CASE /\ pc' = [pc EXCEPT ![c] = "queue"]
             /\ ref' = [ref EXCEPT ![o] = @ + 1]
    <2>1. /\ ref \in [Ops -> Nat] /\ pc \in [Clients -> ClientPcs]
          /\ cop \in [Clients -> Ops \cup {None}] /\ o # None
      BY <1>1, GreybusAssumption DEF TypeInv, TypeOK
    <2>2. \A d \in Clients : pc'[d] = IF d = c THEN "queue" ELSE pc[d]
      BY <1>3, <2>1
    <2>3. ~Waits(o) /\ ~Queued(o)
      <3>1. ~Waits(o)
        BY <1>1 DEF HoldInv, Unqueued
      <3>2. \A d \in Clients : cop[d] = o => d = c
        BY <2>1 DEF HoldInv
      <3> QED BY <1>1, <3>1, <3>2 DEF Queued
    <2>4. \A p \in Ops : /\ Held(p)' <=> Held(p)
                         /\ Waits(p)' <=> Waits(p)
                         /\ Received(p)' <=> Received(p)
                         /\ Attached(p)' <=> Attached(p)
      BY <1>1 DEF Held, Waits, InHand, Received, Attached
    <2>5. \A p \in Ops : Queued(p)' <=> (Queued(p) \/ p = o)
      BY <1>1, <2>2, <2>4 DEF Queued
    <2>6. \A p \in Ops : (Sent(p)' <=> Sent(p)) /\ (Came(p)' <=> Came(p))
      BY <2>4 DEF Sent, Came
    <2>7. \A d \in Clients : Unqueued(d)' <=> Unqueued(d)
      BY <1>1, <2>2 DEF Unqueued
    <2>8. LinkUp'
      BY <1>1, <2>2 DEF LinkUp
    <2>9. HoldInv'
      BY <1>1, <2>2, <2>7 DEF HoldInv, Waits, InHand
    <2>10. FifoInv'
      BY <1>1 DEF FifoInv
    <2>11. RoleInv'
      BY <2>6 DEF RoleInv
    <2>12. ResponseInv'
      BY <1>1, <2>4, <2>6, <2>7 DEF ResponseInv
    <2>13. RefInv'
      <3>1. \A p \in Ops : ref'[p] = IF p = o THEN ref[p] + 1 ELSE ref[p]
        BY <1>3, <2>1
      <3> QED BY <1>1, <2>3, <2>4, <2>5, <3>1 DEF RefInv, One
    <2> QED BY <2>8, <2>9, <2>10, <2>11, <2>12, <2>13
  <1> QED BY <1>2, <1>3 DEF Prepare

\* From then on tx_fifo holds that reference.
LEMMA RolesQueue ==
    ASSUME TypeInv, RolesInv, NEW c \in Clients, Queue(c)
    PROVE  RolesInv'
  <1> USE DEF RolesInv
  <1> DEFINE o == cop[c]
  <1>1. /\ pc[c] = "queue" /\ pc' = [pc EXCEPT ![c] = "send"] /\ o \in Ops
        /\ UNCHANGED <<ref, response, rx_fifo, cop, asserted, connected, w,
                       wop, it>>
    BY DEF TypeInv, ClientInv, Queue, opvars, link, worker
  <1>2. /\ tx_fifo \in Seq(Ops) /\ pc \in [Clients -> ClientPcs] /\ o # None
    BY <1>1, GreybusAssumption DEF TypeInv, TypeOK
  <1>3. ~Waits(o) /\ response[o] = None
    <2>1. Unqueued(c)
      BY <1>1 DEF Unqueued
    <2> QED BY <1>1, <2>1 DEF HoldInv, ResponseInv
  <1>4. /\ Range(tx_fifo') = Range(tx_fifo) \cup {o} /\ IsInjective(tx_fifo')
    <2>1. o \notin Range(tx_fifo) /\ IsInjective(tx_fifo)
      BY <1>3 DEF Waits, FifoInv
    <2> QED BY <1>1, <1>2, <2>1, AppendOnce DEF Queue
  <1>5. \A d \in Clients : pc'[d] = IF d = c THEN "send" ELSE pc[d]
    BY <1>1, <1>2
  <1>6. \A d \in Clients : cop[d] = o => d = c
    BY <1>2 DEF HoldInv
  <1>7. \A p \in Ops : /\ Held(p)' <=> Held(p)
                       /\ Waits(p)' <=> (Waits(p) \/ p = o)
                       /\ Received(p)' <=> Received(p)
                       /\ Attached(p)' <=> Attached(p)
    BY <1>1, <1>4 DEF Held, Waits, InHand, Received, Attached
  <1>8. \A p \in Ops : Queued(p)' <=> Queued(p)
    BY <1>1, <1>5, <1>6, <1>7 DEF Queued
  <1>9. Held(o)
    BY DEF Held
  <1>10. \A p \in Ops : (Sent(p)' <=> Sent(p)) /\ (Came(p)' <=> Came(p))
    BY <1>7, <1>9 DEF Sent, Came
  <1>11. \A d \in Clients : Unqueued(d)' <=> (Unqueued(d) /\ d # c)
    BY <1>5 DEF Unqueued
  <1>12. LinkUp'
    BY <1>1, <1>5 DEF LinkUp
  <1>13. HoldInv'
    <2>1. \A d \in Clients : Unqueued(d) => cop[d] \in Ops
      BY DEF TypeInv, ClientInv, Unqueued
    <2>2. \A d \in Clients : Unqueued(d)' => ~Waits(cop[d])'
      BY <1>1, <1>4, <1>6, <1>11, <2>1 DEF HoldInv, Waits, InHand
    <2> QED BY <1>1, <1>5, <2>2 DEF HoldInv
  <1>14. FifoInv'
    BY <1>1, <1>3, <1>4 DEF FifoInv, Waits, InHand
  <1>15. RoleInv'
    BY <1>10 DEF RoleInv
  <1>16. ResponseInv'
    BY <1>1, <1>3, <1>4, <1>7, <1>10, <1>11 DEF ResponseInv
  <1>17. RefInv'
    BY <1>1, <1>7, <1>8 DEF RefInv, One
  <1> QED BY <1>12, <1>13, <1>14, <1>15, <1>16, <1>17

\* A received message takes an object of op_slab, if there is one.
LEMMA RolesReceive ==
    ASSUME TypeInv, RolesInv, NEW k, NEW n, NEW s, Receive(k, n, s)
    PROVE  RolesInv'
  <1> USE DEF RolesInv
  <1>1. UNCHANGED <<response, tx_fifo, connected, pc, cop, w, wop, it,
                    asserted>>
    BY DEF Receive, client, worker
  <1>2. CASE Free = {}
    BY <1>1, <1>2, RolesQuiet DEF Receive
  <1>3. CASE Free # {}
    <2>1. PICK o \in Free : /\ ref' = [ref EXCEPT ![o] = 1]
                            /\ rx_fifo' = Append(rx_fifo, o)
      BY <1>3, SupplyFree DEF Receive
    <2>2. /\ o \in Ops /\ response[o] = None /\ o # None
          /\ ~Held(o) /\ ~Waits(o) /\ ~Queued(o) /\ ~Received(o) /\ ~Attached(o)
      BY FreeUnused, GreybusAssumption
    <2>3. ref \in [Ops -> Nat] /\ rx_fifo \in Seq(Ops \cup {Timeout})
      BY DEF TypeInv, TypeOK
    <2>4. Range(rx_fifo') = Range(rx_fifo) \cup {o} /\ IsInjective(rx_fifo')
      <3>1. o \notin Range(rx_fifo) /\ IsInjective(rx_fifo)
        BY <2>2 DEF Received, FifoInv
      <3> QED BY <2>1, <2>2, <2>3, <3>1, AppendOnce
    <2>5. \A p \in Ops : /\ Held(p)' <=> Held(p)
                         /\ Waits(p)' <=> Waits(p)
                         /\ Queued(p)' <=> Queued(p)
                         /\ Received(p)' <=> (Received(p) \/ p = o)
                         /\ Attached(p)' <=> Attached(p)
      BY <1>1, <2>4 DEF Held, Waits, Queued, InHand, Received, Attached
    <2>6. \A p \in Ops : /\ Sent(p)' <=> Sent(p)
                         /\ Came(p)' <=> (Came(p) \/ p = o)
      BY <2>5 DEF Sent, Came
    <2>7. \A d \in Clients : Unqueued(d)' <=> Unqueued(d)
      BY <1>1 DEF Unqueued
    <2>8. LinkUp'
      BY <1>1 DEF LinkUp
    <2>9. HoldInv'
      BY <1>1, <2>7 DEF HoldInv, Waits, InHand
    <2>10. FifoInv'
      BY <1>1, <2>2, <2>4 DEF FifoInv, Received
    <2>11. RoleInv'
      BY <2>2, <2>6 DEF RoleInv, Sent
    <2>12. ResponseInv'
      BY <1>1, <2>2, <2>4, <2>5, <2>6, <2>7 DEF ResponseInv
    <2>13. RefInv'
      <3>1. \A p \in Ops : ref'[p] = IF p = o THEN 1 ELSE ref[p]
        BY <2>1, <2>3
      <3> QED BY <1>1, <2>2, <2>5, <3>1 DEF RefInv, One
    <2> QED BY <2>8, <2>9, <2>10, <2>11, <2>12, <2>13
  <1> QED BY <1>2, <1>3

\* The worker takes over the reference of rx_fifo.
LEMMA RolesTake ==
    ASSUME TypeInv, RolesInv, Take
    PROVE  RolesInv'
  <1> USE DEF RolesInv
  <1>1. /\ w = "take" /\ wop' = Head(rx_fifo) /\ rx_fifo' = Tail(rx_fifo)
        /\ w' \in {"first", "request"} /\ wop = None
        /\ UNCHANGED <<ref, response, tx_fifo, cop, pc, asserted, connected,
                       it>>
    BY DEF TypeInv, WorkerInv, Take, Goto, opvars, link, client
  <1>2. rx_fifo \in Seq(Ops \cup {Timeout}) /\ rx_fifo # <<>>
    BY <1>1 DEF TypeInv, TypeOK, RxLen
  <1>3. /\ wop' \in Range(rx_fifo) /\ Range(rx_fifo') = Range(rx_fifo) \ {wop'}
        /\ IsInjective(rx_fifo')
    <2>1. IsInjective(rx_fifo)
      BY DEF FifoInv
    <2>2. /\ Head(rx_fifo) \in Range(rx_fifo)
          /\ Unlink(rx_fifo, Head(rx_fifo)) = Tail(rx_fifo)
      BY <1>2, <2>1, UnlinkHead
    <2>3. /\ Range(Unlink(rx_fifo, Head(rx_fifo)))
               = Range(rx_fifo) \ {Head(rx_fifo)}
          /\ IsInjective(Unlink(rx_fifo, Head(rx_fifo)))
      BY <1>2, <2>1, UnlinkOnce
    <2> QED BY <1>1, <2>2, <2>3
  <1>4. \A p \in Ops : /\ Held(p)' <=> Held(p)
                       /\ Waits(p)' <=> Waits(p)
                       /\ Queued(p)' <=> Queued(p)
                       /\ Attached(p)' <=> Attached(p)
    BY <1>1 DEF Held, Waits, Queued, InHand, Attached
  <1>5. \A p \in Ops : Received(p)' <=> Received(p)
    BY <1>1, <1>3, GreybusAssumption DEF Received
  <1>6. \A p \in Ops : (Sent(p)' <=> Sent(p)) /\ (Came(p)' <=> Came(p))
    BY <1>4, <1>5 DEF Sent, Came
  <1>7. \A d \in Clients : Unqueued(d)' <=> Unqueued(d)
    BY <1>1 DEF Unqueued
  <1>8. LinkUp'
    BY <1>1 DEF LinkUp
  <1>9. HoldInv'
    BY <1>1, <1>7 DEF HoldInv, Waits, InHand
  <1>10. FifoInv'
    BY <1>1, <1>3 DEF FifoInv
  <1>11. RoleInv'
    BY <1>6 DEF RoleInv
  <1>12. ResponseInv'
    BY <1>1, <1>3, <1>4, <1>6, <1>7 DEF ResponseInv
  <1>13. RefInv'
    BY <1>1, <1>4, <1>5 DEF RefInv, One
  <1> QED BY <1>8, <1>9, <1>10, <1>11, <1>12, <1>13

\* Either walk takes an operation over from tx_fifo, with its reference.
LEMMA RolesDel ==
    ASSUME TypeInv, RolesInv, WalkInv, CleanDel \/ ResponseDel
    PROVE  RolesInv'
  <1> USE DEF RolesInv
  <1>1. /\ w = "del" /\ tx_fifo' = Unlink(tx_fifo, it)
        /\ UNCHANGED <<ref, response, rx_fifo, cop, pc, asserted, connected,
                       wop, it>>
        /\ \/ w' = "call" /\ wop = Timeout
           \/ w' = "attach" /\ wop # Timeout
    BY DEF CleanDel, ResponseDel, Goto, opvars, link, client
  <1>2. it \in Ops /\ it \in Range(tx_fifo) /\ tx_fifo \in Seq(Ops)
    BY <1>1 DEF TypeInv, TypeOK, WorkerInv, WalkInv
  <1>3. Range(tx_fifo') = Range(tx_fifo) \ {it} /\ IsInjective(tx_fifo')
    BY <1>1, <1>2, UnlinkOnce DEF FifoInv
  <1>4. \A p \in Ops : Waits(p)' <=> Waits(p)
    BY <1>1, <1>2, <1>3 DEF Waits, InHand
  <1>5. \A p \in Ops : /\ Held(p)' <=> Held(p)
                       /\ Queued(p)' <=> Queued(p)
                       /\ Attached(p)' <=> Attached(p)
                       /\ Received(p)' <=> Received(p)
    BY <1>1, <1>4 DEF Held, Queued, Attached, Received
  <1>6. \A p \in Ops : (Sent(p)' <=> Sent(p)) /\ (Came(p)' <=> Came(p))
    BY <1>4, <1>5 DEF Sent, Came
  <1>7. \A d \in Clients : Unqueued(d)' <=> Unqueued(d)
    BY <1>1 DEF Unqueued
  <1>8. LinkUp'
    BY <1>1 DEF LinkUp
  <1>9. HoldInv'
    <2>1. \A d \in Clients : Unqueued(d) => cop[d] \in Ops
      BY DEF TypeInv, ClientInv, Unqueued
    <2> QED BY <1>1, <1>4, <1>7, <2>1 DEF HoldInv
  <1>10. FifoInv'
    BY <1>1, <1>3 DEF FifoInv
  <1>11. RoleInv'
    BY <1>6 DEF RoleInv
  <1>12. ResponseInv'
    BY <1>1, <1>2, <1>3, <1>5, <1>6, <1>7, GreybusAssumption DEF ResponseInv
  <1>13. RefInv'
    BY <1>1, <1>5 DEF RefInv, One
  <1> QED BY <1>8, <1>9, <1>10, <1>11, <1>12, <1>13

\* A response is attached to the request the worker took off tx_fifo.
LEMMA RolesAttach ==
    ASSUME TypeInv, RolesInv, Attach
    PROVE  RolesInv'
  <1> USE DEF RolesInv
  <1>1. /\ w = "attach" /\ w' = "call" /\ wop \in Ops /\ it \in Ops
        /\ asserted' = (ref[wop] = 0)
        /\ ref' = [ref EXCEPT ![wop] = IF @ = 0 THEN 0 ELSE @ + 1]
        /\ response' = [response EXCEPT ![it] = wop]
        /\ UNCHANGED <<tx_fifo, rx_fifo, cop, pc, connected, wop, it>>
    BY DEF TypeInv, WorkerInv, Attach, Goto, fifos, link, client
  <1>2. /\ ref \in [Ops -> Nat] /\ response \in [Ops -> Ops \cup {None}]
        /\ wop # None
    BY <1>1, GreybusAssumption DEF TypeInv, TypeOK
  <1>3. \A p \in Ops : response'[p] = IF p = it THEN wop ELSE response[p]
    BY <1>1, <1>2
  <1>4. /\ Received(wop) /\ ~Attached(wop) /\ Came(wop)
        /\ Waits(it) /\ Sent(it) /\ it # wop
    <2>1. Received(wop) /\ ~Attached(wop) /\ Waits(it)
      BY <1>1 DEF Received, ResponseInv, Waits, InHand
    <2> QED BY <1>1, <2>1 DEF Came, Sent, RoleInv
  <1>5. ~Held(wop) /\ ~Queued(wop)
    <2>1. ~Sent(wop)
      BY <1>1, <1>4 DEF RoleInv
    <2> QED BY <2>1 DEF Sent, Queued, Held
  <1>6. ref[wop] = 1
    BY <1>1, <1>4, <1>5 DEF RefInv, One
  <1>7. response[it] = None /\ ~Attached(it)
    <2>1. response[it] = None
      BY <1>1 DEF ResponseInv
    <2> QED BY <1>1, <1>4, <2>1 DEF RoleInv, Came
  <1>8. \A p \in Ops : Attached(p)' <=> (Attached(p) \/ p = wop)
    BY <1>1, <1>2, <1>3, <1>7, GreybusAssumption DEF Attached
  <1>9. \A p \in Ops : /\ Held(p)' <=> Held(p)
                       /\ Waits(p)' <=> Waits(p)
                       /\ Queued(p)' <=> Queued(p)
                       /\ Received(p)' <=> Received(p)
    BY <1>1 DEF Held, Waits, InHand, Queued, Received
  <1>10. \A p \in Ops : (Sent(p)' <=> Sent(p)) /\ (Came(p)' <=> Came(p))
    BY <1>4, <1>8, <1>9 DEF Sent, Came
  <1>11. \A d \in Clients : Unqueued(d)' <=> Unqueued(d)
    BY <1>1 DEF Unqueued
  <1>12. LinkUp'
    BY <1>1 DEF LinkUp
  <1>13. HoldInv'
    <2>1. \A d \in Clients : Unqueued(d) => cop[d] \in Ops
      BY DEF TypeInv, ClientInv, Unqueued
    <2> QED BY <1>1, <1>9, <1>11, <2>1 DEF HoldInv
  <1>14. FifoInv'
    BY <1>1 DEF FifoInv
  <1>15. RoleInv'
    BY <1>10 DEF RoleInv
  <1>16. ResponseInv'
    <2>1. \A p \in Ops : Came(p)' => response'[p] = None
      BY <1>3, <1>4, <1>10 DEF ResponseInv, RoleInv
    <2>2. \A p \in Ops : response'[p] # None =>
            /\ Sent(p)' /\ p \notin Range(tx_fifo') /\ w' # "attach"
      BY <1>1, <1>3, <1>4, <1>10 DEF ResponseInv, FifoInv
    <2>3. \A p \in Ops : response'[p] # None =>
            \A c \in Clients : Unqueued(c)' => cop'[c] # p
      BY <1>1, <1>3, <1>4, <1>11 DEF ResponseInv, HoldInv
    <2>4. \A p, q \in Ops :
            response'[p] = response'[q] /\ response'[p] # None => p = q
      BY <1>3, <1>4 DEF ResponseInv, Attached
    <2>5. \A p \in Ops : p \in Range(rx_fifo') => ~Attached(p)'
      BY <1>1, <1>8 DEF ResponseInv, FifoInv
    <2>6. response'[it'] = wop'
      BY <1>1, <1>3
    <2> QED BY <1>1, <2>1, <2>2, <2>3, <2>4, <2>5, <2>6 DEF ResponseInv
  <1>17. RefInv'
    <2>1. \A p \in Ops : ref'[p] = IF p = wop THEN 2 ELSE ref[p]
      BY <1>1, <1>2, <1>6
    <2>2. ~asserted'
      <3>1. ref[wop] # 0
        BY <1>6
      <3> QED BY <1>1, <3>1, Zenon
    <2> QED BY <1>4, <1>5, <1>6, <1>8, <1>9, <2>1, <2>2 DEF RefInv, One
  <1> QED BY <1>12, <1>13, <1>14, <1>15, <1>16, <1>17

\* The last reference to a request that was answered.
Last(o) == ref[o] = 1 /\ response[o] # None

\* Giving a request up gives its response up with the last reference.
LEMMA UnrefRequest ==
    ASSUME TypeInv, RolesInv, NEW o \in Ops, Sent(o), gb_operation_unref(o)
    PROVE  /\ ~asserted'
           /\ ref[o] = One(Held(o)) + One(Queued(o))
           /\ \A p \in Ops : ref'[p] =
                IF p = o \/ (Last(o) /\ p = response[o]) THEN ref[p] - 1
                ELSE ref[p]
           /\ \A p \in Ops : response'[p] =
                IF Last(o) /\ p = o THEN None ELSE response[p]
           /\ \A p \in Ops : Attached(p)' <=>
                (Attached(p) /\ ~(Last(o) /\ p = response[o]))
  <1> USE DEF RolesInv
  <1>1. ref \in [Ops -> Nat] /\ response \in [Ops -> Ops \cup {None}]
    BY DEF TypeInv, TypeOK
  <1>2. ~Received(o) /\ ~Attached(o)
    BY DEF RoleInv, Came
  <1>3. ref[o] = One(Held(o)) + One(Queued(o))
    <2>1. ref[o] = One(Held(o)) + One(Queued(o)) + 0 + 0
      BY <1>2 DEF RefInv, One
    <2>2. One(Held(o)) \in Nat /\ One(Queued(o)) \in Nat
      BY DEF One
    <2> QED BY <2>1, <2>2
  <1>4. ref[o] > 0
    <2>1. Held(o) \/ Queued(o)
      BY DEF Sent, Queued
    <2> QED BY <1>3, <2>1 DEF One
  <1>5. response[o] # None => /\ response[o] \in Ops /\ response[o] # o
                              /\ ref[response[o]] > 0
    <2> SUFFICES ASSUME response[o] # None
                 PROVE  /\ response[o] \in Ops /\ response[o] # o
                        /\ ref[response[o]] > 0
      OBVIOUS
    <2> DEFINE r == response[o]
    <2>1. r \in Ops /\ Attached(r)
      BY <1>1 DEF Attached
    <2>2. r # o
      BY <1>2, <2>1
    <2> HIDE DEF r
    <2>3. ref[r] = One(Held(r)) + One(Queued(r)) + One(Received(r)) + 1
      BY <2>1 DEF RefInv, One
    <2>4. ref[r] > 0
      BY <2>3 DEF One
    <2> QED BY <2>1, <2>2, <2>4 DEF r
  <1>6. ~asserted'
    <2>1. asserted' = (ref[o] = 0 \/ (Last(o) /\ ref[response[o]] = 0))
      BY Zenon DEF gb_operation_unref, Last
    <2>2. ref[o] # 0 /\ (response[o] # None => ref[response[o]] # 0)
      BY <1>4, <1>5
    <2> QED BY <2>1, <2>2, Zenon DEF Last
  <1>7. \A p \in Ops : ref'[p] =
                IF p = o \/ (Last(o) /\ p = response[o]) THEN ref[p] - 1
                ELSE ref[p]
    BY <1>1, <1>4, <1>5 DEF gb_operation_unref, Last
  <1>8. \A p \in Ops : response'[p] =
                IF Last(o) /\ p = o THEN None ELSE response[p]
    BY <1>1 DEF gb_operation_unref, Last
  <1>9. \A p \in Ops : Attached(p)' <=>
                (Attached(p) /\ ~(Last(o) /\ p = response[o]))
    <2>1. \A p, q \in Ops : response[p] = response[q] /\ response[p] # None
                              => p = q
      BY DEF ResponseInv
    <2> QED BY <1>1, <1>8, <2>1, GreybusAssumption DEF Attached, Last
  <1> QED BY <1>3, <1>6, <1>7, <1>8, <1>9

\* A client drops its reference, perhaps the request's last, and then the
\* response's with it.
LEMMA RolesDestroy ==
    ASSUME TypeInv, RolesInv, NEW c \in Clients, Destroy(c)
    PROVE  RolesInv'
  <1> USE DEF RolesInv
  <1> DEFINE o == cop[c]
  <1>1. /\ pc[c] = "destroy" /\ pc' = [pc EXCEPT ![c] = "idle"] /\ o \in Ops
        /\ cop' = [cop EXCEPT ![c] = None] /\ gb_operation_unref(o)
        /\ UNCHANGED <<tx_fifo, rx_fifo, connected, w, wop, it>>
    BY DEF TypeInv, ClientInv, Destroy, fifos, link, worker
  <1>2. /\ pc \in [Clients -> ClientPcs] /\ cop \in [Clients -> Ops \cup {None}]
        /\ response \in [Ops -> Ops \cup {None}] /\ o # None
    BY <1>1, GreybusAssumption DEF TypeInv, TypeOK
  <1>3. \A d \in Clients : /\ pc'[d] = IF d = c THEN "idle" ELSE pc[d]
                           /\ cop'[d] = IF d = c THEN None ELSE cop[d]
    BY <1>1, <1>2
  <1>4. \A d \in Clients : cop[d] = o => d = c
    BY <1>2 DEF HoldInv
  <1>5. Held(o) /\ Sent(o)
    BY DEF Held, Sent
  <1>6. /\ ~asserted' /\ ref[o] = One(Held(o)) + One(Queued(o))
        /\ \A p \in Ops : ref'[p] =
             IF p = o \/ (Last(o) /\ p = response[o]) THEN ref[p] - 1
             ELSE ref[p]
        /\ \A p \in Ops : response'[p] =
             IF Last(o) /\ p = o THEN None ELSE response[p]
        /\ \A p \in Ops : Attached(p)' <=>
             (Attached(p) /\ ~(Last(o) /\ p = response[o]))
    BY <1>1, <1>5, UnrefRequest
  <1>7. \A p \in Ops : Held(p)' <=> (Held(p) /\ p # o)
    BY <1>3, <1>4, GreybusAssumption DEF Held
  <1>8. \A p \in Ops : /\ Waits(p)' <=> Waits(p)
                       /\ Received(p)' <=> Received(p)
    BY <1>1 DEF Waits, InHand, Received
  <1>9. \A p \in Ops : Queued(p)' <=> Queued(p)
    BY <1>1, <1>3, <1>8 DEF Queued
  <1>10. Queued(o) <=> Waits(o)
    BY <1>1, <1>4 DEF Queued
  <1>11. Last(o) <=> ~Waits(o) /\ response[o] # None
    BY <1>5, <1>6, <1>10 DEF Last, One
  <1>12. \A p \in Ops : /\ Sent(p)' => Sent(p)
                        /\ Sent(p) /\ (p = o => Waits(o)) => Sent(p)'
                        /\ Came(p)' => Came(p)
    BY <1>6, <1>7, <1>8 DEF Sent, Came
  <1>13. \A d \in Clients : Unqueued(d)' <=> Unqueued(d)
    BY <1>1, <1>3 DEF Unqueued
  <1>14. LinkUp'
    BY <1>1, <1>3 DEF LinkUp
  <1>15. HoldInv'
    <2>1. \A d \in Clients : Unqueued(d) => cop[d] \in Ops /\ d # c
      BY <1>1 DEF TypeInv, ClientInv, Unqueued
    <2> QED BY <1>1, <1>3, <1>8, <1>13, <2>1 DEF HoldInv
  <1>16. FifoInv'
    BY <1>1 DEF FifoInv
  <1>17. RoleInv'
    BY <1>12 DEF RoleInv
  <1>18. ResponseInv'
    <2>1. \A p \in Ops : Came(p)' => response'[p] = None
      BY <1>6, <1>12 DEF ResponseInv
    <2>2. \A p \in Ops : response'[p] # None =>
            /\ response[p] # None /\ response'[p] = response[p]
            /\ p = o => Waits(o)
      BY <1>6, <1>11
    <2>3. \A p \in Ops : response'[p] # None =>
            /\ Sent(p)' /\ p \notin Range(tx_fifo')
            /\ w' = "attach" => it' # p
      BY <1>1, <1>12, <2>2 DEF ResponseInv
    <2>4. \A p \in Ops : response'[p] # None =>
            \A d \in Clients : Unqueued(d)' => cop'[d] # p
      BY <1>1, <1>3, <1>13, <2>2, GreybusAssumption DEF ResponseInv
    <2>5. \A p, q \in Ops :
            response'[p] = response'[q] /\ response'[p] # None => p = q
      BY <2>2 DEF ResponseInv
    <2>6. \A p \in Ops : p \in Range(rx_fifo') => ~Attached(p)'
      BY <1>1, <1>6 DEF ResponseInv
    <2>7. wop' \in Ops /\ w' \notin {"call", "unref", "free"} => ~Attached(wop)'
      BY <1>1, <1>6 DEF ResponseInv, Attached
    <2>8. wop' \in Ops /\ w' \in {"call", "unref"} => response'[it'] = wop'
      <3> SUFFICES ASSUME wop \in Ops, w \in {"call", "unref"}
                   PROVE  response'[it] = wop
        BY <1>1
      <3>1. it \in Ops /\ response[it] = wop /\ Waits(it)
        BY DEF TypeInv, WorkerInv, ResponseInv, Waits, InHand
      <3>2. ~(Last(o) /\ it = o)
        BY <1>11, <3>1
      <3> QED BY <1>6, <3>1, <3>2
    <2> QED BY <2>1, <2>3, <2>4, <2>5, <2>6, <2>7, <2>8 DEF ResponseInv
  <1>19. RefInv'
    <2>1. \A p \in Ops : Attached(p) /\ Last(o) /\ p = response[o] => p # o
      BY <1>5 DEF RoleInv, Came
    <2>2. response[o] # None => response[o] \in Ops /\ Attached(response[o])
      BY <1>1, <1>2 DEF Attached
    <2>3. ASSUME NEW p \in Ops
          PROVE  ref'[p] = One(Held(p)') + One(Queued(p)')
                           + One(Received(p)') + One(Attached(p)')
      <3>1. CASE p = o
        <4>1. ~Received(o) /\ ~Attached(o)
          BY <1>1, <1>5 DEF RoleInv, Came
        <4> QED BY <1>5, <1>6, <1>7, <1>8, <1>9, <3>1, <4>1 DEF One
      <3>2. CASE p # o /\ Last(o) /\ p = response[o]
        <4>1. Attached(p) /\ ~Attached(p)'
          BY <1>6, <2>2, <3>2 DEF Last
        <4>2. ref'[p] = ref[p] - 1
          BY <1>6, <3>2
        <4> QED BY <1>7, <1>8, <1>9, <3>2, <4>1, <4>2 DEF RefInv, One
      <3>3. CASE p # o /\ ~(Last(o) /\ p = response[o])
        <4>1. ref'[p] = ref[p] /\ (Attached(p)' <=> Attached(p))
          BY <1>6, <3>3
        <4> QED BY <1>7, <1>8, <1>9, <3>3, <4>1 DEF RefInv, One
      <3> QED BY <3>1, <3>2, <3>3
    <2> QED BY <1>6, <2>3 DEF RefInv
  <1> QED BY <1>14, <1>15, <1>16, <1>17, <1>18, <1>19

\* The worker gives the reference up that it took over from tx_fifo.
LEMMA RolesUnref ==
    ASSUME TypeInv, RolesInv, Unref
    PROVE  RolesInv'
  <1> USE DEF RolesInv
  <1>1. /\ w = "unref" /\ w' = (IF wop = Timeout THEN "advance" ELSE "free")
        /\ it \in Ops /\ gb_operation_unref(it)
        /\ UNCHANGED <<tx_fifo, rx_fifo, connected, pc, cop, wop, it>>
    BY DEF TypeInv, WorkerInv, Unref, Goto, fifos, link, client
  <1>2. response \in [Ops -> Ops \cup {None}]
    BY DEF TypeInv, TypeOK
  <1>3. Waits(it) /\ Queued(it) /\ Sent(it) /\ it \notin Range(tx_fifo)
    BY <1>1 DEF Waits, InHand, Queued, Sent, FifoInv
  <1>4. /\ ~asserted' /\ ref[it] = One(Held(it)) + One(Queued(it))
        /\ \A p \in Ops : ref'[p] =
             IF p = it \/ (Last(it) /\ p = response[it]) THEN ref[p] - 1
             ELSE ref[p]
        /\ \A p \in Ops : response'[p] =
             IF Last(it) /\ p = it THEN None ELSE response[p]
        /\ \A p \in Ops : Attached(p)' <=>
             (Attached(p) /\ ~(Last(it) /\ p = response[it]))
    BY <1>1, <1>3, UnrefRequest
  <1>5. \A p \in Ops : /\ Held(p)' <=> Held(p)
                       /\ Waits(p)' <=> (Waits(p) /\ p # it)
                       /\ Received(p)' <=> Received(p)
    BY <1>1, <1>3 DEF Held, Waits, InHand, Received
  <1>6. \A d \in Clients : pc[d] = "queue" => cop[d] # it
    BY <1>3 DEF HoldInv, Unqueued
  <1>7. \A p \in Ops : Queued(p)' <=> (Queued(p) /\ p # it)
    BY <1>1, <1>5, <1>6 DEF Queued
  <1>8. Last(it) <=> ~Held(it) /\ response[it] # None
    BY <1>3, <1>4 DEF Last, One
  <1>9. \A p \in Ops : /\ Sent(p)' => Sent(p)
                       /\ Sent(p) /\ (p = it => Held(it)) => Sent(p)'
                       /\ Came(p)' => Came(p)
    BY <1>4, <1>5 DEF Sent, Came
  <1>10. \A d \in Clients : Unqueued(d)' <=> Unqueued(d)
    BY <1>1 DEF Unqueued
  <1>11. LinkUp'
    BY <1>1 DEF LinkUp
  <1>12. HoldInv'
    <2>1. \A d \in Clients : Unqueued(d) => cop[d] \in Ops
      BY DEF TypeInv, ClientInv, Unqueued
    <2> QED BY <1>1, <1>5, <1>10, <2>1 DEF HoldInv
  <1>13. FifoInv'
    BY <1>1 DEF FifoInv
  <1>14. RoleInv'
    BY <1>9 DEF RoleInv
  <1>15. ResponseInv'
    <2>1. \A p \in Ops : Came(p)' => response'[p] = None
      BY <1>4, <1>9 DEF ResponseInv
    <2>2. \A p \in Ops : response'[p] # None =>
            /\ response[p] # None /\ response'[p] = response[p]
            /\ p = it => Held(it)
      BY <1>4, <1>8
    <2>3. \A p \in Ops : response'[p] # None =>
            /\ Sent(p)' /\ p \notin Range(tx_fifo') /\ w' # "attach"
      BY <1>1, <1>9, <2>2 DEF ResponseInv
    <2>4. \A p \in Ops : response'[p] # None =>
            \A d \in Clients : Unqueued(d)' => cop'[d] # p
      BY <1>1, <1>10, <2>2 DEF ResponseInv
    <2>5. \A p, q \in Ops :
            response'[p] = response'[q] /\ response'[p] # None => p = q
      BY <2>2 DEF ResponseInv
    <2>6. \A p \in Ops : p \in Range(rx_fifo') => ~Attached(p)'
      BY <1>1, <1>4 DEF ResponseInv
    <2>7. wop' \in Ops => w' = "free"
      BY <1>1, GreybusAssumption
    <2> QED BY <2>1, <2>3, <2>4, <2>5, <2>6, <2>7 DEF ResponseInv
  <1>16. RefInv'
    <2>1. response[it] # None => response[it] \in Ops /\ Attached(response[it])
      BY <1>1, <1>2 DEF Attached
    <2>2. ASSUME NEW p \in Ops
          PROVE  ref'[p] = One(Held(p)') + One(Queued(p)')
                           + One(Received(p)') + One(Attached(p)')
      <3>1. CASE p = it
        <4>1. ~Received(it) /\ ~Attached(it)
          BY <1>1, <1>3 DEF RoleInv, Came
        <4> QED BY <1>3, <1>4, <1>5, <1>7, <3>1, <4>1 DEF One
      <3>2. CASE p # it /\ Last(it) /\ p = response[it]
        <4>1. Attached(p) /\ ~Attached(p)'
          BY <1>4, <2>1, <3>2 DEF Last
        <4>2. ref'[p] = ref[p] - 1
          BY <1>4, <3>2
        <4> QED BY <1>5, <1>7, <3>2, <4>1, <4>2 DEF RefInv, One
      <3>3. CASE p # it /\ ~(Last(it) /\ p = response[it])
        <4>1. ref'[p] = ref[p] /\ (Attached(p)' <=> Attached(p))
          BY <1>4, <3>3
        <4> QED BY <1>5, <1>7, <3>3, <4>1 DEF RefInv, One
      <3> QED BY <3>1, <3>2, <3>3
    <2> QED BY <1>4, <2>2 DEF RefInv
  <1> QED BY <1>11, <1>12, <1>13, <1>14, <1>15, <1>16

\* The worker is done with the message it took from rx_fifo.
LEMMA RolesFreeReceived ==
    ASSUME TypeInv, RolesInv, FreeReceived
    PROVE  RolesInv'
  <1> USE DEF RolesInv
  <1>1. /\ w = "free" /\ w' = "down" /\ wop \in Ops /\ wop' = None
        /\ gb_operation_unref(wop)
        /\ UNCHANGED <<tx_fifo, rx_fifo, connected, pc, cop, it>>
    BY DEF TypeInv, WorkerInv, FreeReceived, Goto, fifos, link, client
  <1>2. ref \in [Ops -> Nat] /\ response \in [Ops -> Ops \cup {None}]
    BY DEF TypeInv, TypeOK
  <1>3. Received(wop) /\ Came(wop) /\ response[wop] = None
    BY <1>1 DEF Received, Came, ResponseInv
  <1>4. ref[wop] > 0
    <2>1. ref[wop] = One(Held(wop)) + One(Queued(wop)) + 1 + One(Attached(wop))
      BY <1>1, <1>3 DEF RefInv, One
    <2> QED BY <2>1 DEF One
  <1>5. /\ response' = response
        /\ \A p \in Ops : ref'[p] = IF p = wop THEN ref[p] - 1 ELSE ref[p]
    BY <1>1, <1>2, <1>3, <1>4 DEF gb_operation_unref
  <1>6. ~asserted'
    <2>1. asserted' = (ref[wop] = 0 \/ (Last(wop) /\ ref[response[wop]] = 0))
      BY <1>1, Zenon DEF gb_operation_unref, Last
    <2>2. ref[wop] # 0
      BY <1>4
    <2> QED BY <1>3, <2>1, <2>2, Zenon DEF Last
  <1>7. wop \notin Range(rx_fifo)
    BY <1>1 DEF FifoInv
  <1>8. \A p \in Ops : /\ Held(p)' <=> Held(p)
                       /\ Waits(p)' <=> Waits(p)
                       /\ Queued(p)' <=> Queued(p)
                       /\ Received(p)' <=> (Received(p) /\ p # wop)
                       /\ Attached(p)' <=> Attached(p)
    BY <1>1, <1>5, <1>7, GreybusAssumption DEF Held, Waits, InHand, Queued,
       Received, Attached
  <1>9. \A p \in Ops : (Sent(p)' <=> Sent(p)) /\ (Came(p)' => Came(p))
    BY <1>8 DEF Sent, Came
  <1>10. \A d \in Clients : Unqueued(d)' <=> Unqueued(d)
    BY <1>1 DEF Unqueued
  <1>11. LinkUp'
    BY <1>1 DEF LinkUp
  <1>12. HoldInv'
    <2>1. \A d \in Clients : Unqueued(d) => cop[d] \in Ops
      BY DEF TypeInv, ClientInv, Unqueued
    <2> QED BY <1>1, <1>8, <1>10, <2>1 DEF HoldInv
  <1>13. FifoInv'
    BY <1>1, GreybusAssumption DEF FifoInv
  <1>14. RoleInv'
    BY <1>9 DEF RoleInv
  <1>15. ResponseInv'
    BY <1>1, <1>5, <1>8, <1>9, <1>10, GreybusAssumption DEF ResponseInv
  <1>16. RefInv'
    BY <1>3, <1>5, <1>6, <1>8 DEF RefInv, One
  <1> QED BY <1>11, <1>12, <1>13, <1>14, <1>15, <1>16

\* The node that follows one of tx_fifo is another one of it, or its head.
LEMMA NextNodeOn ==
    ASSUME TypeInv, IsInjective(tx_fifo), NEW o \in Range(tx_fifo) \cup {End}
    PROVE  /\ NextNode(o) \in Range(tx_fifo) \cup {End}
           /\ o \in Ops => NextNode(o) # o
  <1> DEFINE ring == <<End>> \o tx_fifo
             n == Len(tx_fifo)
             i == IndexOf(ring, o)
  <1>1. tx_fifo \in Seq(Ops)
    BY DEF TypeInv, TypeOK
  <1>2. /\ n \in Nat /\ ring \in Seq(Ops \cup {End}) /\ Len(ring) = n + 1
        /\ DOMAIN ring = 1..(n + 1)
        /\ \A j \in 1..(n + 1) : ring[j] = IF j = 1 THEN End ELSE tx_fifo[j - 1]
    BY <1>1
  <1>3. /\ DOMAIN tx_fifo = 1..n /\ \A j \in 1..n : tx_fifo[j] # End
        /\ \A j, k \in 1..n : tx_fifo[j] = tx_fifo[k] => j = k
    BY <1>1, GreybusAssumption DEF IsInjective
  <1>4. \A j \in 1..n : tx_fifo[j] \in Range(tx_fifo)
    BY <1>3 DEF Range
  <1>5. PICK j \in 1..(n + 1) : ring[j] = o
    <2>1. CASE o = End
      BY <1>2, <2>1
    <2>2. CASE o # End
      <3>1. PICK k \in 1..n : tx_fifo[k] = o
        BY <1>3, <2>2 DEF Range
      <3>2. k + 1 \in 1..(n + 1) /\ ring[k + 1] = o
        BY <1>2, <3>1
      <3> QED BY <3>2
    <2> QED BY <2>1, <2>2
  <1>6. o \in Range(ring)
    BY <1>2, <1>5 DEF Range
  <1>7. i \in 1..(n + 1) /\ ring[i] = o
    BY <1>2, <1>5 DEF IndexOf
  <1>8. NextNode(o) = IF i = n + 1 THEN End ELSE ring[i + 1]
    BY <1>2, <1>6 DEF NextNode
  <1> HIDE DEF ring, i, n
  <1>9. i # n + 1 => i \in 1..n /\ ring[i + 1] = tx_fifo[i]
    BY <1>2, <1>7
  <1>10. NextNode(o) \in Range(tx_fifo) \cup {End}
    BY <1>4, <1>8, <1>9
  <1>11. ASSUME o \in Ops PROVE NextNode(o) # o
    <2>1. i # 1 /\ i - 1 \in 1..n /\ o = tx_fifo[i - 1]
      BY <1>2, <1>7, <1>11, GreybusAssumption
    <2>2. CASE i = n + 1
      BY <1>8, <1>11, <2>2, GreybusAssumption
    <2>3. CASE i # n + 1
      BY <1>2, <1>3, <1>7, <1>8, <1>9, <2>1, <2>3
    <2> QED BY <2>2, <2>3
  <1> QED BY <1>10, <1>11

\* Only the worker takes nodes off tx_fifo, and never the one it goes to.
LEMMA WalkStep ==
    TypeInv /\ RolesInv /\ WalkInv /\ [Next]_vars => WalkInv'
  <1> SUFFICES ASSUME TypeInv, RolesInv, WalkInv, [Next]_vars PROVE WalkInv'
    OBVIOUS
  <1> USE DEF WalkInv, WalkOnList
  <1>1. tx_fifo \in Seq(Ops) /\ IsInjective(tx_fifo)
    BY DEF TypeInv, TypeOK, RolesInv, FifoInv
  <1>2. CASE UNCHANGED <<tx_fifo, w, it, nx>>
    BY <1>2
  <1>3. ASSUME NEW c \in Clients, ClientStep(c) PROVE WalkInv'
    <2>1. CASE Queue(c)
      <3>1. UNCHANGED <<w, it, nx>> /\ tx_fifo' = Append(tx_fifo, cop[c])
        BY <2>1 DEF Queue, worker
      <3>2. cop[c] \in Ops
        BY <2>1 DEF TypeInv, ClientInv, Queue
      <3>3. Range(tx_fifo') = Range(tx_fifo) \cup {cop[c]}
        BY <1>1, <3>1, <3>2, AppendOnce
      <3> QED BY <3>1, <3>3
    <2>2. ~SendFailed(c)
      BY DEF RolesInv, LinkUp, SendFailed
    <2>3. CASE Create(c) \/ Prepare(c) \/ Send(c) \/ Wait(c) \/ Destroy(c)
      BY <1>2, <2>3 DEF Create, Prepare, Send, Wait, Destroy, fifos, worker
    <2> QED BY <1>3, <2>1, <2>2, <2>3 DEF ClientStep
  <1>4. CASE First
    <2>1. it' = NextNode(End) /\ w' = "next" /\ UNCHANGED tx_fifo
      BY <1>4 DEF First, Goto, fifos
    <2>2. NextNode(End) \in Range(tx_fifo) \cup {End}
      BY <1>1, NextNodeOn
    <2> QED BY <2>1, <2>2
  <1>5. CASE ReadNext
    <2>1. /\ w = "next" /\ w' = "test" /\ nx' = NextNode(it)
          /\ UNCHANGED <<tx_fifo, it>>
      BY <1>5 DEF ReadNext, Goto, fifos
    <2>2. it \in Range(tx_fifo) \cup {End}
      BY <2>1
    <2>3. /\ NextNode(it) \in Range(tx_fifo) \cup {End}
          /\ it \in Ops => NextNode(it) # it
      BY <1>1, <2>2, NextNodeOn
    <2> QED BY <2>1, <2>2, <2>3
  <1>6. CASE Advance
    BY <1>6 DEF Advance, Goto, fifos
  <1>7. CASE Test
    BY <1>7 DEF Test, Goto, fifos
  <1>8. CASE CleanDel \/ ResponseDel
    <2>1. /\ w = "del" /\ w' \in {"call", "attach"}
          /\ tx_fifo' = Unlink(tx_fifo, it) /\ UNCHANGED <<it, nx>>
      BY <1>8 DEF CleanDel, ResponseDel, Goto
    <2>2. it \in Ops /\ nx # it
      BY <2>1 DEF TypeInv, WorkerInv
    <2>3. Range(tx_fifo') = Range(tx_fifo) \ {it}
      BY <1>1, <2>1, UnlinkOnce
    <2> QED BY <2>1, <2>2, <2>3
  <1>9. CASE Attach \/ Callback \/ Unref
    BY <1>9 DEF Attach, Callback, Unref, Goto, fifos
  <1>10. CASE Down \/ Take \/ ProcessRequest \/ Update \/ FreeReceived
    BY <1>10 DEF Down, Take, ProcessRequest, Update, FreeReceived, Goto, fifos
  <1>11. CASE Interrupt
    BY <1>2, <1>11 DEF Interrupt, RxResponse, RxRequest, Receive,
       gb_operation_timeout, Connect, fifos, worker
  <1>12. CASE UNCHANGED vars
    BY <1>2, <1>12 DEF vars, fifos, worker
  <1> QED BY <1>3, <1>4, <1>5, <1>6, <1>7, <1>8, <1>9, <1>10, <1>11, <1>12
          DEF Next, WorkerStep

\* Every step of a client, of the worker and of an interrupt.
LEMMA RolesStep ==
    TypeInv /\ RolesInv /\ WalkInv /\ [Next]_vars => RolesInv'
  <1> SUFFICES ASSUME TypeInv, RolesInv, WalkInv, [Next]_vars PROVE RolesInv'
    OBVIOUS
  <1>1. IsInjective(rx_fifo) /\ rx_fifo \in Seq(Ops \cup {Timeout})
    BY DEF TypeInv, TypeOK, RolesInv, FifoInv
  <1>2. ASSUME NEW c \in Clients, ClientStep(c) PROVE RolesInv'
    <2>1. ~SendFailed(c) /\ connected
      BY DEF RolesInv, LinkUp, SendFailed
    <2>2. CASE Send(c) \/ Wait(c)
      <3>1. /\ UNCHANGED <<ref, response, tx_fifo, rx_fifo, cop, asserted,
                           connected, w, wop, it>>
            /\ pc[c] \in {"send", "wait"}
            /\ \/ pc' = [pc EXCEPT ![c] = "wait"]
               \/ pc' = [pc EXCEPT ![c] = "destroy"]
        BY <2>1, <2>2 DEF Send, Wait, opvars, fifos, link, worker
      <3>2. \A d \in Clients :
               \/ pc'[d] = pc[d]
               \/ /\ pc[d] \notin {"idle", "prepare", "queue"}
                  /\ pc'[d] \notin {"idle", "prepare", "queue", "failed"}
        BY <3>1 DEF TypeInv, TypeOK
      <3>3. IsInjective(rx_fifo')
        BY <1>1, <3>1
      <3> QED BY <3>1, <3>2, <3>3, RolesFrame
    <2> QED BY <1>2, <2>1, <2>2, RolesCreate, RolesPrepare, RolesQueue,
               RolesDestroy DEF ClientStep
  <1>3. CASE Down \/ ProcessRequest \/ First \/ ReadNext \/ Advance \/ Test
             \/ Callback
    <2>1. /\ UNCHANGED <<ref, response, tx_fifo, rx_fifo, cop, asserted,
                         connected, pc, wop>>
          /\ w' \in {"attach", "call", "unref"} =>
               w = "call" /\ w' = "unref" /\ it' = it
          /\ w \in {"attach", "call", "unref"} => w' = "unref"
          /\ w \notin {"unref", "free"}
          /\ w = "call" => w' = "unref"
      BY <1>3 DEF Down, ProcessRequest, First, ReadNext, Advance, Test,
         Callback, Goto, opvars, fifos, link, client
    <2>2. IsInjective(rx_fifo')
      BY <1>1, <2>1
    <2> QED BY <2>1, <2>2, RolesFrame
  <1>4. CASE Update
    <2>1. /\ UNCHANGED <<ref, response, tx_fifo, rx_fifo, cop, asserted,
                         connected, pc, it>>
          /\ w = "update" /\ w' = "down" /\ wop = Timeout /\ wop' = None
      BY <1>4 DEF TypeInv, WorkerInv, Update, Goto, opvars, fifos, link, client
    <2>2. IsInjective(rx_fifo')
      BY <1>1, <2>1
    <2>3. \A o \in Ops : wop' = o <=> wop = o
      BY <2>1, GreybusAssumption
    <2>4. wop \notin Ops
      BY <2>1, GreybusAssumption
    <2> QED BY <2>1, <2>2, <2>3, <2>4, RolesFrame
  <1>5. CASE gb_operation_timeout
    <2>1. /\ UNCHANGED <<ref, response, tx_fifo, cop, asserted, connected, pc,
                         w, wop, it>>
      BY <1>5 DEF gb_operation_timeout, link, client, worker
    <2>2. /\ IsInjective(rx_fifo')
          /\ \A o \in Ops : o \in Range(rx_fifo') <=> o \in Range(rx_fifo)
      <3>1. CASE Timeout \in Range(rx_fifo)
        BY <1>1, <1>5, <3>1 DEF gb_operation_timeout
      <3>2. CASE Timeout \notin Range(rx_fifo)
        <4>1. rx_fifo' = Append(rx_fifo, Timeout)
          BY <1>5, <3>2 DEF gb_operation_timeout
        <4>2. /\ Range(rx_fifo') = Range(rx_fifo) \cup {Timeout}
              /\ IsInjective(rx_fifo')
          BY <1>1, <3>2, <4>1, AppendOnce
        <4> QED BY <4>2, GreybusAssumption
      <3> QED BY <3>1, <3>2
    <2> QED BY <2>1, <2>2, RolesFrame
  <1>6. CASE RxResponse \/ RxRequest
    BY <1>6, RolesReceive DEF RxResponse, RxRequest
  <1>7. ~Connect
    BY DEF RolesInv, LinkUp, Connect
  <1>8. CASE UNCHANGED vars
    <2>1. UNCHANGED <<ref, response, tx_fifo, rx_fifo, cop, asserted,
                      connected, pc, wop, it, w>>
      BY <1>8 DEF vars, opvars, fifos, link, client, worker
    <2> QED BY <2>1, RolesQuiet
  <1> QED BY <1>2, <1>3, <1>4, <1>5, <1>6, <1>7, <1>8, RolesTake, RolesDel,
             RolesAttach, RolesUnref, RolesFreeReceived
          DEF Next, WorkerStep, Interrupt

\* The roles and counts at the start.
LEMMA CountInit == ASSUME AlwaysConnected PROVE Init => CountInv
  <1> SUFFICES ASSUME Init PROVE CountInv
    OBVIOUS
  <1>1. TypeInv
    BY TypeInit
  <1>2. /\ tx_fifo = <<>> /\ rx_fifo = <<>> /\ w = "down" /\ wop = None
        /\ it = End /\ ~asserted /\ ref = [o \in Ops |-> 0]
        /\ response = [o \in Ops |-> None]
        /\ pc = [c \in Clients |-> "idle"] /\ cop = [c \in Clients |-> None]
    BY DEF Init
  <1>3. connected
    BY DEF Init, AlwaysConnected
  <1>4. /\ Range(tx_fifo) = {} /\ Range(rx_fifo) = {}
        /\ IsInjective(tx_fifo) /\ IsInjective(rx_fifo)
    BY <1>2 DEF Range, IsInjective
  <1>5. \A o \in Ops : /\ ~Held(o) /\ ~Waits(o) /\ ~Queued(o)
                       /\ ~Received(o) /\ ~Attached(o)
    BY <1>2, <1>4, GreybusAssumption DEF Held, Waits, InHand, Queued, Received,
       Attached
  <1>6. RolesInv
    <2>1. LinkUp
      BY <1>2, <1>3 DEF LinkUp
    <2>2. HoldInv
      BY <1>2 DEF HoldInv, Unqueued
    <2>3. FifoInv
      BY <1>2, <1>4 DEF FifoInv
    <2>4. RoleInv
      BY <1>5 DEF RoleInv, Sent
    <2>5. ResponseInv
      BY <1>2, <1>4, GreybusAssumption DEF ResponseInv
    <2>6. RefInv
      BY <1>2, <1>5 DEF RefInv, One
    <2> QED BY <2>1, <2>2, <2>3, <2>4, <2>5, <2>6 DEF RolesInv
  <1>7. WalkInv
    BY <1>2 DEF WalkInv, WalkOnList
  <1> QED BY <1>1, <1>6, <1>7 DEF CountInv

\* Every step keeps the roles and the counts.
LEMMA CountStep == CountInv /\ [Next]_vars => CountInv'
  BY TypeStep, RolesStep, WalkStep DEF CountInv

\* A set with at most one element.
LEMMA CardinalityOne ==
    ASSUME NEW S, \A x, y \in S : x = y
    PROVE  Cardinality(S) = One(S # {})
  <1>1. CASE S = {}
    BY <1>1, FS_EmptySet DEF One
  <1>2. CASE S # {}
    <2>1. PICK x : x \in S
      BY <1>2
    <2>2. S = {x}
      BY <2>1
    <2>3. Cardinality({x}) = 1
      BY FS_Singleton
    <2> QED BY <1>2, <2>2, <2>3 DEF One
  <1> QED BY <1>1, <1>2

\* What they say of the lists, the references and the walk.
LEMMA CountImplies ==
    CountInv => LinkedOnce /\ RefExact /\ WalkOnList /\ RefAsserted
  <1> SUFFICES ASSUME CountInv
               PROVE  LinkedOnce /\ RefExact /\ WalkOnList /\ RefAsserted
    OBVIOUS
  <1> USE DEF CountInv, RolesInv
  <1>1. LinkedOnce
    <2>1. \A o \in Range(tx_fifo) : o \in Ops
      BY RangeAt DEF TypeInv, TypeOK
    <2> QED BY <2>1 DEF LinkedOnce, FifoInv, RoleInv, Sent, Came, Waits,
                        Received
  <1>2. RefExact
    <2> SUFFICES ASSUME NEW o \in Ops
                 PROVE
        ref[o] = Cardinality({c \in Clients : cop[c] = o})
               + Cardinality({c \in Clients : cop[c] = o /\ pc[c] = "queue"})
               + (IF o \in Range(tx_fifo) \/ InHand(o) THEN 1 ELSE 0)
               + (IF o \in Range(rx_fifo) \/ wop = o THEN 1 ELSE 0)
               + Cardinality({p \in Ops : response[p] = o})
      BY DEF RefExact
    <2> DEFINE A == {c \in Clients : cop[c] = o}
               B == {c \in Clients : cop[c] = o /\ pc[c] = "queue"}
               D == {p \in Ops : response[p] = o}
    <2>1. o # None
      BY GreybusAssumption
    <2>2. /\ \A x, y \in A : x = y
          /\ \A x, y \in B : x = y
          /\ \A x, y \in D : x = y
      BY <2>1 DEF HoldInv, ResponseInv
    <2>3. /\ A # {} <=> Held(o)
          /\ D # {} <=> Attached(o)
          /\ Queued(o) <=> Waits(o) \/ B # {}
          /\ ~(Waits(o) /\ B # {})
      BY DEF Held, Attached, Queued, HoldInv, Unqueued
    <2> HIDE DEF A, B, D
    <2>4. /\ Cardinality(A) = One(A # {}) /\ Cardinality(B) = One(B # {})
          /\ Cardinality(D) = One(D # {})
      BY <2>2, CardinalityOne
    <2>5. One(Queued(o)) = One(B # {}) + One(Waits(o))
      BY <2>3 DEF One
    <2>6. ref[o] = One(Held(o)) + One(Queued(o)) + One(Received(o))
                   + One(Attached(o))
      BY DEF RefInv
    <2>7. /\ One(Waits(o)) = (IF o \in Range(tx_fifo) \/ InHand(o) THEN 1 ELSE 0)
          /\ One(Received(o)) = (IF o \in Range(rx_fifo) \/ wop = o THEN 1 ELSE 0)
          /\ One(Held(o)) = Cardinality(A) /\ One(Attached(o)) = Cardinality(D)
      BY <2>3, <2>4 DEF One, Waits, Received
    <2>8. ref[o] = Cardinality(A) + Cardinality(B) + One(Waits(o))
                   + One(Received(o)) + Cardinality(D)
      BY <2>3, <2>4, <2>5, <2>6 DEF One
    <2> QED BY <2>7, <2>8 DEF A, B, D
  <1>3. WalkOnList /\ RefAsserted
    BY DEF WalkInv, RefInv, RefAsserted
  <1> QED BY <1>1, <1>2, <1>3

\* On a cport that stays connected no operation is linked twice, on one list
\* or on both: an object that a list holds is never handed out again.
THEOREM OperationsLinkedOnce ==
    ASSUME AlwaysConnected PROVE Spec => []LinkedOnce
  <1>1. Init => CountInv
    BY CountInit
  <1> QED BY <1>1, CountStep, CountImplies, PTL DEF Spec

\* There the reference count of every operation is the number of those that
\* hold it, so none is freed while it is used and none is lost, whatever
\* answers, time-outs and clients that give up come in whichever order.
THEOREM ReferencesExact == ASSUME AlwaysConnected PROVE Spec => []RefExact
  <1>1. Init => CountInv
    BY CountInit
  <1> QED BY <1>1, CountStep, CountImplies, PTL DEF Spec

\* There RET_IF_FAIL never finds a reference count of zero: it takes a send
\* that fails to drop a reference twice.
THEOREM AssertionHolds == ASSUME AlwaysConnected PROVE Spec => []RefAsserted
  <1>1. Init => CountInv
    BY CountInit
  <1> QED BY <1>1, CountStep, CountImplies, PTL DEF Spec

\* There the worker's walk, without the lock, of the list that clients add to
\* only ever follows nodes that are on it.
THEOREM WalkStaysOnList == ASSUME AlwaysConnected PROVE Spec => []WalkOnList
  <1>1. Init => CountInv
    BY CountInit
  <1> QED BY <1>1, CountStep, CountImplies, PTL DEF Spec

-----------------------------------------------------------------------------
(* Ids *)

(* Every id is what its draw leaves modulo IdSpace, in an operation as on  *)
(* the wire.                                                               *)
IdInv ==
    /\ \A o \in Ops : id[o] = draw[o] % IdSpace
    /\ \A m \in wire : m[1] = m[2] % IdSpace

\* What the worker has matched, and what it has attached.
MatchInv ==
    /\ wop \in Ops /\ w \in {"del", "attach"} => id[it] = id[wop]
    /\ \A o \in Ops : response[o] # None => id[response[o]] = id[o]

\* What is used in any way is not in op_slab.
LEMMA UsedNotFree ==
    ASSUME RolesInv, NEW o \in Ops,
           \/ Held(o) \/ Waits(o) \/ Received(o) \/ Attached(o)
           \/ response[o] # None
    PROVE  o \notin Free
  BY FreeUnused

\* A new operation is written over an object that was free, and no other.
LEMMA UsedKept ==
    ASSUME TypeInv, [Next]_vars, NEW o \in Ops, o \notin Free
    PROVE  ser'[o] = ser[o] /\ kind'[o] = kind[o]
  <1>1. ASSUME NEW c \in Clients, Create(c)
        PROVE  ser'[o] = ser[o] /\ kind'[o] = kind[o]
    BY <1>1, SupplyFree DEF TypeInv, TypeOK, Create
  <1>2. ASSUME NEW k, NEW n, NEW s, Receive(k, n, s)
        PROVE  ser'[o] = ser[o] /\ kind'[o] = kind[o]
    <2>1. CASE Free = {}
      BY <1>2, <2>1 DEF Receive
    <2>2. CASE Free # {}
      <3>1. PICK p \in Free : kind' = [kind EXCEPT ![p] = k] /\ UNCHANGED ser
        BY <1>2, <2>2, SupplyFree DEF Receive
      <3> QED BY <3>1 DEF TypeInv, TypeOK
    <2> QED BY <2>1, <2>2
  <1>3. ASSUME NEW c \in Clients, ClientStep(c), ~Create(c)
        PROVE  UNCHANGED <<ser, kind>>
    BY <1>3 DEF ClientStep, Prepare, Queue, Send, SendFailed, Wait, Destroy,
                opvars
  <1>4. WorkerStep => UNCHANGED <<ser, kind>>
    BY DEF WorkerStep, Down, Take, ProcessRequest, First, ReadNext, Advance,
       Test, CleanDel, ResponseDel, Attach, Callback, Unref, Update,
       FreeReceived, opvars
  <1>5. gb_operation_timeout \/ Connect \/ UNCHANGED vars
        => UNCHANGED <<ser, kind>>
    BY DEF gb_operation_timeout, Connect, vars, opvars
  <1>6. RxResponse \/ RxRequest => ser'[o] = ser[o] /\ kind'[o] = kind[o]
    BY <1>2 DEF RxResponse, RxRequest
  <1> QED BY <1>1, <1>3, <1>4, <1>5, <1>6 DEF Next, Interrupt

\* Draws that leave the same id are equal or a whole round apart.
LEMMA SameId ==
    ASSUME NEW a \in Nat, NEW b \in Nat, a % IdSpace = b % IdSpace
    PROVE  a = b \/ a >= b + IdSpace \/ b >= a + IdSpace
  <1>1. IdSpace \in Nat /\ IdSpace > 1
    BY GreybusAssumption
  <1>2. PICK x \in Int : x = a \div IdSpace
    BY <1>1
  <1>3. PICK y \in Int : y = b \div IdSpace
    BY <1>1
  <1>4. PICK r \in Int : r = a % IdSpace
    BY <1>1
  <1>5. a = IdSpace * x + r
    BY <1>1, <1>2, <1>4
  <1>6. b = IdSpace * y + r
    BY <1>1, <1>3, <1>4
  <1>7. \A u, v \in Int : u > v => IdSpace * u >= IdSpace * v + IdSpace
    <2> SUFFICES ASSUME NEW u \in Int, NEW v \in Int, u > v
                 PROVE  IdSpace * u >= IdSpace * v + IdSpace
      OBVIOUS
    <2>1. PICK k \in Nat : u = v + 1 + k
      <3>1. u - v - 1 \in Nat /\ u = v + 1 + (u - v - 1)
        OBVIOUS
      <3> QED BY <3>1
    <2>2. IdSpace * (v + 1 + k) = IdSpace * v + IdSpace + IdSpace * k
      BY <1>1
    <2>3. IdSpace * k >= 0
      BY <1>1
    <2> QED BY <1>1, <2>1, <2>2, <2>3
  <1>8. CASE x = y
    BY <1>5, <1>6, <1>8
  <1>9. CASE x > y
    BY <1>1, <1>5, <1>6, <1>7, <1>9
  <1>10. CASE y > x
    BY <1>1, <1>5, <1>6, <1>7, <1>10
  <1> QED BY <1>8, <1>9, <1>10

\* Ids are drawn, received and sent with what they were drawn from.
LEMMA IdStep == CountInv /\ IdInv /\ [Next]_vars => IdInv'
  <1> SUFFICES ASSUME CountInv, IdInv, [Next]_vars PROVE IdInv'
    OBVIOUS
  <1> USE DEF CountInv
  <1>1. /\ id \in [Ops -> 0..IdSpace - 1] /\ draw \in [Ops -> Nat]
        /\ wire \subseteq (0..IdSpace - 1) \X Nat /\ request_id \in Nat
    BY DEF TypeInv, TypeOK
  <1>2. ASSUME NEW c \in Clients, Prepare(c) PROVE IdInv'
    <2>1. /\ cop[c] \in Ops /\ UNCHANGED wire
          /\ id' = [id EXCEPT ![cop[c]] = (request_id + 1) % IdSpace]
          /\ draw' = [draw EXCEPT ![cop[c]] = request_id + 1]
      BY <1>2 DEF Prepare, TypeInv, ClientInv, link
    <2>2. PICK n : n = (request_id + 1) % IdSpace
      OBVIOUS
    <2> QED BY <1>1, <2>1, <2>2 DEF IdInv
  <1>3. ASSUME NEW c \in Clients, Send(c) PROVE IdInv'
    <2>1. /\ cop[c] \in Ops /\ UNCHANGED <<id, draw>>
          /\ wire' \subseteq wire \cup {<<id[cop[c]], draw[cop[c]]>>}
      BY <1>3 DEF Send, TypeInv, ClientInv, opvars
    <2>2. id[cop[c]] = draw[cop[c]] % IdSpace
      BY <2>1 DEF IdInv
    <2> QED BY <2>1, <2>2 DEF IdInv
  <1>4. ASSUME NEW k, NEW n, NEW d \in Nat, n = d % IdSpace, Receive(k, n, d),
               wire' \subseteq wire
        PROVE  IdInv'
    <2>1. CASE Free = {}
      BY <1>4, <2>1 DEF Receive, IdInv
    <2>2. CASE Free # {}
      <3>1. PICK o \in Free : /\ id' = [id EXCEPT ![o] = n]
                              /\ draw' = [draw EXCEPT ![o] = d]
        BY <1>4, <2>2, SupplyFree DEF Receive
      <3>2. \A p \in Ops : /\ id'[p] = IF p = o THEN n ELSE id[p]
                           /\ draw'[p] = IF p = o THEN d ELSE draw[p]
        BY <1>1, <3>1
      <3> QED BY <1>4, <3>2 DEF IdInv
    <2> QED BY <2>1, <2>2
  <1>5. CASE RxResponse
    <2>1. PICK m \in wire : /\ Receive("response", m[1], m[2])
                            /\ wire' = wire \ {m}
      BY <1>5 DEF RxResponse
    <2>2. m[2] \in Nat /\ m[1] = m[2] % IdSpace
      BY <1>1 DEF IdInv
    <2> QED BY <1>4, <2>1, <2>2
  <1>6. CASE RxRequest
    <2>1. Receive("request", 0, 0) /\ UNCHANGED wire
      BY <1>6 DEF RxRequest
    <2>2. 0 = 0 % IdSpace
      BY GreybusAssumption
    <2> QED BY <1>4, <2>1, <2>2
  <1>7. CASE UNCHANGED <<id, draw, wire>>
    BY <1>7 DEF IdInv
  <1>8. ASSUME NEW c \in Clients, ClientStep(c), ~Prepare(c), ~Send(c)
        PROVE  UNCHANGED <<id, draw, wire>>
    BY <1>8 DEF ClientStep, Create, Queue, SendFailed, Wait, Destroy, opvars,
       link
  <1>9. WorkerStep \/ gb_operation_timeout \/ Connect \/ UNCHANGED vars
        => UNCHANGED <<id, draw, wire>>
    BY DEF WorkerStep, Down, Take, ProcessRequest, First, ReadNext, Advance,
       Test, CleanDel, ResponseDel, Attach, Callback, Unref, Update,
       FreeReceived, gb_operation_timeout, Connect, vars, opvars, link
  <1> QED BY <1>2, <1>3, <1>5, <1>6, <1>7, <1>8, <1>9 DEF Next, Interrupt

\* What waits, came in or was answered keeps its id.
LEMMA IdKept ==
    ASSUME CountInv, [Next]_vars, NEW o \in Ops,
           Waits(o) \/ Received(o) \/ Attached(o) \/ response[o] # None
    PROVE  id'[o] = id[o]
  <1> USE DEF CountInv
  <1>1. id \in [Ops -> 0..IdSpace - 1] /\ o \notin Free
    BY UsedNotFree DEF TypeInv, TypeOK
  <1>2. ASSUME NEW c \in Clients, Prepare(c) PROVE id'[o] = id[o]
    <2>1. /\ cop[c] \in Ops /\ pc[c] = "prepare"
          /\ id' = [id EXCEPT ![cop[c]] = (request_id + 1) % IdSpace]
      BY <1>2 DEF Prepare, TypeInv, ClientInv
    <2>2. cop[c] # o
      <3>1. Held(cop[c]) /\ ~Waits(cop[c])
        BY <2>1 DEF Held, RolesInv, HoldInv, Unqueued
      <3>2. ~Came(cop[c])
        BY <2>1, <3>1 DEF RolesInv, RoleInv, Sent
      <3>3. response[cop[c]] = None
        BY <2>1 DEF RolesInv, ResponseInv, Unqueued
      <3> QED BY <3>1, <3>2, <3>3 DEF Came
    <2> QED BY <1>1, <2>1, <2>2
  <1>3. ASSUME NEW k, NEW n, NEW d, Receive(k, n, d) PROVE id'[o] = id[o]
    <2>1. CASE Free = {}
      BY <1>3, <2>1 DEF Receive
    <2>2. CASE Free # {}
      <3>1. PICK p \in Free : id' = [id EXCEPT ![p] = n]
        BY <1>3, <2>2, SupplyFree DEF Receive
      <3> QED BY <1>1, <3>1
    <2> QED BY <2>1, <2>2
  <1>4. ASSUME NEW c \in Clients, ClientStep(c), ~Prepare(c)
        PROVE  UNCHANGED id
    BY <1>4 DEF ClientStep, Create, Queue, Send, SendFailed, Wait, Destroy,
       opvars
  <1>5. WorkerStep \/ gb_operation_timeout \/ Connect \/ UNCHANGED vars
        => UNCHANGED id
    BY DEF WorkerStep, Down, Take, ProcessRequest, First, ReadNext, Advance,
       Test, CleanDel, ResponseDel, Attach, Callback, Unref, Update,
       FreeReceived, gb_operation_timeout, Connect, vars, opvars
  <1>6. RxResponse \/ RxRequest => id'[o] = id[o]
    BY <1>3 DEF RxResponse, RxRequest
  <1> QED BY <1>2, <1>4, <1>5, <1>6 DEF Next, Interrupt

\* The worker matches by id, and neither id changes before the attachment.
LEMMA MatchStep ==
    CountInv /\ IdInv /\ MatchInv /\ [Next]_vars => MatchInv'
  <1> SUFFICES ASSUME CountInv, IdInv, MatchInv, [Next]_vars PROVE MatchInv'
    OBVIOUS
  <1> USE DEF CountInv
  <1>1. RolesInv /\ TypeInv /\ response \in [Ops -> Ops \cup {None}]
    BY DEF TypeInv, TypeOK
  <1>2. wop \in Ops => id'[wop] = id[wop]
    BY IdKept DEF Received
  <1>3. w \in {"del", "attach"} => it \in Ops /\ id'[it] = id[it]
    <2>1. w \in {"del", "attach"} => it \in Ops /\ Waits(it)
      BY DEF TypeInv, WorkerInv, WalkInv, Waits, InHand
    <2> QED BY <2>1, IdKept
  <1>4. \A o \in Ops : response[o] # None =>
          /\ id'[o] = id[o] /\ response[o] \in Ops
          /\ id'[response[o]] = id[response[o]]
    <2> SUFFICES ASSUME NEW o \in Ops, response[o] # None
                 PROVE  /\ id'[o] = id[o] /\ response[o] \in Ops
                        /\ id'[response[o]] = id[response[o]]
      OBVIOUS
    <2>1. response[o] \in Ops /\ Attached(response[o])
      BY <1>1 DEF Attached
    <2> QED BY <2>1, IdKept
  <1>5. CASE UNCHANGED <<w, wop, it, response>>
    BY <1>2, <1>3, <1>4, <1>5 DEF MatchInv
  <1>6. ASSUME \A o \in Ops : response'[o] \in {response[o], None}
        PROVE  \A o \in Ops : response'[o] # None =>
                  id'[response'[o]] = id'[o]
    BY <1>4, <1>6 DEF MatchInv
  <1>7. ASSUME NEW o \in Ops, gb_operation_unref(o)
        PROVE  \A p \in Ops : response'[p] \in {response[p], None}
    BY <1>1, <1>7 DEF gb_operation_unref
  <1>8. ASSUME NEW c \in Clients, ClientStep(c) PROVE MatchInv'
    <2>1. CASE Destroy(c) \/ SendFailed(c)
      <3>1. cop[c] \in Ops /\ gb_operation_unref(cop[c])
        BY <2>1 DEF Destroy, SendFailed, TypeInv, ClientInv
      <3>2. UNCHANGED <<w, wop, it>>
        BY <2>1 DEF Destroy, SendFailed, worker
      <3>3. \A o \in Ops : response'[o] # None => id'[response'[o]] = id'[o]
        BY <1>6, <1>7, <3>1
      <3> QED BY <1>2, <1>3, <3>2, <3>3 DEF MatchInv
    <2>2. CASE Create(c) \/ Prepare(c) \/ Queue(c) \/ Send(c) \/ Wait(c)
      BY <1>5, <2>2 DEF Create, Prepare, Queue, Send, Wait, worker, opvars
    <2> QED BY <1>8, <2>1, <2>2 DEF ClientStep
  <1>9. CASE Test
    <2>1. /\ w = "test" /\ UNCHANGED <<wop, it, response, id>>
          /\ w' \in {"update", "free", "del", "advance"}
          /\ w' = "del" /\ wop # Timeout => it # End /\ id[it] = id[wop]
      BY <1>9 DEF Test, Goto, opvars
    <2> QED BY <2>1, GreybusAssumption DEF MatchInv
  <1>10. CASE CleanDel \/ ResponseDel
    <2>1. /\ w = "del" /\ UNCHANGED <<wop, it, response, id>>
          /\ (w' = "call" /\ wop = Timeout) \/ w' = "attach"
      BY <1>10 DEF CleanDel, ResponseDel, Goto, opvars
    <2> QED BY <2>1, GreybusAssumption DEF MatchInv
  <1>11. CASE Attach
    <2>1. /\ w = "attach" /\ w' = "call" /\ it \in Ops /\ wop \in Ops
          /\ UNCHANGED <<wop, it, id>>
          /\ response' = [response EXCEPT ![it] = wop]
      BY <1>11 DEF Attach, Goto, TypeInv, WorkerInv
    <2>2. \A o \in Ops : response'[o] = IF o = it THEN wop ELSE response[o]
      BY <1>1, <2>1
    <2> QED BY <2>1, <2>2 DEF MatchInv
  <1>12. CASE Unref \/ FreeReceived
    <2>1. /\ UNCHANGED <<it, id>>
          /\ w' \in {"advance", "free", "down"}
          /\ w' = "advance" => wop = Timeout /\ wop' = wop
      BY <1>12 DEF Unref, FreeReceived, Goto
    <2>2. \E o \in Ops : gb_operation_unref(o)
      BY <1>12 DEF Unref, FreeReceived, TypeInv, WorkerInv
    <2>3. \A o \in Ops : response'[o] # None => id'[response'[o]] = id'[o]
      BY <1>6, <1>7, <2>2
    <2> QED BY <2>1, <2>3, GreybusAssumption DEF MatchInv
  <1>13. CASE Take
    <2>1. /\ UNCHANGED <<it, response, id>>
          /\ w' = IF wop' = Timeout \/ kind[wop'] = "response" THEN "first"
                  ELSE "request"
      BY <1>13 DEF Take, Goto, opvars
    <2> QED BY <2>1, GreybusAssumption DEF MatchInv
  <1>14. CASE Down \/ ProcessRequest \/ First \/ ReadNext \/ Advance
              \/ Callback \/ Update
    <2>1. /\ UNCHANGED <<response, id>>
          /\ w' \in Walking \cup {"attach"} =>
               w \in Walking /\ wop' = wop /\ w' \notin {"del", "attach"}
      BY <1>14 DEF Down, ProcessRequest, First, ReadNext, Advance, Callback,
         Update, Goto, Walking, opvars
    <2> QED BY <2>1 DEF MatchInv, Walking
  <1>15. CASE Interrupt \/ UNCHANGED vars
    BY <1>5, <1>15 DEF Interrupt, RxResponse, RxRequest, Receive,
       gb_operation_timeout, Connect, vars, opvars, worker
  <1> QED BY <1>8, <1>9, <1>10, <1>11, <1>12, <1>13, <1>14, <1>15
          DEF Next, WorkerStep

\* Ids and answers at the start.
LEMMA AnswersInit ==
    ASSUME AlwaysConnected PROVE Init => CountInv /\ IdInv /\ MatchInv
  <1> SUFFICES ASSUME Init PROVE CountInv /\ IdInv /\ MatchInv
    OBVIOUS
  <1>1. CountInv
    BY CountInit
  <1>2. /\ id = [o \in Ops |-> 0] /\ draw = [o \in Ops |-> 0]
        /\ w = "down" /\ response = [o \in Ops |-> None]
        /\ wire \subseteq {<<d % IdSpace, d>> :
                            d \in {e \in 1..request_id : e % IdSpace # 0}}
    BY DEF Init
  <1>3. MatchInv
    BY <1>2 DEF MatchInv
  <1>4. 0 = 0 % IdSpace
    BY GreybusAssumption
  <1>5. \A m \in wire : m[1] = m[2] % IdSpace
    <2> SUFFICES ASSUME NEW m \in wire PROVE m[1] = m[2] % IdSpace
      OBVIOUS
    <2>1. PICK d \in 1..request_id : m = <<d % IdSpace, d>>
      BY <1>2
    <2> QED BY <2>1
  <1>6. IdInv
    BY <1>2, <1>4, <1>5 DEF IdInv
  <1> QED BY <1>1, <1>3, <1>6

\* What the ids say of attached responses.
LEMMA AnswersMatchHolds == CountInv /\ IdInv /\ MatchInv => AnswersMatch
  <1> SUFFICES ASSUME CountInv, IdInv, MatchInv,
                      NEW o \in Ops, response[o] # None,
                      NEW r, r = response[o]
               PROVE  /\ ref[r] > 0
                      /\ \/ draw[r] = draw[o]
                         \/ draw[r] >= draw[o] + IdSpace
                         \/ draw[o] >= draw[r] + IdSpace
    BY DEF AnswersMatch
  <1>1. r \in Ops /\ Attached(r)
    BY DEF CountInv, TypeInv, TypeOK, Attached
  <1>2. r \notin Free
    BY <1>1, UsedNotFree DEF CountInv
  <1>3. ref[r] \in Nat /\ ref[r] # 0
    BY <1>1, <1>2 DEF Free, CountInv, TypeInv, TypeOK
  <1>4. draw[r] \in Nat /\ draw[o] \in Nat
    BY <1>1 DEF CountInv, TypeInv, TypeOK
  <1>5. draw[r] % IdSpace = draw[o] % IdSpace
    BY <1>1 DEF IdInv, MatchInv
  <1>6. \/ draw[r] = draw[o]
        \/ draw[r] >= draw[o] + IdSpace
        \/ draw[o] >= draw[r] + IdSpace
    BY <1>4, <1>5, SameId
  <1> QED BY <1>3, <1>6

\* On a cport that stays connected the response attached to a request answers
\* it, or answers a request that drew the same id a whole round of ids before
\* or after it, however often ids come round, objects are reused, and answers
\* come late, out of order or for a request that has timed out.
THEOREM AnswersAreOurs == ASSUME AlwaysConnected PROVE Spec => []AnswersMatch
  <1>1. Init => CountInv /\ IdInv /\ MatchInv
    BY AnswersInit
  <1>2. CountInv /\ IdInv /\ MatchInv /\ [Next]_vars
        => (CountInv /\ IdInv /\ MatchInv)'
    BY CountStep, IdStep, MatchStep
  <1> QED BY <1>1, <1>2, AnswersMatchHolds, PTL DEF Spec

-----------------------------------------------------------------------------
(* Completion *)

\* A request whose callback is still to be called.
Pending(o) ==
    \/ o \in Range(tx_fifo)
    \/ it = o /\ w \in {"attach", "call"}
    \/ \E c \in Clients : cop[c] = o /\ Unqueued(c)

\* Each request is one operation.
SerialInv ==
    /\ \A o \in Ops : Sent(o) => ser[o] \in 1..sends
    /\ \A o, p \in Ops : Sent(o) /\ Sent(p) /\ ser[o] = ser[p] => o = p

\* The semaphore of a synchronous request says that it was completed.
CallInv ==
    /\ \A n \in 0..MaxSends : /\ n > sends => calls[n] = 0
                              /\ n > 0 => calls[n] <= 1
    /\ \A o \in Ops : Pending(o) => calls[ser[o]] = 0
    /\ \A c \in SyncClients :
         pc[c] # "idle" /\ (sync_sem[cop[c]] > 0 \/ pc[c] = "destroy") =>
           calls[ser[cop[c]]] = 1

\* A request is nobody's but the client's that made it.
LEMMA SentStep ==
    ASSUME CountInv, [Next]_vars, \A c \in Clients : ~Create(c)
    PROVE  \A o \in Ops : Sent(o)' => Sent(o)
  <1> USE DEF CountInv
  <1>1. ASSUME NEW c \in Clients, ClientStep(c)
        PROVE  \A o \in Ops : Sent(o)' => Sent(o)
    <2>1. ~SendFailed(c)
      BY DEF RolesInv, LinkUp, SendFailed
    <2>2. CASE Queue(c)
      <3>1. /\ cop[c] \in Ops /\ tx_fifo' = Append(tx_fifo, cop[c])
            /\ UNCHANGED <<cop, w, it>>
        BY <2>2 DEF TypeInv, ClientInv, Queue, worker
      <3>2. Range(tx_fifo') = Range(tx_fifo) \cup {cop[c]}
        BY <3>1, AppendOnce DEF TypeInv, TypeOK
      <3> QED BY <3>1, <3>2 DEF Sent, Held, Waits, InHand
    <2>3. CASE Prepare(c) \/ Send(c) \/ Wait(c) \/ Destroy(c)
      <3>1. /\ UNCHANGED <<tx_fifo, w, it>>
            /\ cop' \in {cop, [cop EXCEPT ![c] = None]}
        BY <2>3 DEF Prepare, Send, Wait, Destroy, fifos, worker
      <3>2. \A o \in Ops : Held(o)' => Held(o)
        BY <3>1, GreybusAssumption DEF Held, TypeInv, TypeOK
      <3>3. \A o \in Ops : Waits(o)' => Waits(o)
        BY <3>1 DEF Waits, InHand
      <3> QED BY <3>2, <3>3 DEF Sent
    <2> QED BY <1>1, <2>1, <2>2, <2>3 DEF ClientStep
  <1>2. CASE CleanDel \/ ResponseDel
    <2>1. /\ w = "del" /\ tx_fifo' = Unlink(tx_fifo, it) /\ it' = it
          /\ UNCHANGED cop
      BY <1>2 DEF CleanDel, ResponseDel, client
    <2>2. it \in Range(tx_fifo) /\ Range(tx_fifo') = Range(tx_fifo) \ {it}
      BY <2>1, UnlinkOnce DEF TypeInv, TypeOK, RolesInv, FifoInv, WalkInv
    <2> QED BY <2>1, <2>2 DEF Sent, Held, Waits, InHand
  <1>3. CASE \/ WorkerStep /\ ~(CleanDel \/ ResponseDel)
             \/ Interrupt \/ UNCHANGED vars
    <2>1. /\ UNCHANGED <<tx_fifo, cop>>
          /\ w' \in {"attach", "call", "unref"} =>
               w \in {"attach", "call", "unref"} /\ it' = it
      BY <1>3 DEF WorkerStep, Down, Take, ProcessRequest, First, ReadNext,
         Advance, Test, Attach, Callback, Unref, Update, FreeReceived,
         Interrupt, RxResponse, RxRequest, Receive, gb_operation_timeout,
         Connect, Goto, vars, fifos, client, worker
    <2> QED BY <2>1 DEF Sent, Held, Waits, InHand
  <1> QED BY <1>1, <1>2, <1>3 DEF Next

\* Every step keeps requests apart.
LEMMA SerialStep == CountInv /\ SerialInv /\ [Next]_vars => SerialInv'
  <1> SUFFICES ASSUME CountInv, SerialInv, [Next]_vars PROVE SerialInv'
    OBVIOUS
  <1> USE DEF CountInv
  <1>1. sends \in Nat
    <2>1. sends \in 0..MaxSends /\ MaxSends \in Nat
      BY GreybusAssumption DEF TypeInv, TypeOK
    <2> QED BY <2>1
  <1>2. ASSUME NEW c \in Clients, Create(c) PROVE SerialInv'
    <2>1. PICK o \in Free : /\ ser' = [ser EXCEPT ![o] = sends + 1]
                            /\ cop' = [cop EXCEPT ![c] = o]
      BY <1>2, SupplyFree DEF Create
    <2>2. sends' = sends + 1 /\ UNCHANGED <<tx_fifo, w, it>>
      BY <1>2 DEF Create, fifos, worker
    <2>3. o \in Ops /\ ~Held(o) /\ ~Waits(o)
      BY FreeUnused
    <2>4. \A p \in Ops : ser'[p] = IF p = o THEN sends + 1 ELSE ser[p]
      BY <2>1 DEF TypeInv, TypeOK
    <2>5. \A p \in Ops : p # o /\ Sent(p)' => Sent(p)
      BY <2>1, <2>2 DEF Sent, Held, Waits, InHand, TypeInv, TypeOK
    <2>6. \A p \in Ops : Sent(p)' => ser'[p] \in 1..sends'
      BY <1>1, <2>2, <2>4, <2>5 DEF SerialInv
    <2>7. \A p \in Ops : p # o /\ Sent(p)' => ser'[p] # sends + 1
      BY <1>1, <2>4, <2>5 DEF SerialInv
    <2> QED BY <2>4, <2>5, <2>6, <2>7 DEF SerialInv
  <1>3. ASSUME \A c \in Clients : ~Create(c) PROVE SerialInv'
    <2>1. \A o \in Ops : Sent(o)' => Sent(o)
      BY <1>3, SentStep
    <2>2. \A o \in Ops : Sent(o) => ser'[o] = ser[o]
      BY UsedNotFree, UsedKept DEF Sent
    <2>3. UNCHANGED sends
      BY <1>3 DEF Next, ClientStep, Prepare, Queue, Send, SendFailed, Wait,
         Destroy, WorkerStep, Down, Take, ProcessRequest, First, ReadNext,
         Advance, Test, CleanDel, ResponseDel, Attach, Callback, Unref, Update,
         FreeReceived, Interrupt, RxResponse, RxRequest, Receive,
         gb_operation_timeout, Connect, vars, client
    <2> QED BY <2>1, <2>2, <2>3 DEF SerialInv
  <1> QED BY <1>2, <1>3

\* A pending request was sent.
LEMMA PendingSent ==
    ASSUME NEW o \in Ops, Pending(o)
    PROVE  Sent(o)
  BY DEF Pending, Sent, Held, Waits, InHand

\* A step that calls no callback and makes no request.
LEMMA CallFrame ==
    ASSUME CountInv, CallInv, [Next]_vars, UNCHANGED <<calls, sends>>,
           \A o \in Ops : Pending(o)' => Pending(o),
           \A c \in SyncClients : pc'[c] # "idle" =>
               /\ pc[c] # "idle" /\ cop'[c] = cop[c]
               /\ pc'[c] = "destroy" =>
                    pc[c] = "destroy" \/ sync_sem[cop[c]] > 0
               /\ sync_sem'[cop[c]] > 0 => sync_sem[cop[c]] > 0
    PROVE  CallInv'
  <1> USE DEF CountInv
  <1>1. \A o \in Ops : Sent(o) => ser'[o] = ser[o]
    BY UsedNotFree, UsedKept DEF Sent
  <1>2. \A o \in Ops : Pending(o) => ser'[o] = ser[o]
    BY <1>1, PendingSent
  <1>3. \A c \in SyncClients : pc[c] # "idle" =>
          cop[c] \in Ops /\ ser'[cop[c]] = ser[cop[c]]
    BY <1>1, GreybusAssumption DEF TypeInv, ClientInv, Sent, Held
  <1>4. \A n \in 0..MaxSends : /\ n > sends' => calls'[n] = 0
                               /\ n > 0 => calls'[n] <= 1
    BY DEF CallInv
  <1>5. \A o \in Ops : Pending(o)' => calls'[ser'[o]] = 0
    BY <1>2 DEF CallInv
  <1>6. \A c \in SyncClients :
          pc'[c] # "idle" /\ (sync_sem'[cop'[c]] > 0 \/ pc'[c] = "destroy") =>
            calls'[ser'[cop'[c]]] = 1
    BY <1>3 DEF CallInv
  <1> QED BY <1>4, <1>5, <1>6 DEF CallInv

\* No step but Create makes a request pending.
LEMMA PendingStep ==
    ASSUME CountInv, [Next]_vars, \A c \in Clients : ~Create(c)
    PROVE  \A o \in Ops : Pending(o)' => Pending(o)
  <1> USE DEF CountInv
  <1>1. ASSUME NEW c \in Clients, ClientStep(c)
        PROVE  \A o \in Ops : Pending(o)' => Pending(o)
    <2>1. ~SendFailed(c)
      BY DEF RolesInv, LinkUp, SendFailed
    <2>2. CASE Queue(c)
      <3>1. /\ cop[c] \in Ops /\ tx_fifo' = Append(tx_fifo, cop[c])
            /\ pc[c] = "queue" /\ pc' = [pc EXCEPT ![c] = "send"]
            /\ UNCHANGED <<cop, w, it>>
        BY <2>2 DEF TypeInv, ClientInv, Queue, worker
      <3>2. Range(tx_fifo') = Range(tx_fifo) \cup {cop[c]}
        BY <3>1, AppendOnce DEF TypeInv, TypeOK
      <3>3. \A d \in Clients : Unqueued(d)' => Unqueued(d)
        BY <3>1 DEF Unqueued, TypeInv, TypeOK
      <3>4. Unqueued(c)
        BY <3>1 DEF Unqueued
      <3> QED BY <3>1, <3>2, <3>3, <3>4 DEF Pending
    <2>3. CASE Prepare(c) \/ Send(c) \/ Wait(c) \/ Destroy(c)
      <3>1. /\ UNCHANGED <<tx_fifo, w, it>>
            /\ cop' \in {cop, [cop EXCEPT ![c] = None]}
            /\ \/ pc' = pc
               \/ pc[c] = "prepare" /\ pc' = [pc EXCEPT ![c] = "queue"]
               \/ \E l \in {"idle", "wait", "destroy", "failed"} :
                    pc' = [pc EXCEPT ![c] = l]
        BY <2>3 DEF Prepare, Send, Wait, Destroy, fifos, worker
      <3>2. \A d \in Clients : Unqueued(d)' => Unqueued(d)
        BY <3>1 DEF Unqueued, TypeInv, TypeOK
      <3>3. \A d \in Clients : cop'[d] \in {cop[d], None}
        BY <3>1 DEF TypeInv, TypeOK
      <3> QED BY <3>1, <3>2, <3>3, GreybusAssumption DEF Pending
    <2> QED BY <1>1, <2>1, <2>2, <2>3 DEF ClientStep
  <1>2. CASE CleanDel \/ ResponseDel
    <2>1. /\ w = "del" /\ tx_fifo' = Unlink(tx_fifo, it) /\ it' = it
          /\ UNCHANGED <<cop, pc>>
      BY <1>2 DEF CleanDel, ResponseDel, client
    <2>2. it \in Range(tx_fifo) /\ Range(tx_fifo') = Range(tx_fifo) \ {it}
      BY <2>1, UnlinkOnce DEF TypeInv, TypeOK, RolesInv, FifoInv, WalkInv
    <2> QED BY <2>1, <2>2 DEF Pending, Unqueued
  <1>3. CASE \/ WorkerStep /\ ~(CleanDel \/ ResponseDel)
             \/ Interrupt \/ UNCHANGED vars
    <2>1. /\ UNCHANGED <<tx_fifo, cop, pc>>
          /\ w' \in {"attach", "call"} => w \in {"attach", "call"} /\ it' = it
      BY <1>3 DEF WorkerStep, Down, Take, ProcessRequest, First, ReadNext,
         Advance, Test, Attach, Callback, Unref, Update, FreeReceived,
         Interrupt, RxResponse, RxRequest, Receive, gb_operation_timeout,
         Connect, Goto, vars, fifos, client, worker
    <2> QED BY <2>1 DEF Pending, Unqueued
  <1> QED BY <1>1, <1>2, <1>3 DEF Next

\* A new request has not been completed.
LEMMA CallCreate ==
    ASSUME CountInv, CallInv, [Next]_vars, NEW c \in Clients, Create(c)
    PROVE  CallInv'
  <1> USE DEF CountInv
  <1>1. PICK o \in Free :
          /\ ser' = [ser EXCEPT ![o] = sends + 1]
          /\ cop' = [cop EXCEPT ![c] = o]
          /\ sync_sem' = [sync_sem EXCEPT ![o] = IF c \in SyncClients THEN 0
                                                 ELSE @]
    BY SupplyFree DEF Create
  <1>2. /\ sends < MaxSends /\ sends' = sends + 1
        /\ pc' = [pc EXCEPT ![c] = "prepare"]
        /\ UNCHANGED <<tx_fifo, w, it, calls>>
    BY DEF Create, fifos, worker
  <1>3. /\ sends \in Nat /\ MaxSends \in Nat
    <2>1. sends \in 0..MaxSends /\ MaxSends \in Nat
      BY GreybusAssumption DEF TypeInv, TypeOK
    <2> QED BY <2>1
  <1>4. o \in Ops /\ ~Held(o) /\ ~Waits(o)
    BY FreeUnused
  <1>5. /\ ser'[o] = sends + 1
        /\ \A p \in Ops : p # o => ser'[p] = ser[p] /\ sync_sem'[p] = sync_sem[p]
        /\ c \in SyncClients => sync_sem'[o] = 0
        /\ \A d \in Clients : /\ pc'[d] = IF d = c THEN "prepare" ELSE pc[d]
                              /\ cop'[d] = IF d = c THEN o ELSE cop[d]
    BY <1>1, <1>2, <1>4 DEF TypeInv, TypeOK
  <1>6. \A p \in Ops : p # o /\ Pending(p)' => Pending(p)
    BY <1>2, <1>5 DEF Pending, Unqueued
  <1>7. calls'[sends + 1] = 0
    <2>1. sends + 1 \in 0..MaxSends /\ sends + 1 > sends
      BY <1>2, <1>3
    <2> QED BY <1>2, <2>1 DEF CallInv
  <1>8. \A n \in 0..MaxSends : /\ n > sends' => calls'[n] = 0
                               /\ n > 0 => calls'[n] <= 1
    BY <1>2, <1>3 DEF CallInv
  <1>9. \A p \in Ops : Pending(p)' => calls'[ser'[p]] = 0
    BY <1>2, <1>5, <1>6, <1>7 DEF CallInv
  <1>10. ASSUME NEW d \in SyncClients, pc'[d] # "idle",
                sync_sem'[cop'[d]] > 0 \/ pc'[d] = "destroy"
         PROVE  calls'[ser'[cop'[d]]] = 1
    <2>1. d \in Clients
      BY GreybusAssumption
    <2>2. d # c
      BY <1>5, <1>10, <2>1
    <2>3. pc[d] # "idle" /\ cop'[d] = cop[d] /\ cop[d] \in Ops /\ cop[d] # o
      BY <1>4, <1>5, <1>10, <2>1, <2>2 DEF TypeInv, ClientInv, Held
    <2> QED BY <1>2, <1>5, <1>10, <2>1, <2>2, <2>3 DEF CallInv
  <1> QED BY <1>8, <1>9, <1>10 DEF CallInv

\* The callback completes a request that was pending.
LEMMA CallCallback ==
    ASSUME CountInv, SerialInv, CallInv, [Next]_vars, Callback
    PROVE  CallInv'
  <1> USE DEF CountInv
  <1>1. /\ w = "call" /\ w' = "unref" /\ it \in Ops
        /\ calls' = [calls EXCEPT ![ser[it]] = @ + 1]
        /\ sync_sem' = [sync_sem EXCEPT ![it] = IF kind[it] = "sync" THEN @ + 1
                                                ELSE @]
        /\ UNCHANGED <<ser, tx_fifo, pc, cop, it, sends>>
    BY DEF TypeInv, WorkerInv, Callback, Goto, fifos, client
  <1>2. Waits(it) /\ Sent(it) /\ Pending(it)
    BY <1>1 DEF Waits, InHand, Sent, Pending
  <1>3. /\ ser[it] \in 1..sends /\ ser[it] \in 0..MaxSends /\ sends \in Nat
        /\ calls[ser[it]] = 0
    <2>1. sends \in 0..MaxSends /\ MaxSends \in Nat
      BY GreybusAssumption DEF TypeInv, TypeOK
    <2> QED BY <1>1, <1>2, <2>1 DEF SerialInv, CallInv, TypeInv, TypeOK
  <1>4. \A n \in 0..MaxSends : calls'[n] = IF n = ser[it] THEN 1 ELSE calls[n]
    BY <1>1, <1>3 DEF TypeInv, TypeOK
  <1>5. \A o \in Ops : o # it => sync_sem'[o] = sync_sem[o]
    BY <1>1 DEF TypeInv, TypeOK
  <1>6. \A o \in Ops : /\ Pending(o)' => Pending(o) /\ o # it
                       /\ ser[o] \in 0..MaxSends
    <2>1. it \notin Range(tx_fifo)
      BY <1>1 DEF RolesInv, FifoInv
    <2>2. \A c \in Clients : Unqueued(c) => cop[c] # it
      BY <1>2 DEF RolesInv, HoldInv
    <2> QED BY <1>1, <2>1, <2>2 DEF Pending, Unqueued, TypeInv, TypeOK
  <1>7. \A n \in 0..MaxSends : /\ n > sends' => calls'[n] = 0
                               /\ n > 0 => calls'[n] <= 1
    BY <1>1, <1>3, <1>4 DEF CallInv
  <1>8. \A o \in Ops : Pending(o)' => calls'[ser'[o]] = 0
    <2> SUFFICES ASSUME NEW o \in Ops, Pending(o)' PROVE calls'[ser'[o]] = 0
      OBVIOUS
    <2>1. Pending(o) /\ o # it /\ Sent(o)
      BY <1>6, PendingSent
    <2>2. ser[o] # ser[it]
      BY <1>1, <1>2, <2>1 DEF SerialInv
    <2> QED BY <1>1, <1>4, <1>6, <2>1, <2>2 DEF CallInv
  <1>9. ASSUME NEW c \in SyncClients, pc'[c] # "idle",
               sync_sem'[cop'[c]] > 0 \/ pc'[c] = "destroy"
        PROVE  calls'[ser'[cop'[c]]] = 1
    <2>1. c \in Clients /\ cop[c] \in Ops /\ Sent(cop[c])
      BY <1>1, <1>9, GreybusAssumption DEF TypeInv, ClientInv, Sent, Held
    <2>2. CASE cop[c] = it
      BY <1>1, <1>3, <1>4, <2>2
    <2>3. CASE cop[c] # it
      <3>1. ser[cop[c]] # ser[it]
        BY <1>1, <1>2, <2>1, <2>3 DEF SerialInv
      <3>2. calls[ser[cop[c]]] = 1
        BY <1>1, <1>5, <1>9, <2>1, <2>3 DEF CallInv
      <3> QED BY <1>1, <1>4, <1>6, <2>1, <3>1, <3>2
    <2> QED BY <2>2, <2>3
  <1> QED BY <1>7, <1>8, <1>9 DEF CallInv

\* Every step keeps completions single.
LEMMA CallStep ==
    CountInv /\ SerialInv /\ CallInv /\ [Next]_vars => CallInv'
  <1> SUFFICES ASSUME CountInv, SerialInv, CallInv, [Next]_vars PROVE CallInv'
    OBVIOUS
  <1>1. ASSUME NEW c \in Clients, Create(c) PROVE CallInv'
    BY <1>1, CallCreate
  <1>2. CASE Callback
    BY <1>2, CallCallback
  <1>3. ASSUME \A c \in Clients : ~Create(c), ~Callback PROVE CallInv'
    <2>1. \A o \in Ops : Pending(o)' => Pending(o)
      BY <1>3, PendingStep
    <2>2. UNCHANGED <<calls, sends>>
      BY <1>3 DEF Next, ClientStep, Prepare, Queue, Send, SendFailed, Wait,
         Destroy, WorkerStep, Down, Take, ProcessRequest, First, ReadNext,
         Advance, Test, CleanDel, ResponseDel, Attach, Unref, Update,
         FreeReceived, Interrupt, RxResponse, RxRequest, Receive,
         gb_operation_timeout, Connect, vars, client
    <2>3. CASE \E c \in Clients : ClientStep(c)
      <3>1. PICK c \in Clients : ClientStep(c)
        BY <2>3
      <3>2. ~SendFailed(c) /\ connected
        BY DEF CountInv, RolesInv, LinkUp, SendFailed
      <3>3. CASE Wait(c)
        <4>1. /\ pc[c] = "wait" /\ sync_sem[cop[c]] > 0 /\ cop[c] \in Ops
              /\ sync_sem' = [sync_sem EXCEPT ![cop[c]] = @ - 1]
              /\ pc' = [pc EXCEPT ![c] = "destroy"] /\ UNCHANGED cop
          BY <3>3 DEF Wait, CountInv, TypeInv, ClientInv
        <4>2. \A o \in Ops : sync_sem'[o] > 0 => sync_sem[o] > 0
          BY <4>1 DEF CountInv, TypeInv, TypeOK
        <4>3. \A d \in Clients : pc'[d] = IF d = c THEN "destroy" ELSE pc[d]
          BY <4>1 DEF CountInv, TypeInv, TypeOK
        <4>4. \A d \in Clients : pc[d] # "idle" => cop[d] \in Ops
          BY DEF CountInv, TypeInv, ClientInv
        <4>5. \A d \in SyncClients : pc'[d] # "idle" =>
               /\ pc[d] # "idle" /\ cop'[d] = cop[d]
               /\ pc'[d] = "destroy" =>
                    pc[d] = "destroy" \/ sync_sem[cop[d]] > 0
               /\ sync_sem'[cop[d]] > 0 => sync_sem[cop[d]] > 0
          BY <4>1, <4>2, <4>3, <4>4, GreybusAssumption
        <4> QED BY <2>1, <2>2, <4>5, CallFrame
      <3>4. CASE Prepare(c) \/ Queue(c) \/ Send(c) \/ Destroy(c)
        <4>1. /\ UNCHANGED sync_sem
              /\ pc[c] # "idle"
              /\ \/ UNCHANGED pc /\ UNCHANGED cop
                 \/ /\ \E l \in ClientPcs : /\ pc' = [pc EXCEPT ![c] = l]
                                            /\ c \in SyncClients => l # "destroy"
                    /\ UNCHANGED cop
                 \/ /\ pc' = [pc EXCEPT ![c] = "idle"]
                    /\ cop' = [cop EXCEPT ![c] = None]
          BY <3>2, <3>4 DEF Prepare, Queue, Send, Destroy, opvars, ClientPcs
        <4>2. \A d \in SyncClients : pc'[d] # "idle" =>
               /\ pc[d] # "idle" /\ cop'[d] = cop[d]
               /\ pc'[d] = "destroy" =>
                    pc[d] = "destroy" \/ sync_sem[cop[d]] > 0
               /\ sync_sem'[cop[d]] > 0 => sync_sem[cop[d]] > 0
          BY <4>1, GreybusAssumption DEF CountInv, TypeInv, TypeOK
        <4> QED BY <2>1, <2>2, <4>2, CallFrame
      <3> QED BY <1>3, <3>1, <3>2, <3>3, <3>4 DEF ClientStep
    <2>4. CASE WorkerStep \/ Interrupt \/ UNCHANGED vars
      <3>1. UNCHANGED <<sync_sem, pc, cop>>
        BY <1>3, <2>4 DEF WorkerStep, Down, Take, ProcessRequest, First,
           ReadNext, Advance, Test, CleanDel, ResponseDel, Attach, Unref,
           Update, FreeReceived, Interrupt, RxResponse, RxRequest, Receive,
           gb_operation_timeout, Connect, vars, opvars, client
      <3> QED BY <2>1, <2>2, <3>1, CallFrame
    <2> QED BY <2>3, <2>4 DEF Next
  <1> QED BY <1>1, <1>2, <1>3

\* On a cport that stays connected a request is completed once: by the answer
\* or by the time-out, whichever order the two and the worker's walks come
\* in, and a synchronous client goes on only when it was.
THEOREM CompletionOnce == ASSUME AlwaysConnected PROVE Spec => []CompletedOnce
  <1> DEFINE I == CountInv /\ SerialInv /\ CallInv
  <1>1. Init => I
    <2> SUFFICES ASSUME Init PROVE I
      OBVIOUS
    <2>1. CountInv
      BY CountInit
    <2>2. /\ tx_fifo = <<>> /\ w = "down" /\ cop = [c \in Clients |-> None]
          /\ pc = [c \in Clients |-> "idle"]
          /\ calls = [n \in 0..MaxSends |-> 0]
      BY DEF Init
    <2>3. \A o \in Ops : ~Sent(o)
      BY <2>2, GreybusAssumption DEF Sent, Held, Waits, InHand, Range
    <2>4. SerialInv
      BY <2>3 DEF SerialInv
    <2>5. CallInv
      BY <2>2, <2>3, PendingSent, GreybusAssumption DEF CallInv
    <2> QED BY <2>1, <2>4, <2>5
  <1>2. I /\ [Next]_vars => I'
    BY CountStep, SerialStep, CallStep
  <1>3. I => CompletedOnce
    <2> SUFFICES ASSUME I PROVE CompletedOnce
      OBVIOUS
    <2>1. \A n \in 1..MaxSends : n \in 0..MaxSends /\ n > 0
      BY GreybusAssumption
    <2> QED BY <2>1 DEF CompletedOnce, CallInv
  <1> QED BY <1>1, <1>2, <1>3, PTL DEF Spec

=============================================================================
