-------------------------- MODULE WorkqueueProofs --------------------------
(***************************************************************************)
(* Theorems about Workqueue, for any tasks, works and interrupt handlers.  *)
(***************************************************************************)
EXTENDS Workqueue, TaskListsProofs, FiniteSetTheorems

-----------------------------------------------------------------------------
(* The inductive invariant *)

\* The tasks that f, the places of the tasks, puts in S.
At(f, S) == {t \in Tasks : f[t] \in S}

\* A task that has counted its work and not linked it yet.
Held == {"lock_empty", "add"}

\* Which works are on the list, and which of those may run.
ListInv ==
    /\ IsInjective(list)
    /\ Range(list) \cap fresh = {} /\ is_schedulable \cap fresh = {}
    /\ timers \subseteq Range(list) \ is_schedulable

(* The works in the hands of tasks and of the worker.  A delayed work is   *)
(* left alone until its watchdog, started last, expires.                   *)
HeldInv ==
    /\ \A t \in At(pc, Held \cup {"start"}) : work[t] \in Works \ fresh
    /\ \A t \in At(pc, Held) : work[t] \notin Range(list) \cup is_schedulable
    /\ \A t \in At(pc, {"start"}) :
          delay[t] => work[t] \in Range(list) \ (is_schedulable \cup timers)
    /\ \A t, u \in At(pc, Held \cup {"start"}) : work[t] = work[u] => t = u
    /\ w \in {"run", "free"} =>
         /\ iter \in Works \ (fresh \cup Range(list))
         /\ \A t \in At(pc, Held) : work[t] # iter

\* A work that may run is x or behind x on the list.
ReadyFrom(x) ==
    \E i, j \in 1..Len(list) :
        list[i] = x /\ i <= j /\ list[j] \in is_schedulable

(* The worker always has a work that may run ahead of it: what is added is *)
(* added behind, and a work in front that becomes ready brings a unit of   *)
(* its own.  The saved next node may be out of date only when the node it  *)
(* was read from is the one to run.                                        *)
WalkInv ==
    /\ w = "next" => ReadyFrom(iter)
    /\ w = "test" => iter \in Range(list) /\ (iter \in Ready \/ ReadyFrom(niter))
    /\ w = "advance" => ReadyFrom(niter)
    /\ w = "del" => iter \in Ready

TokenInv ==
    w # "gone" => semaphore + Walking + Count(Announcing) = Count(Ready)

Running == IF w \in {"run", "free", "count"} THEN 1 ELSE 0

\* work_count is the number of works that are not finished.
CountInv ==
    work_count = Count(At(pc, Held)) + Len(list) + Running
                 + (IF hung THEN 1 ELSE 0)

(* empty_semaphore, with what makes its count exact: one task at a time    *)
(* waits to take it for the works, and when the worker is about to give it *)
(* back any new work has such a task.                                      *)
EmptyInv ==
    /\ EmptyExact
    /\ \A t, u \in At(pc, {"lock_empty"}) : t = u
    /\ w = "signal" /\ work_count > 0 => hung \/ At(pc, {"lock_empty"}) # {}

\* What the destroyer's contract buys it.
CloseInv ==
    /\ \A t \in Tasks : pc[t] = "destroy" => t = Destroyer
    /\ \A t \in At(pc, {"waiting", "waited", "destroy"}) : t = Destroyer =>
         \A u \in Tasks \ {t} : pc[u] = "idle"
    /\ \A t \in At(pc, {"waited", "destroy"}) : t = Destroyer =>
         work_count = 0 /\ w = "lock"

\* The worker is there as long as tasks use the queue.
GoneInv == w = "gone" => \A t \in Tasks : pc[t] = "gone"

\* No work is dropped.
DoneInv ==
    \/ hung
    \/ \A x \in Works : \/ x \in fresh \cup done \cup Range(list)
                        \/ \E t \in At(pc, Held) : work[t] = x
                        \/ w = "run" /\ iter = x

Core == /\ ListInv /\ HeldInv /\ WalkInv /\ TokenInv
        /\ CountInv /\ EmptyInv /\ CloseInv /\ GoneInv /\ DoneInv

Inv == TypeOK /\ Core

-----------------------------------------------------------------------------
(* Counting *)

\* Two sets that differ in one element at most.
LEMMA CountChange ==
    ASSUME NEW A, NEW B, NEW x, IsFiniteSet(A), A \ {x} = B \ {x}
    PROVE  /\ IsFiniteSet(B) /\ Count(A) \in Nat /\ Count(B) \in Nat
           /\ Count(B) = Count(A) + (IF x \in B THEN 1 ELSE 0)
                                  - (IF x \in A THEN 1 ELSE 0)
  <1> DEFINE C == A \ {x}
  <1>1. /\ IsFiniteSet(C) /\ Cardinality(A) \in Nat
        /\ Cardinality(C) = IF x \in A THEN Cardinality(A) - 1 ELSE Cardinality(A)
    BY FS_RemoveElement, FS_CardinalityType
  <1>2. Cardinality(C) \in Nat
    BY <1>1, FS_CardinalityType
  <1>3. B = C \/ B = C \cup {x}
    OBVIOUS
  <1>4. x \notin C /\ (x \in B <=> B = C \cup {x})
    OBVIOUS
  <1> HIDE DEF C
  <1>5. /\ IsFiniteSet(B)
        /\ Cardinality(B) = Cardinality(C) + (IF x \in B THEN 1 ELSE 0)
    BY <1>1, <1>2, <1>3, <1>4, FS_AddElement
  <1> QED BY <1>1, <1>2, <1>5 DEF Count

\* The tasks at some places can be counted, and so can the ready works.
LEMMA CountTypes ==
    ASSUME TypeOK
    PROVE  /\ \A S : IsFiniteSet(At(pc, S)) /\ Count(At(pc, S)) \in Nat
           /\ IsFiniteSet(Announcing) /\ Count(Announcing) \in Nat
           /\ IsFiniteSet(Ready) /\ Count(Ready) \in Nat
           /\ Ready = {} <=> Count(Ready) = 0
           /\ \A S : At(pc, S) = {} <=> Count(At(pc, S)) = 0
  <1>1. ASSUME NEW S PROVE IsFiniteSet(At(pc, S))
    BY FS_Subset, WorkqueueAssumption DEF At
  <1>2. IsFiniteSet(Announcing)
    BY FS_Subset, WorkqueueAssumption DEF Announcing
  <1>3. IsFiniteSet(Ready)
    <2>1. Ready \subseteq Works
      BY DEF Ready, TypeOK
    <2> QED BY <2>1, FS_Subset, WorkqueueAssumption
  <1> QED BY <1>1, <1>2, <1>3, FS_CardinalityType, FS_EmptySet DEF Count

\* A task enters some places, leaves them, or neither.
LEMMA AtEnter ==
    ASSUME NEW f, NEW g, NEW t \in Tasks, NEW S,
           \A u \in Tasks \ {t} : g[u] = f[u], f[t] \notin S, g[t] \in S
    PROVE  Count(At(g, S)) = Count(At(f, S)) + 1
  <1>1. /\ At(f, S) \ {t} = At(g, S) \ {t}
        /\ t \in At(g, S) /\ t \notin At(f, S)
    BY DEF At
  <1>2. IsFiniteSet(At(f, S))
    BY FS_Subset, WorkqueueAssumption DEF At
  <1> QED BY <1>1, <1>2, CountChange

\* A task leaves a place.
LEMMA AtLeave ==
    ASSUME NEW f, NEW g, NEW t \in Tasks, NEW S,
           \A u \in Tasks \ {t} : g[u] = f[u], f[t] \in S, g[t] \notin S
    PROVE  Count(At(g, S)) = Count(At(f, S)) - 1
  <1>1. /\ At(f, S) \ {t} = At(g, S) \ {t}
        /\ t \notin At(g, S) /\ t \in At(f, S)
    BY DEF At
  <1>2. IsFiniteSet(At(f, S))
    BY FS_Subset, WorkqueueAssumption DEF At
  <1> QED BY <1>1, <1>2, CountChange

\* A task goes from a place to a place of the same kind.
LEMMA AtStay ==
    ASSUME NEW f, NEW g, NEW t \in Tasks, NEW S,
           \A u \in Tasks \ {t} : g[u] = f[u], f[t] \in S <=> g[t] \in S
    PROVE  At(g, S) = At(f, S)
  BY DEF At

-----------------------------------------------------------------------------
(* Types *)

\* The tasks' steps keep the types.
LEMMA TaskType ==
    ASSUME Inv, NEW t \in Tasks, Task(t)
    PROVE  TypeOK'
  <1>1. TypeOK /\ HeldInv
    BY DEF Inv, Core
  <1>0. empty_semaphore \in Nat /\ work_count \in Nat /\ semaphore \in Nat
    BY <1>1 DEF TypeOK
  <1>2. pc' \in [Tasks -> TaskPcs]
    BY <1>1 DEF TypeOK, TaskPcs, Task, workqueue_schedule, LockEmpty, AddWork,
                StartWork, workqueue_wait_empty, WaitLock, WaitUnlock,
                workqueue_destroy
  <1>3. CASE workqueue_schedule(t)
    <2>0. PICK x \in fresh, d \in BOOLEAN :
            /\ fresh' = fresh \ {x} /\ work' = [work EXCEPT ![t] = x]
            /\ delay' = [delay EXCEPT ![t] = d]
      BY <1>3, Zenon DEF workqueue_schedule
    <2>1. /\ fresh' \subseteq Works /\ work' \in [Tasks -> Works \cup {None}]
          /\ delay' \in [Tasks -> BOOLEAN]
      BY <1>1, <2>0 DEF TypeOK
    <2>2. work_count' \in Nat
      BY <1>0, <1>3 DEF workqueue_schedule
    <2> QED BY <1>1, <1>2, <1>3, <2>1, <2>2 DEF TypeOK, workqueue_schedule, worker
  <1>4. CASE LockEmpty(t)
    <2>1. empty_semaphore' \in Nat
      BY <1>0, <1>4 DEF LockEmpty
    <2> QED BY <1>1, <1>2, <1>4, <2>1 DEF TypeOK, LockEmpty, worker
  <1>5. CASE AddWork(t)
    <2>1. work[t] \in Works
      BY <1>1, <1>5 DEF AddWork, HeldInv, At, Held
    <2>2. list' \in Seq(Works)
      BY <1>1, <1>5, <2>1 DEF AddWork, TypeOK
    <2>3. is_schedulable' \subseteq Works
      BY <1>1, <1>5, <2>1 DEF AddWork, TypeOK
    <2> QED BY <1>1, <1>2, <1>5, <2>2, <2>3 DEF AddWork, TypeOK, sems, worker
  <1>6. CASE StartWork(t)
    <2>1. work[t] \in Works
      BY <1>1, <1>6 DEF StartWork, HeldInv, At
    <2>2. timers' \subseteq Works
      BY <1>1, <1>6, <2>1 DEF StartWork, TypeOK
    <2>3. semaphore' \in Nat
      BY <1>0, <1>6 DEF StartWork
    <2>4. work' \in [Tasks -> Works \cup {None}] /\ delay' \in [Tasks -> BOOLEAN]
      BY <1>1, <1>6 DEF StartWork, TypeOK
    <2> QED BY <1>1, <1>2, <1>6, <2>2, <2>3, <2>4 DEF StartWork, TypeOK, worker
  <1>7. CASE workqueue_wait_empty(t)
    <2>1. waits' \in [Tasks -> 0..MaxWaits]
      BY <1>1, <1>7, WorkqueueAssumption DEF TypeOK, workqueue_wait_empty
    <2> QED BY <1>1, <1>2, <1>7, <2>1 DEF TypeOK, workqueue_wait_empty, sems, worker
  <1>8. CASE WaitLock(t)
    <2>1. empty_semaphore' \in Nat
      BY <1>0, <1>8 DEF WaitLock
    <2> QED BY <1>1, <1>2, <1>8, <2>1 DEF TypeOK, WaitLock, worker
  <1>9. CASE WaitUnlock(t)
    <2>1. empty_semaphore' \in Nat
      BY <1>0, <1>9 DEF WaitUnlock
    <2> QED BY <1>1, <1>2, <1>9, <2>1 DEF TypeOK, WaitUnlock, worker
  <1>10. CASE workqueue_destroy(t)
    <2>1. list' \in Seq(Works) /\ w' \in WorkerPcs
      BY <1>10 DEF workqueue_destroy, WorkerPcs
    <2> QED BY <1>1, <1>2, <1>10, <2>1 DEF TypeOK, workqueue_destroy, sems
  <1> QED
    BY <1>3, <1>4, <1>5, <1>6, <1>7, <1>8, <1>9, <1>10 DEF Task

\* The interrupt handlers keep the types.
LEMMA InterruptType ==
    ASSUME Inv, IsrQueue \/ \E x \in Works : workqueue_delay_timeout(x)
    PROVE  TypeOK'
  <1> USE WorkqueueAssumption DEF Inv, TypeOK, task, worker
  <1>1. CASE IsrQueue
    <2>0. PICK x \in fresh :
            /\ fresh' = fresh \ {x}
            /\ \/ UNCHANGED <<list, is_schedulable>>
               \/ /\ list' = Append(list, x)
                  /\ is_schedulable' = is_schedulable \cup {x}
      BY <1>1 DEF IsrQueue
    <2>1. /\ fresh' \subseteq Works /\ list' \in Seq(Works)
          /\ is_schedulable' \subseteq Works
      <3>1. x \in Works /\ list \in Seq(Works) /\ fresh \subseteq Works
        OBVIOUS
      <3>2. list' \in Seq(Works)
        BY <2>0, <3>1, AppendOnce
      <3> QED BY <2>0, <3>1, <3>2
    <2>2. semaphore' \in Nat /\ empty_semaphore' \in Nat /\ work_count' \in Nat
      <3>1. semaphore \in Nat /\ empty_semaphore \in Nat /\ work_count \in Nat
        OBVIOUS
      <3> HIDE DEF Inv, TypeOK
      <3> QED BY <1>1, <3>1 DEF IsrQueue
    <2>3. hung' = TRUE \/ hung' = hung
      BY <1>1, Zenon DEF IsrQueue
    <2>4. hung' \in BOOLEAN
      BY <2>3, Zenon
    <2> QED BY <1>1, <2>1, <2>2, <2>4 DEF IsrQueue
  <1>2. CASE \E x \in Works : workqueue_delay_timeout(x)
    BY <1>2 DEF workqueue_delay_timeout
  <1> QED BY <1>1, <1>2

\* The worker's steps keep the types.
LEMMA WorkerType ==
    ASSUME Inv, Worker
    PROVE  TypeOK'
  <1> USE WorkqueueAssumption DEF Inv, Core, TypeOK, WorkerPcs, sems, task
  <1>1. CASE WorkerLock
    BY <1>1 DEF WorkerLock
  <1>2. CASE WalkFirst
    BY <1>2, NodeAfterType DEF WalkFirst
  <1>3. CASE WalkNext
    BY <1>3, NodeAfterType DEF WalkNext
  <1>4. CASE WalkTest
    BY <1>4 DEF WalkTest
  <1>5. CASE WalkAdvance
    BY <1>5, NodeAfterType DEF WalkAdvance
  <1>6. CASE WorkerDel
    BY <1>6, UnlinkType DEF WorkerDel
  <1>7. CASE WorkerRun
    <2>1. iter \in Works
      BY <1>7 DEF WorkerRun, HeldInv
    <2> QED BY <1>7, <2>1 DEF WorkerRun
  <1>8. CASE WorkerFree
    BY <1>8 DEF WorkerFree
  <1>9. CASE WorkerCount
    <2>1. Len(list) \in Nat /\ Count(At(pc, Held)) \in Nat
      BY CountTypes
    <2>2. work_count > 0
      BY <1>9, <2>1 DEF WorkerCount, CountInv, Running
    <2> QED BY <1>9, <2>2 DEF WorkerCount
  <1>10. CASE WorkerSignal
    BY <1>10 DEF WorkerSignal
  <1> QED
    BY <1>1, <1>2, <1>3, <1>4, <1>5, <1>6, <1>7, <1>8, <1>9, <1>10
    DEF Worker, Walk

-----------------------------------------------------------------------------
(* The tasks *)

(* A task that moves between places where it has no work leaves all that   *)
(* is about works alone.                                                   *)
LEMMA MoveQuiet ==
    ASSUME Inv, NEW t \in Tasks, NEW p,
           pc[t] \notin Held \cup {"start", "gone"},
           p \notin Held \cup {"start"},
           pc' = [pc EXCEPT ![t] = p],
           UNCHANGED <<fresh, list, is_schedulable, timers, done, semaphore,
                       work_count, work, delay, w, iter, niter, hung>>
    PROVE  /\ ListInv' /\ HeldInv' /\ WalkInv' /\ TokenInv'
           /\ CountInv' /\ DoneInv' /\ GoneInv'
  <1>1. \A u \in Tasks : pc'[u] = IF u = t THEN p ELSE pc[u]
    BY DEF Inv, TypeOK
  <1>2. /\ At(pc', Held) = At(pc, Held) /\ At(pc', {"start"}) = At(pc, {"start"})
        /\ At(pc', Held \cup {"start"}) = At(pc, Held \cup {"start"})
        /\ Announcing' = Announcing
    BY <1>1 DEF At, Announcing
  <1>3. ListInv' /\ HeldInv'
    BY <1>2 DEF Inv, Core, ListInv, HeldInv
  <1>4. WalkInv' /\ TokenInv'
    BY <1>2 DEF Inv, Core, WalkInv, ReadyFrom, Ready, TokenInv, Walking, Count
  <1>5. CountInv' /\ DoneInv'
    BY <1>2 DEF Inv, Core, CountInv, Running, DoneInv, Count
  <1>6. GoneInv'
    BY DEF Inv, Core, GoneInv
  <1> QED BY <1>3, <1>4, <1>5, <1>6

\* workqueue_wait_empty: the destroyer is alone from here on.
LEMMA WaitEmptyCore ==
    ASSUME Inv, NEW t \in Tasks, workqueue_wait_empty(t)
    PROVE  Core'
  <1>1. /\ pc[t] = "idle" /\ pc' = [pc EXCEPT ![t] = "waiting"]
        /\ Alone(t) /\ ~Closing
        /\ UNCHANGED <<fresh, list, is_schedulable, timers, done, semaphore,
                       empty_semaphore, work_count, work, delay, w, iter,
                       niter, hung>>
    BY DEF workqueue_wait_empty, sems, worker
  <1>2. \A u \in Tasks : pc'[u] = IF u = t THEN "waiting" ELSE pc[u]
    BY <1>1 DEF Inv, TypeOK
  <1>3. EmptyInv'
    <2>1. /\ At(pc', {"waited"}) = At(pc, {"waited"})
          /\ At(pc', {"lock_empty"}) = At(pc, {"lock_empty"})
      BY <1>1, <1>2 DEF At
    <2>2. {u \in Tasks : pc[u] = "waited"}' = {u \in Tasks : pc[u] = "waited"}
      BY <1>1, <1>2
    <2>3. QueueHolds' = QueueHolds
      BY <1>1, <1>2 DEF QueueHolds
    <2> QED BY <1>1, <2>1, <2>2, <2>3 DEF Inv, Core, EmptyInv, EmptyExact, Count
  <1>4. CloseInv'
    BY <1>1, <1>2 DEF Inv, Core, CloseInv, At, Alone, Closing
  <1> QED BY <1>1, <1>3, <1>4, MoveQuiet DEF Held, Core

\* The counts that empty_semaphore is compared with.
LEMMA EmptyTypes ==
    ASSUME Inv
    PROVE  /\ empty_semaphore \in Nat /\ Count(At(pc, {"waited"})) \in Nat
           /\ QueueHolds \in {0, 1}
           /\ {t \in Tasks : pc[t] = "waited"} = At(pc, {"waited"})
           /\ empty_semaphore + QueueHolds + Count(At(pc, {"waited"})) = 1
  <1>1. {t \in Tasks : pc[t] = "waited"} = At(pc, {"waited"})
    BY DEF At
  <1>2. Count(At(pc, {"waited"})) \in Nat
    BY CountTypes DEF Inv
  <1> QED BY <1>1, <1>2 DEF Inv, TypeOK, QueueHolds, Core, EmptyInv, EmptyExact

(* The destroyer that gets empty_semaphore finds an idle queue: nobody     *)
(* holds a work, so a count above zero would be the works' hold of it, and *)
(* a worker on its walk would have a work ahead.                           *)
LEMMA WaitLockIdle ==
    ASSUME Inv, NEW t \in Tasks, t = Destroyer, WaitLock(t)
    PROVE  work_count = 0 /\ w = "lock"
  <1>1. pc[t] = "waiting" /\ ~hung /\ empty_semaphore > 0
    BY DEF WaitLock
  <1>2. QueueHolds = 0
    BY <1>1, EmptyTypes
  <1>3. \A u \in Tasks : pc[u] # "lock_empty"
    BY <1>1 DEF Inv, Core, CloseInv, At
  <1>4. ~(work_count > 0) /\ w # "signal"
    BY <1>1, <1>2, <1>3 DEF QueueHolds
  <1>5. work_count = 0
    BY <1>4 DEF Inv, TypeOK
  <1>6. Count(At(pc, Held)) \in Nat /\ Len(list) \in Nat
    BY CountTypes DEF Inv, TypeOK
  <1>7. Len(list) = 0 /\ Running = 0
    BY <1>1, <1>5, <1>6 DEF Inv, Core, CountInv, Running
  <1>8. Ready = {}
    BY <1>7, RangeAt DEF Inv, TypeOK, Ready
  <1>9. w # "gone"
    BY <1>1 DEF Inv, Core, GoneInv, At
  <1>10. Walking = 0
    <2>1. /\ semaphore \in Nat /\ Count(Announcing) \in Nat
          /\ Count(Ready) = 0 /\ Walking \in {0, 1}
      BY <1>8, CountTypes DEF Inv, TypeOK, Walking
    <2> QED BY <1>9, <2>1 DEF Inv, Core, TokenInv
  <1> QED
    BY <1>4, <1>5, <1>7, <1>9, <1>10
    DEF Inv, TypeOK, WorkerPcs, Running, Walking

\* A waiting task takes the count that nobody else held.
LEMMA WaitLockCore ==
    ASSUME Inv, NEW t \in Tasks, WaitLock(t)
    PROVE  Core'
  <1>1. /\ pc[t] = "waiting" /\ pc' = [pc EXCEPT ![t] = "waited"]
        /\ empty_semaphore > 0 /\ empty_semaphore' = empty_semaphore - 1
        /\ UNCHANGED <<fresh, list, is_schedulable, timers, done, semaphore,
                       work_count, work, delay, w, iter, niter, hung>>
    BY DEF WaitLock, worker
  <1>2. \A u \in Tasks : pc'[u] = IF u = t THEN "waited" ELSE pc[u]
    BY <1>1 DEF Inv, TypeOK
  <1>3. EmptyInv'
    <2>1. At(pc', {"lock_empty"}) = At(pc, {"lock_empty"}) /\ QueueHolds' = QueueHolds
      BY <1>1, <1>2 DEF At, QueueHolds
    <2>2. Count(At(pc', {"waited"})) = Count(At(pc, {"waited"})) + 1
      <3>1. /\ pc[t] \notin {"waited"} /\ pc'[t] \in {"waited"}
            /\ \A u \in Tasks \ {t} : pc'[u] = pc[u]
        BY <1>1, <1>2
      <3> QED BY <3>1, AtEnter
    <2>3. At(pc', {"waited"}) = {u \in Tasks : pc'[u] = "waited"}
      BY DEF At
    <2>4. empty_semaphore' + QueueHolds' + Count(At(pc', {"waited"})) = 1
      BY <1>1, <2>1, <2>2, EmptyTypes
    <2>5. EmptyExact'
      BY <2>3, <2>4 DEF EmptyExact, Count
    <2> QED BY <1>1, <2>1, <2>5 DEF Inv, Core, EmptyInv
  <1>4. CloseInv'
    BY <1>1, <1>2, WaitLockIdle DEF Inv, Core, CloseInv, At
  <1> QED BY <1>1, <1>3, <1>4, MoveQuiet DEF Held, Core

\* It gives the count back.
LEMMA WaitUnlockCore ==
    ASSUME Inv, NEW t \in Tasks, WaitUnlock(t)
    PROVE  Core'
  <1>1. /\ pc[t] = "waited"
        /\ empty_semaphore' = empty_semaphore + 1
        /\ UNCHANGED <<fresh, list, is_schedulable, timers, done, semaphore,
                       work_count, work, delay, w, iter, niter, hung>>
    BY DEF WaitUnlock, worker
  <1>3. PICK p : /\ p \in {"destroy", "idle"} /\ (p = "destroy" <=> t = Destroyer)
                 /\ pc' = [pc EXCEPT ![t] = p]
    BY DEF WaitUnlock
  <1>2. \A u \in Tasks : pc'[u] = IF u = t THEN p ELSE pc[u]
    BY <1>3 DEF Inv, TypeOK
  <1>4. EmptyInv'
    <2>1. At(pc', {"lock_empty"}) = At(pc, {"lock_empty"}) /\ QueueHolds' = QueueHolds
      BY <1>1, <1>2, <1>3 DEF At, QueueHolds
    <2>2. Count(At(pc', {"waited"})) = Count(At(pc, {"waited"})) - 1
      <3>1. /\ pc[t] \in {"waited"} /\ pc'[t] \notin {"waited"}
            /\ \A u \in Tasks \ {t} : pc'[u] = pc[u]
        BY <1>1, <1>2, <1>3
      <3> QED BY <3>1, AtLeave
    <2>3. At(pc', {"waited"}) = {u \in Tasks : pc'[u] = "waited"}
      BY DEF At
    <2>4. empty_semaphore' + QueueHolds' + Count(At(pc', {"waited"})) = 1
      BY <1>1, <2>1, <2>2, EmptyTypes
    <2>5. EmptyExact'
      BY <2>3, <2>4 DEF EmptyExact, Count
    <2> QED BY <1>1, <2>1, <2>5 DEF Inv, Core, EmptyInv
  <1>5. CloseInv'
    BY <1>1, <1>2, <1>3 DEF Inv, Core, CloseInv, At
  <1> QED BY <1>1, <1>3, <1>4, <1>5, MoveQuiet DEF Held, Core

(* A queue that the destroyer has waited for has no work, no watchdog that *)
(* runs and no ready work that the worker could take up.                   *)
LEMMA Quiescent ==
    ASSUME Inv, NEW t \in At(pc, {"waited", "destroy"}), t = Destroyer, ~hung
    PROVE  /\ w = "lock" /\ work_count = 0 /\ list = <<>> /\ timers = {}
           /\ semaphore = 0 /\ Announcing = {} /\ At(pc, Held) = {}
           /\ done \cup fresh = Works
           /\ \A u \in Tasks \ {t} : pc[u] = "idle"
  <1>1. /\ w = "lock" /\ work_count = 0
        /\ \A u \in Tasks \ {t} : pc[u] = "idle"
    BY DEF Inv, Core, CloseInv, At
  <1>2. At(pc, Held) = {} /\ Announcing = {}
    BY <1>1 DEF At, Held, Announcing
  <1>3. list = <<>> /\ Range(list) = {}
    <2>1. Count(At(pc, Held)) \in Nat /\ Len(list) \in Nat
      BY CountTypes DEF Inv, TypeOK
    <2>2. Len(list) = 0
      BY <1>1, <2>1 DEF Inv, Core, CountInv, Running
    <2>3. list \in Seq(Works)
      BY DEF Inv, TypeOK
    <2>4. list = <<>>
      BY <2>2, <2>3
    <2> QED BY <2>4 DEF Range
  <1>4. timers = {}
    BY <1>3 DEF Inv, Core, ListInv
  <1>5. semaphore = 0
    <2>1. Ready = {}
      BY <1>3 DEF Ready
    <2>2. Count(Ready) = 0 /\ Count(Announcing) \in Nat /\ semaphore \in Nat
      BY <2>1, CountTypes DEF Inv, TypeOK
    <2> QED BY <1>1, <2>2 DEF Inv, Core, TokenInv, Walking
  <1>6. done \cup fresh = Works
    BY <1>1, <1>2, <1>3 DEF Inv, Core, DoneInv, TypeOK
  <1> QED BY <1>1, <1>2, <1>3, <1>4, <1>5, <1>6

\* workqueue_destroy.
LEMMA DestroyCore ==
    ASSUME Inv, NEW t \in Tasks, workqueue_destroy(t)
    PROVE  Core'
  <1>1. /\ pc[t] = "destroy" /\ ~hung /\ w' = "gone" /\ list' = <<>>
        /\ pc' = [u \in Tasks |-> "gone"]
        /\ UNCHANGED <<fresh, is_schedulable, timers, done, semaphore,
                       empty_semaphore, work_count, work, delay, hung>>
    BY DEF workqueue_destroy, sems
  <1>2. t = Destroyer /\ t \in At(pc, {"waited", "destroy"})
    BY <1>1 DEF Inv, Core, CloseInv, At
  <1>3. /\ w = "lock" /\ work_count = 0 /\ list = <<>> /\ timers = {}
        /\ done \cup fresh = Works /\ \A u \in Tasks \ {t} : pc[u] = "idle"
    BY <1>1, <1>2, Quiescent
  <1>5. /\ At(pc', Held) = {} /\ At(pc', {"start"}) = {} /\ At(pc', Held \cup {"start"}) = {}
        /\ At(pc', {"waited"}) = {} /\ At(pc', {"lock_empty"}) = {}
        /\ At(pc', {"waiting", "waited", "destroy"}) = {}
        /\ At(pc', {"waited", "destroy"}) = {}
    BY <1>1 DEF At, Held
  <1>6. ListInv' /\ HeldInv' /\ WalkInv' /\ TokenInv' /\ GoneInv' /\ CloseInv'
    BY <1>1, <1>3, <1>5
    DEF Inv, Core, ListInv, HeldInv, WalkInv, TokenInv, GoneInv, CloseInv
  <1>7. CountInv'
    <2>1. Count(At(pc', Held)) = 0
      BY <1>5, FS_EmptySet DEF Count
    <2>2. Len(list') = 0
      BY <1>1
    <2> QED BY <1>1, <1>3, <2>1, <2>2 DEF CountInv, Running, Count
  <1>8. EmptyInv'
    <2>1. At(pc, {"waited"}) = {}
      BY <1>1, <1>3 DEF At
    <2>2. Count(At(pc, {"waited"})) = 0 /\ Count(At(pc', {"waited"})) = 0
      BY <1>5, <2>1, FS_EmptySet DEF Count
    <2>3. QueueHolds = 0 /\ QueueHolds' = 0
      BY <1>1, <1>3 DEF QueueHolds
    <2>4. At(pc', {"waited"}) = {u \in Tasks : pc'[u] = "waited"}
      BY DEF At
    <2>5. EmptyExact'
      BY <1>1, <2>2, <2>3, <2>4, EmptyTypes DEF EmptyExact, Count
    <2> QED BY <1>1, <1>3, <1>5, <2>5 DEF EmptyInv
  <1>9. DoneInv'
    BY <1>1, <1>3 DEF DoneInv
  <1> QED BY <1>6, <1>7, <1>8, <1>9 DEF Core

\* When there is no work nobody holds one.
LEMMA NobodyHolds ==
    ASSUME Inv, work_count = 0
    PROVE  At(pc, Held) = {} /\ At(pc, {"lock_empty"}) = {} /\ Len(list) = 0
  <1>1. Count(At(pc, Held)) \in Nat /\ Len(list) \in Nat
    BY CountTypes DEF Inv, TypeOK
  <1>2. Count(At(pc, Held)) = 0 /\ Len(list) = 0
    BY <1>1 DEF Inv, Core, CountInv, Running
  <1>3. At(pc, Held) = {}
    BY <1>2, CountTypes DEF Inv
  <1> QED BY <1>2, <1>3 DEF At, Held

\* workqueue_schedule counts the work that the task now holds.
LEMMA ScheduleCore ==
    ASSUME Inv, NEW t \in Tasks, workqueue_schedule(t)
    PROVE  Core'
  <1>1. PICK x \in fresh, d \in BOOLEAN :
          /\ fresh' = fresh \ {x} /\ work' = [work EXCEPT ![t] = x]
          /\ delay' = [delay EXCEPT ![t] = d]
    BY Zenon DEF workqueue_schedule
  <1>2. /\ pc[t] = "idle" /\ ~hung /\ ~Closing /\ work_count' = work_count + 1
        /\ UNCHANGED <<list, is_schedulable, timers, done, semaphore,
                       empty_semaphore, w, iter, niter, hung>>
    BY DEF workqueue_schedule, worker
  <1>3. PICK p : /\ p = IF work_count = 0 THEN "lock_empty" ELSE "add"
                 /\ pc' = [pc EXCEPT ![t] = p]
    BY DEF workqueue_schedule
  <1>4. /\ \A u \in Tasks \ {t} : pc'[u] = pc[u] /\ work'[u] = work[u]
                                   /\ delay'[u] = delay[u]
        /\ pc'[t] = p /\ work'[t] = x
    BY <1>1, <1>3 DEF Inv, TypeOK
  <1>5. x \in Works /\ fresh \subseteq Works
    BY DEF Inv, TypeOK
  <1>6. /\ At(pc', Held) = At(pc, Held) \cup {t} /\ t \notin At(pc, Held)
        /\ At(pc', {"start"}) = At(pc, {"start"}) /\ t \notin At(pc, {"start"})
        /\ At(pc', Held \cup {"start"}) = At(pc, Held \cup {"start"}) \cup {t}
        /\ t \notin At(pc, Held \cup {"start"})
        /\ Announcing' = Announcing
    BY <1>2, <1>3, <1>4 DEF At, Held, Announcing
  <1>7. ListInv'
    BY <1>1, <1>2 DEF Inv, Core, ListInv
  <1>8. HeldInv'
    <2>1. /\ x \notin Range(list) /\ x \notin is_schedulable
          /\ w \in {"run", "free"} => iter # x
      BY DEF Inv, Core, ListInv, HeldInv
    <2>2. \A u \in At(pc, Held \cup {"start"}) : u # t /\ work'[u] = work[u]
                                                 /\ delay'[u] = delay[u]
      BY <1>4, <1>6 DEF At
    <2>3. At(pc, Held) \subseteq At(pc, Held \cup {"start"})
          /\ At(pc, {"start"}) \subseteq At(pc, Held \cup {"start"})
      BY DEF At
    <2>4. \A u \in At(pc', Held \cup {"start"}) : work'[u] \in Works \ fresh'
      <3>1. \A u \in At(pc, Held \cup {"start"}) : work'[u] \in Works \ fresh
        BY <2>2 DEF Inv, Core, HeldInv
      <3>2. fresh' \subseteq fresh /\ x \in Works \ fresh'
        BY <1>1, <1>5
      <3>3. work'[t] \in Works \ fresh'
        BY <1>4, <3>2
      <3> QED BY <1>6, <3>1, <3>2, <3>3
    <2>5. \A u \in At(pc', Held) : work'[u] \notin Range(list') \cup is_schedulable'
      <3>1. \A u \in At(pc, Held) : work[u] \notin Range(list) \cup is_schedulable
        BY DEF Inv, Core, HeldInv
      <3> QED BY <1>2, <1>4, <1>6, <2>1, <2>2, <2>3, <3>1
    <2>6. \A u \in At(pc', {"start"}) : delay'[u] =>
            work'[u] \in Range(list') \ (is_schedulable' \cup timers')
      BY <1>2, <1>6, <2>2, <2>3 DEF Inv, Core, HeldInv
    <2>7. \A u, v \in At(pc', Held \cup {"start"}) : work'[u] = work'[v] => u = v
      <3>1. \A u \in At(pc, Held \cup {"start"}) : work'[u] # x
        BY <2>2 DEF Inv, Core, HeldInv
      <3>2. \A u, v \in At(pc, Held \cup {"start"}) : work'[u] = work'[v] => u = v
        BY <2>2 DEF Inv, Core, HeldInv
      <3> QED BY <1>4, <1>6, <3>1, <3>2
    <2>8. w' \in {"run", "free"} =>
            /\ iter' \in Works \ (fresh' \cup Range(list'))
            /\ \A u \in At(pc', Held) : work'[u] # iter'
      BY <1>1, <1>2, <1>4, <1>6, <2>1, <2>2, <2>3 DEF Inv, Core, HeldInv
    <2> QED BY <2>4, <2>5, <2>6, <2>7, <2>8 DEF HeldInv
  <1>9. WalkInv' /\ TokenInv'
    BY <1>2, <1>6
    DEF Inv, Core, WalkInv, ReadyFrom, Ready, TokenInv, Walking, Count
  <1>10. CountInv'
    <2>1. Count(At(pc', Held)) = Count(At(pc, Held)) + 1
      <3>1. pc[t] \notin Held /\ pc'[t] \in Held
        BY <1>2, <1>3, <1>4 DEF Held
      <3> QED BY <1>4, <3>1, AtEnter
    <2>2. /\ work_count = Count(At(pc, Held)) + Len(list) + Running
          /\ Count(At(pc, Held)) \in Nat /\ Len(list) \in Nat /\ Running \in {0, 1}
      BY <1>2, CountTypes DEF Inv, TypeOK, Core, CountInv, Running
    <2>3. Running' = Running
      BY <1>2 DEF Running
    <2> QED BY <1>2, <2>1, <2>2, <2>3 DEF CountInv
  <1>11. EmptyInv'
    <2>1. At(pc', {"waited"}) = At(pc, {"waited"})
      BY <1>2, <1>3, <1>4 DEF At
    <2>2. work_count \in Nat
      BY DEF Inv, TypeOK
    <2>3. /\ QueueHolds' = QueueHolds
          /\ \A u, v \in At(pc', {"lock_empty"}) : u = v
          /\ w = "signal" => At(pc', {"lock_empty"}) # {}
      <3>1. CASE work_count = 0
        <4>1. At(pc', {"lock_empty"}) = {t} /\ pc'[t] = "lock_empty"
          BY <1>3, <1>4, <3>1, NobodyHolds DEF At
        <4> QED BY <1>2, <3>1, <4>1 DEF QueueHolds
      <3>2. CASE work_count # 0
        <4>1. /\ At(pc', {"lock_empty"}) = At(pc, {"lock_empty"})
              /\ (\A u \in Tasks : pc'[u] # "lock_empty")
                    <=> (\A u \in Tasks : pc[u] # "lock_empty")
          BY <1>2, <1>3, <1>4, <3>2 DEF At
        <4>2. QueueHolds' = QueueHolds
          BY <1>2, <2>2, <3>2, <4>1 DEF QueueHolds
        <4> QED BY <1>2, <2>2, <3>2, <4>1, <4>2 DEF Inv, Core, EmptyInv
      <3> QED BY <3>1, <3>2
    <2>4. At(pc', {"waited"}) = {u \in Tasks : pc'[u] = "waited"}
      BY DEF At
    <2>5. EmptyExact'
      BY <1>2, <2>1, <2>3, <2>4, EmptyTypes DEF EmptyExact, Count
    <2> QED BY <1>2, <2>3, <2>5 DEF EmptyInv
  <1>12. CloseInv'
    <2>1. /\ \A u \in Tasks : pc'[u] \in {"waiting", "waited", "destroy"} =>
                                  u # t /\ pc[u] = pc'[u]
      BY <1>3, <1>4
    <2>2. \A u \in Tasks : pc[u] \in {"waiting", "waited", "destroy"} =>
                              u # Destroyer
      BY <1>2 DEF Closing
    <2> QED BY <2>1, <2>2 DEF Inv, Core, CloseInv, At
  <1>13. GoneInv'
    BY <1>2 DEF Inv, Core, GoneInv
  <1>14. DoneInv'
    BY <1>1, <1>2, <1>4, <1>6 DEF Inv, Core, DoneInv
  <1> QED
    BY <1>7, <1>8, <1>9, <1>10, <1>11, <1>12, <1>13, <1>14 DEF Core

\* The first work takes empty_semaphore: nobody held it.
LEMMA LockEmptyCore ==
    ASSUME Inv, NEW t \in Tasks, LockEmpty(t)
    PROVE  Core'
  <1>1. /\ pc[t] = "lock_empty" /\ pc' = [pc EXCEPT ![t] = "add"] /\ ~hung
        /\ empty_semaphore > 0 /\ empty_semaphore' = empty_semaphore - 1
        /\ UNCHANGED <<fresh, list, is_schedulable, timers, done, semaphore,
                       work_count, work, delay, w, iter, niter, hung>>
    BY DEF LockEmpty, worker
  <1>2. pc'[t] = "add" /\ \A u \in Tasks \ {t} : pc'[u] = pc[u]
    BY <1>1 DEF Inv, TypeOK
  <1>3. /\ At(pc', Held) = At(pc, Held) /\ At(pc', {"start"}) = At(pc, {"start"})
        /\ At(pc', Held \cup {"start"}) = At(pc, Held \cup {"start"})
        /\ At(pc', {"waited"}) = At(pc, {"waited"})
        /\ Announcing' = Announcing
    BY <1>1, <1>2 DEF At, Held, Announcing
  <1>4. ListInv' /\ HeldInv' /\ DoneInv'
    BY <1>1, <1>3 DEF Inv, Core, ListInv, HeldInv, DoneInv
  <1>5. WalkInv' /\ TokenInv' /\ CountInv'
    BY <1>1, <1>3
    DEF Inv, Core, WalkInv, ReadyFrom, Ready, TokenInv, Walking, Count,
        CountInv, Running
  <1>6. EmptyInv'
    <2>1. QueueHolds = 0 /\ w # "signal"
      BY <1>1, EmptyTypes DEF QueueHolds
    <2>2. At(pc', {"lock_empty"}) = {} /\ \A u \in Tasks : pc'[u] # "lock_empty"
      BY <1>1, <1>2 DEF At, Inv, Core, EmptyInv
    <2>3. work_count > 0
      <3>1. t \in At(pc, {"lock_empty"})
        BY <1>1 DEF At
      <3> QED BY <3>1, NobodyHolds DEF Inv, TypeOK
    <2>4. QueueHolds' = 1
      BY <1>1, <2>2, <2>3 DEF QueueHolds
    <2>5. At(pc', {"waited"}) = {u \in Tasks : pc'[u] = "waited"}
      BY DEF At
    <2>6. empty_semaphore' + QueueHolds' + Count(At(pc', {"waited"})) = 1
      BY <1>1, <1>3, <2>1, <2>4, EmptyTypes
    <2>7. EmptyExact'
      BY <2>5, <2>6 DEF EmptyExact, Count
    <2> QED BY <1>1, <2>1, <2>2, <2>7 DEF EmptyInv
  <1>7. CloseInv' /\ GoneInv'
    BY <1>1, <1>2 DEF Inv, Core, CloseInv, GoneInv, At
  <1> QED BY <1>4, <1>5, <1>6, <1>7 DEF Core

\* What is added is added behind the worker's walk.
LEMMA WalkGrows ==
    ASSUME Inv, NEW x \in Works, list' = Append(list, x),
           is_schedulable \subseteq is_schedulable',
           UNCHANGED <<w, iter, niter>>
    PROVE  WalkInv'
  <1>1. /\ list \in Seq(Works) /\ Len(list') = Len(list) + 1
        /\ \A i \in 1..Len(list) : list'[i] = list[i] /\ i \in 1..Len(list')
    BY DEF Inv, TypeOK
  <1>2. Range(list) \subseteq Range(list') /\ Ready \subseteq Ready'
    <2>1. Range(list') = Range(list) \cup {x}
      BY <1>1, AppendOnce
    <2> QED BY <2>1 DEF Ready
  <1>3. /\ ReadyFrom(iter) => ReadyFrom(iter)'
        /\ ReadyFrom(niter) => ReadyFrom(niter)'
    BY <1>1 DEF ReadyFrom
  <1> QED BY <1>2, <1>3 DEF Inv, Core, WalkInv

\* The work is linked; the worker may run it from now on, or not yet.
LEMMA AddCore ==
    ASSUME Inv, NEW t \in Tasks, AddWork(t)
    PROVE  Core'
  <1> DEFINE x == work[t]
  <1>1. /\ pc[t] = "add" /\ pc' = [pc EXCEPT ![t] = "start"] /\ ~hung
        /\ list' = Append(list, x)
        /\ is_schedulable' = IF delay[t] THEN is_schedulable
                             ELSE is_schedulable \cup {x}
        /\ UNCHANGED <<fresh, timers, done, semaphore, empty_semaphore,
                       work_count, work, delay, w, iter, niter, hung>>
    BY DEF AddWork, sems, worker
  <1>2. pc'[t] = "start" /\ \A u \in Tasks \ {t} : pc'[u] = pc[u]
    BY <1>1 DEF Inv, TypeOK
  <1>3. /\ t \in At(pc, Held) /\ t \in At(pc, Held \cup {"start"})
        /\ At(pc', Held) = At(pc, Held) \ {t}
        /\ At(pc', {"start"}) = At(pc, {"start"}) \cup {t}
        /\ t \notin At(pc, {"start"})
        /\ At(pc', Held \cup {"start"}) = At(pc, Held \cup {"start"})
        /\ At(pc', {"waited"}) = At(pc, {"waited"})
        /\ At(pc', {"lock_empty"}) = At(pc, {"lock_empty"})
    BY <1>1, <1>2 DEF At, Held
  <1>4. /\ x \in Works \ fresh /\ x \notin Range(list) /\ x \notin is_schedulable
        /\ x \notin timers
        /\ w \in {"run", "free"} => iter # x
    BY <1>3 DEF Inv, Core, HeldInv, ListInv
  <1>5. /\ Range(list') = Range(list) \cup {x} /\ IsInjective(list')
        /\ Len(list') = Len(list) + 1 /\ Len(list) \in Nat
    <2>1. list \in Seq(Works) /\ IsInjective(list)
      BY DEF Inv, TypeOK, Core, ListInv
    <2> HIDE DEF x
    <2> QED BY <1>1, <1>4, <2>1, AppendOnce
  <1>6. \A u \in At(pc, Held \cup {"start"}) : u # t => work[u] # x
    BY <1>3 DEF Inv, Core, HeldInv
  <1>7. At(pc, Held) \subseteq At(pc, Held \cup {"start"})
        /\ At(pc, {"start"}) \subseteq At(pc, Held \cup {"start"})
    BY DEF At
  <1> HIDE DEF x
  <1>8. ListInv'
    BY <1>1, <1>4, <1>5 DEF Inv, Core, ListInv
  <1>9. HeldInv'
    <2>1. \A u \in At(pc', Held \cup {"start"}) : work'[u] \in Works \ fresh'
      BY <1>1, <1>3 DEF Inv, Core, HeldInv
    <2>2. \A u \in At(pc', Held) : work'[u] \notin Range(list') \cup is_schedulable'
      BY <1>1, <1>3, <1>5, <1>6, <1>7 DEF Inv, Core, HeldInv
    <2>3. \A u \in At(pc', {"start"}) : delay'[u] =>
            work'[u] \in Range(list') \ (is_schedulable' \cup timers')
      <3>1. \A u \in At(pc, {"start"}) : delay[u] =>
              work[u] \in Range(list) \ (is_schedulable \cup timers) /\ work[u] # x
        BY <1>3, <1>6, <1>7 DEF Inv, Core, HeldInv
      <3>2. work[t] = x
        BY DEF x
      <3> QED BY <1>1, <1>3, <1>4, <1>5, <3>1, <3>2
    <2>4. \A u, v \in At(pc', Held \cup {"start"}) : work'[u] = work'[v] => u = v
      BY <1>1, <1>3 DEF Inv, Core, HeldInv
    <2>5. w' \in {"run", "free"} =>
            /\ iter' \in Works \ (fresh' \cup Range(list'))
            /\ \A u \in At(pc', Held) : work'[u] # iter'
      BY <1>1, <1>3, <1>4, <1>5 DEF Inv, Core, HeldInv
    <2> QED BY <2>1, <2>2, <2>3, <2>4, <2>5 DEF HeldInv
  <1>10. WalkInv'
    BY <1>1, <1>4, WalkGrows
  <1>11. TokenInv'
    <2>1. CASE delay[t]
      <3>1. Ready' = Ready
        BY <1>1, <1>4, <1>5, <2>1 DEF Ready
      <3>2. Announcing' = Announcing
        BY <1>1, <1>2, <2>1 DEF Announcing
      <3> QED BY <1>1, <3>1, <3>2 DEF Inv, Core, TokenInv, Walking, Count
    <2>2. CASE ~delay[t]
      <3>1. Ready' = Ready \cup {x} /\ x \notin Ready
        BY <1>1, <1>4, <1>5, <2>2 DEF Ready
      <3>2. Announcing' = Announcing \cup {t} /\ t \notin Announcing
        BY <1>1, <1>2, <2>2 DEF Announcing
      <3>3. /\ IsFiniteSet(Ready) /\ Count(Ready) \in Nat
            /\ IsFiniteSet(Announcing) /\ Count(Announcing) \in Nat
        BY CountTypes DEF Inv
      <3>4. Count(Ready') = Count(Ready) + 1
        BY <3>1, <3>3, FS_AddElement DEF Count
      <3>5. Count(Announcing') = Count(Announcing) + 1
        BY <3>2, <3>3, FS_AddElement DEF Count
      <3>6. Walking' = Walking /\ Walking \in Nat /\ semaphore \in Nat
        BY <1>1 DEF Walking, Inv, TypeOK
      <3> QED BY <1>1, <3>3, <3>4, <3>5, <3>6 DEF Inv, Core, TokenInv
    <2> QED BY <2>1, <2>2
  <1>12. CountInv'
    <2>1. Count(At(pc', Held)) = Count(At(pc, Held)) - 1
      <3>1. pc[t] \in Held /\ pc'[t] \notin Held
        BY <1>1, <1>2 DEF Held
      <3> QED BY <1>2, <3>1, AtLeave
    <2>2. Count(At(pc, Held)) \in Nat /\ Running \in Nat /\ Running' = Running
      BY <1>1, CountTypes DEF Inv, Running
    <2>3. work_count = Count(At(pc, Held)) + Len(list) + Running
      BY <1>1, <2>2, <1>5 DEF Inv, Core, CountInv
    <2> QED BY <1>1, <1>5, <2>1, <2>2, <2>3 DEF CountInv
  <1>13. EmptyInv'
    <2>1. QueueHolds' = QueueHolds
      BY <1>1, <1>2 DEF QueueHolds
    <2>2. At(pc', {"waited"}) = {u \in Tasks : pc'[u] = "waited"}
      BY DEF At
    <2>3. EmptyExact'
      BY <1>1, <1>3, <2>1, <2>2, EmptyTypes DEF EmptyExact, Count
    <2> QED BY <1>1, <1>3, <2>3 DEF Inv, Core, EmptyInv
  <1>14. CloseInv' /\ GoneInv'
    BY <1>1, <1>2 DEF Inv, Core, CloseInv, GoneInv, At
  <1>15. DoneInv'
    <2>1. work[t] = x
      BY DEF x
    <2> QED BY <1>1, <1>3, <1>5, <2>1 DEF Inv, Core, DoneInv
  <1> QED
    BY <1>8, <1>9, <1>10, <1>11, <1>12, <1>13, <1>14, <1>15 DEF Core

\* The worker is told of the work, or its watchdog started.
LEMMA StartCore ==
    ASSUME Inv, NEW t \in Tasks, StartWork(t)
    PROVE  Core'
  <1> DEFINE x == work[t]
  <1>1. /\ pc[t] = "start" /\ pc' = [pc EXCEPT ![t] = "idle"] /\ ~hung
        /\ work' = [work EXCEPT ![t] = None]
        /\ delay' = [delay EXCEPT ![t] = FALSE]
        /\ timers' = IF delay[t] THEN timers \cup {x} ELSE timers
        /\ semaphore' = IF delay[t] THEN semaphore ELSE semaphore + 1
        /\ UNCHANGED <<fresh, list, is_schedulable, done, empty_semaphore,
                       work_count, w, iter, niter, hung>>
    BY DEF StartWork, worker
  <1>2. /\ pc'[t] = "idle"
        /\ \A u \in Tasks \ {t} : /\ pc'[u] = pc[u] /\ work'[u] = work[u]
                                   /\ delay'[u] = delay[u]
    BY <1>1 DEF Inv, TypeOK
  <1>3. /\ t \in At(pc, {"start"}) /\ t \in At(pc, Held \cup {"start"})
        /\ At(pc', Held) = At(pc, Held) /\ t \notin At(pc, Held)
        /\ At(pc', {"start"}) = At(pc, {"start"}) \ {t}
        /\ At(pc', Held \cup {"start"}) = At(pc, Held \cup {"start"}) \ {t}
        /\ At(pc', {"waited"}) = At(pc, {"waited"})
        /\ At(pc', {"lock_empty"}) = At(pc, {"lock_empty"})
    BY <1>1, <1>2 DEF At, Held
  <1>4. \A u \in At(pc, Held \cup {"start"}) : u # t =>
          work[u] # x /\ work'[u] = work[u] /\ delay'[u] = delay[u]
    BY <1>2, <1>3 DEF Inv, Core, HeldInv, At
  <1>5. At(pc, Held) \subseteq At(pc, Held \cup {"start"})
        /\ At(pc, {"start"}) \subseteq At(pc, Held \cup {"start"})
    BY DEF At
  <1>6. delay[t] => x \in Range(list) \ (is_schedulable \cup timers)
    BY <1>3 DEF Inv, Core, HeldInv
  <1> HIDE DEF x
  <1>7. ListInv'
    BY <1>1, <1>6 DEF Inv, Core, ListInv
  <1>8. HeldInv'
    <2>1. \A u \in At(pc', Held \cup {"start"}) : work'[u] \in Works \ fresh'
      BY <1>1, <1>3, <1>4 DEF Inv, Core, HeldInv
    <2>2. \A u \in At(pc', Held) : work'[u] = work[u]
      BY <1>3, <1>4, <1>5
    <2>3. \A u \in At(pc', Held) : work'[u] \notin Range(list') \cup is_schedulable'
      BY <1>1, <1>3, <2>2 DEF Inv, Core, HeldInv
    <2>4. \A u \in At(pc', {"start"}) : delay'[u] =>
            work'[u] \in Range(list') \ (is_schedulable' \cup timers')
      <3>1. \A u \in At(pc', {"start"}) : u \in At(pc, {"start"}) /\ u # t
        BY <1>3
      <3>2. \A u \in At(pc, {"start"}) : delay[u] =>
              work[u] \in Range(list) \ (is_schedulable \cup timers)
        BY DEF Inv, Core, HeldInv
      <3> QED BY <1>1, <1>4, <1>5, <3>1, <3>2
    <2>5. \A u, v \in At(pc', Held \cup {"start"}) : work'[u] = work'[v] => u = v
      BY <1>3, <1>4 DEF Inv, Core, HeldInv
    <2>6. w' \in {"run", "free"} =>
            /\ iter' \in Works \ (fresh' \cup Range(list'))
            /\ \A u \in At(pc', Held) : work'[u] # iter'
      BY <1>1, <1>3, <2>2 DEF Inv, Core, HeldInv
    <2> QED BY <2>1, <2>3, <2>4, <2>5, <2>6 DEF HeldInv
  <1>9. Ready' = Ready /\ WalkInv'
    BY <1>1 DEF Inv, Core, WalkInv, ReadyFrom, Ready
  <1>10. TokenInv'
    <2>1. /\ IsFiniteSet(Announcing) /\ Count(Announcing) \in Nat
          /\ Count(Ready) \in Nat /\ semaphore \in Nat
          /\ Walking' = Walking /\ Walking \in Nat
      BY <1>1, CountTypes DEF Inv, TypeOK, Walking
    <2>2. CASE delay[t]
      <3>1. Announcing' = Announcing
        BY <1>1, <1>2, <2>2 DEF Announcing
      <3> QED BY <1>1, <1>9, <2>1, <2>2, <3>1 DEF Inv, Core, TokenInv, Count
    <2>3. CASE ~delay[t]
      <3>1. Announcing' = Announcing \ {t} /\ t \in Announcing
        BY <1>1, <1>2, <2>3 DEF Announcing
      <3>2. Count(Announcing') = Count(Announcing) - 1
        BY <2>1, <3>1, FS_RemoveElement DEF Count
      <3>3. semaphore' = semaphore + 1 /\ w' = w
        BY <1>1, <2>3
      <3> QED BY <1>9, <2>1, <3>2, <3>3 DEF Inv, Core, TokenInv
    <2> QED BY <2>2, <2>3
  <1>11. CountInv' /\ DoneInv'
    <2>1. \A u \in At(pc', Held) : work'[u] = work[u]
      BY <1>3, <1>4, <1>5
    <2>2. CountInv'
      BY <1>1, <1>3 DEF Inv, Core, CountInv, Running, Count
    <2> QED BY <1>1, <1>3, <2>1, <2>2 DEF Inv, Core, DoneInv
  <1>12. EmptyInv'
    <2>1. QueueHolds' = QueueHolds
      BY <1>1, <1>2 DEF QueueHolds
    <2>2. At(pc', {"waited"}) = {u \in Tasks : pc'[u] = "waited"}
      BY DEF At
    <2>3. EmptyExact'
      BY <1>1, <1>3, <2>1, <2>2, EmptyTypes DEF EmptyExact, Count
    <2> QED BY <1>1, <1>3, <2>3 DEF Inv, Core, EmptyInv
  <1>13. CloseInv' /\ GoneInv'
    BY <1>1, <1>2 DEF Inv, Core, CloseInv, GoneInv, At
  <1> QED BY <1>7, <1>8, <1>9, <1>10, <1>11, <1>12, <1>13 DEF Core

-----------------------------------------------------------------------------
(* Interrupts *)

\* A delayed work becomes ready and brings its unit.
LEMMA TimeoutCore ==
    ASSUME Inv, NEW x \in Works, workqueue_delay_timeout(x)
    PROVE  Core'
  <1>1. /\ x \in timers /\ timers' = timers \ {x}
        /\ is_schedulable' = is_schedulable \cup {x}
        /\ semaphore' = semaphore + 1
        /\ UNCHANGED <<fresh, list, done, empty_semaphore, work_count, pc, work,
                       delay, waits, w, iter, niter, hung>>
    BY DEF workqueue_delay_timeout, task, worker
  <1>2. x \in Range(list) /\ x \notin is_schedulable /\ x \notin fresh
    BY <1>1 DEF Inv, Core, ListInv
  <1>3. ListInv'
    BY <1>1, <1>2 DEF Inv, Core, ListInv
  <1>4. HeldInv'
    BY <1>1, <1>2 DEF Inv, Core, HeldInv
  <1>5. Ready' = Ready \cup {x} /\ x \notin Ready
    BY <1>1, <1>2 DEF Ready
  <1>6. WalkInv'
    BY <1>1, <1>5 DEF Inv, Core, WalkInv, ReadyFrom
  <1>7. TokenInv'
    <2>1. /\ IsFiniteSet(Ready) /\ Count(Announcing) \in Nat
          /\ Count(Ready) \in Nat /\ semaphore \in Nat /\ Walking \in Nat
      BY CountTypes DEF Inv, TypeOK, Walking
    <2>2. Walking' = Walking /\ Announcing' = Announcing
      BY <1>1 DEF Walking, Announcing
    <2>3. Count(Ready') = Count(Ready) + 1
      BY <1>5, <2>1, FS_AddElement DEF Count
    <2> QED BY <1>1, <2>1, <2>2, <2>3 DEF Inv, Core, TokenInv, Count
  <1>8. CountInv' /\ DoneInv'
    BY <1>1 DEF Inv, Core, CountInv, DoneInv, Running, Count
  <1>9. EmptyInv' /\ CloseInv' /\ GoneInv'
    BY <1>1 DEF Inv, Core, EmptyInv, EmptyExact, QueueHolds, Count, CloseInv,
                GoneInv
  <1> QED BY <1>3, <1>4, <1>6, <1>7, <1>8, <1>9 DEF Core

\* A handler that queues a work, or hangs.
LEMMA IsrCore ==
    ASSUME Inv, IsrQueue
    PROVE  Core'
  <1>1. /\ w # "gone" /\ ~hung /\ ~Closing /\ work_count' = work_count + 1
        /\ UNCHANGED <<timers, done, pc, work, delay, waits, w, iter, niter>>
    BY DEF IsrQueue, task, worker
  <1>2. PICK x \in fresh :
          /\ fresh' = fresh \ {x}
          /\ \/ /\ work_count = 0 /\ empty_semaphore = 0 /\ hung' = TRUE
                /\ UNCHANGED <<list, is_schedulable, semaphore, empty_semaphore>>
             \/ /\ ~(work_count = 0 /\ empty_semaphore = 0) /\ hung' = hung
                /\ list' = Append(list, x)
                /\ is_schedulable' = is_schedulable \cup {x}
                /\ semaphore' = semaphore + 1
                /\ empty_semaphore' = IF work_count = 0 THEN 0
                                      ELSE empty_semaphore
    BY Zenon DEF IsrQueue
  <1>3. /\ x \in Works /\ x \notin Range(list) /\ x \notin is_schedulable
        /\ x \notin timers /\ work_count \in Nat
        /\ w \in {"run", "free"} => iter # x
        /\ \A u \in At(pc, Held \cup {"start"}) : work[u] # x
    <2>1. /\ x \in Works /\ x \notin Range(list) /\ x \notin is_schedulable
          /\ x \notin timers /\ work_count \in Nat
      BY DEF Inv, TypeOK, Core, ListInv
    <2>2. \A u \in At(pc, Held \cup {"start"}) : work[u] \in Works \ fresh
      BY DEF Inv, Core, HeldInv
    <2>3. w \in {"run", "free"} => iter \notin fresh
      BY DEF Inv, Core, HeldInv
    <2> QED BY <2>1, <2>2, <2>3
  <1>4. /\ At(pc, Held) \subseteq At(pc, Held \cup {"start"})
        /\ At(pc, {"start"}) \subseteq At(pc, Held \cup {"start"})
    BY DEF At
  <1>5. CloseInv' /\ GoneInv'
    <2>1. \A t \in At(pc, {"waiting", "waited", "destroy"}) : t # Destroyer
      BY <1>1 DEF Closing, At
    <2>2. CloseInv'
      BY <1>1, <2>1 DEF Inv, Core, CloseInv, At
    <2> QED BY <1>1, <2>2 DEF GoneInv
  <1>6. CASE hung'
    <2>1. /\ work_count = 0 /\ hung' = TRUE
          /\ UNCHANGED <<list, is_schedulable, semaphore, empty_semaphore>>
      BY <1>1, <1>2, <1>6
    <2>2. ListInv' /\ HeldInv'
      BY <1>1, <1>2, <2>1 DEF Inv, Core, ListInv, HeldInv
    <2>3. WalkInv' /\ TokenInv' /\ DoneInv'
      BY <1>1, <2>1 DEF Inv, Core, WalkInv, ReadyFrom, Ready, TokenInv, Walking,
                        Announcing, Count, DoneInv
    <2>4. CountInv'
      <3>1. Count(At(pc, Held)) \in Nat /\ Len(list) \in Nat /\ Running \in Nat
        BY CountTypes DEF Inv, TypeOK, Running
      <3>2. Running' = Running /\ At(pc', Held) = At(pc, Held) /\ list' = list
        BY <1>1, <2>1 DEF Running
      <3>3. work_count = Count(At(pc, Held)) + Len(list) + Running
        BY <1>1, <3>1 DEF Inv, Core, CountInv
      <3> QED BY <1>1, <2>1, <3>1, <3>2, <3>3 DEF CountInv
    <2>5. EmptyInv'
      <3>1. QueueHolds' = QueueHolds
        BY <1>1, <2>1 DEF QueueHolds
      <3> QED BY <1>1, <2>1, <3>1 DEF Inv, Core, EmptyInv, EmptyExact, Count
    <2> QED BY <1>5, <2>2, <2>3, <2>4, <2>5 DEF Core
  <1>7. CASE ~hung'
    <2>1. /\ ~(work_count = 0 /\ empty_semaphore = 0) /\ hung' = hung
          /\ list' = Append(list, x) /\ is_schedulable' = is_schedulable \cup {x}
          /\ semaphore' = semaphore + 1
          /\ empty_semaphore' = IF work_count = 0 THEN 0 ELSE empty_semaphore
      BY <1>2, <1>7
    <2>2. /\ Range(list') = Range(list) \cup {x} /\ IsInjective(list')
          /\ Len(list') = Len(list) + 1 /\ Len(list) \in Nat
      <3>1. list \in Seq(Works) /\ IsInjective(list)
        BY DEF Inv, TypeOK, Core, ListInv
      <3> QED BY <1>3, <2>1, <3>1, AppendOnce
    <2>3. ListInv'
      BY <1>1, <1>2, <1>3, <2>1, <2>2 DEF Inv, Core, ListInv
    <2>4. HeldInv'
      BY <1>1, <1>2, <1>3, <1>4, <2>1, <2>2 DEF Inv, Core, HeldInv
    <2>5. WalkInv'
      BY <1>1, <1>3, <2>1, WalkGrows
    <2>6. TokenInv'
      <3>1. Ready' = Ready \cup {x} /\ x \notin Ready
        BY <1>3, <2>1, <2>2 DEF Ready
      <3>2. /\ IsFiniteSet(Ready) /\ Count(Announcing) \in Nat
            /\ Count(Ready) \in Nat /\ semaphore \in Nat /\ Walking \in Nat
        BY CountTypes DEF Inv, TypeOK, Walking
      <3>3. Walking' = Walking /\ Announcing' = Announcing
        BY <1>1 DEF Walking, Announcing
      <3>4. Count(Ready') = Count(Ready) + 1
        BY <3>1, <3>2, FS_AddElement DEF Count
      <3> QED BY <1>1, <2>1, <3>2, <3>3, <3>4 DEF Inv, Core, TokenInv, Count
    <2>7. CountInv'
      <3>1. Count(At(pc, Held)) \in Nat /\ Running \in Nat
        BY CountTypes DEF Inv, TypeOK, Running
      <3>2. Running' = Running /\ At(pc', Held) = At(pc, Held)
        BY <1>1 DEF Running
      <3>3. work_count = Count(At(pc, Held)) + Len(list) + Running
        BY <1>1, <2>2, <3>1 DEF Inv, Core, CountInv
      <3> QED BY <1>1, <1>7, <2>2, <3>1, <3>2, <3>3 DEF CountInv
    <2>8. EmptyInv'
      <3>1. CASE work_count = 0
        <4>1. empty_semaphore > 0 /\ empty_semaphore' = 0
          BY <2>1, <3>1, EmptyTypes
        <4>2. QueueHolds = 0 /\ w # "signal"
          BY <4>1, EmptyTypes DEF QueueHolds
        <4>3. At(pc, {"lock_empty"}) = {}
          BY <3>1, NobodyHolds
        <4>4. QueueHolds' = 1
          BY <1>1, <1>7, <3>1, <4>3 DEF QueueHolds, At
        <4>5. EmptyExact'
          BY <1>1, <4>1, <4>2, <4>4, EmptyTypes DEF EmptyExact, Count
        <4> QED BY <1>1, <4>2, <4>3, <4>5 DEF EmptyInv
      <3>2. CASE work_count # 0
        <4>1. work_count > 0 /\ work_count' > 0 /\ empty_semaphore' = empty_semaphore
          BY <1>1, <1>3, <2>1, <3>2
        <4>2. QueueHolds' = QueueHolds
          BY <1>1, <1>7, <4>1 DEF QueueHolds
        <4> QED BY <1>1, <1>7, <2>1, <4>1, <4>2 DEF Inv, Core, EmptyInv, EmptyExact, Count
      <3> QED BY <3>1, <3>2
    <2>9. DoneInv'
      BY <1>1, <1>2, <2>1, <2>2 DEF Inv, Core, DoneInv
    <2> QED BY <1>5, <2>3, <2>4, <2>5, <2>6, <2>7, <2>8, <2>9 DEF Core
  <1> QED BY <1>6, <1>7

-----------------------------------------------------------------------------
(* The worker *)

Walks == {"first", "next", "test", "advance", "del"}

\* While the worker is busy no destroyer has got past its wait.
LEMMA BusyFrame ==
    ASSUME Inv, UNCHANGED pc, w \notin {"lock", "gone"}, w' # "gone"
    PROVE  CloseInv' /\ GoneInv'
  BY DEF Inv, Core, CloseInv, GoneInv, At

\* A step of the walk moves the worker only.
LEMMA WalkCore ==
    ASSUME Inv, w \in Walks, w' \in Walks, WalkInv',
           UNCHANGED <<fresh, list, is_schedulable, timers, done, semaphore,
                       empty_semaphore, work_count, pc, work, delay, hung>>
    PROVE  Core'
  <1>1. /\ w \notin {"lock", "gone", "run", "free", "count", "signal"}
        /\ w' \notin {"lock", "gone", "run", "free", "count", "signal"}
    BY DEF Walks
  <1>2. ListInv' /\ HeldInv'
    BY <1>1 DEF Inv, Core, ListInv, HeldInv
  <1>3. /\ Walking' = Walking /\ Running' = Running /\ Ready' = Ready
        /\ Announcing' = Announcing /\ QueueHolds' = QueueHolds
    BY <1>1 DEF Walks, Walking, Running, Ready, Announcing, QueueHolds
  <1>4. TokenInv' /\ CountInv'
    BY <1>1, <1>3 DEF Inv, Core, TokenInv, CountInv, Count
  <1>5. EmptyInv'
    BY <1>1, <1>3 DEF Inv, Core, EmptyInv, EmptyExact, Count
  <1>6. DoneInv'
    BY <1>1 DEF Inv, Core, DoneInv
  <1>7. CloseInv' /\ GoneInv'
    BY <1>1, BusyFrame
  <1> QED BY <1>2, <1>4, <1>5, <1>6, <1>7 DEF Core

\* The worker takes a unit, and with it the promise of a ready work.
LEMMA WorkerLockCore ==
    ASSUME Inv, WorkerLock
    PROVE  Core'
  <1>1. /\ w = "lock" /\ ~hung /\ semaphore > 0 /\ w' = "first"
        /\ semaphore' = semaphore - 1
        /\ UNCHANGED <<fresh, list, is_schedulable, timers, done,
                       empty_semaphore, work_count, pc, work, delay, iter,
                       niter, hung>>
    BY DEF WorkerLock, task
  <1>2. ListInv' /\ HeldInv' /\ WalkInv' /\ DoneInv'
    BY <1>1 DEF Inv, Core, ListInv, HeldInv, WalkInv, DoneInv
  <1>3. /\ Walking = 0 /\ Walking' = 1 /\ Running' = Running /\ Ready' = Ready
        /\ Announcing' = Announcing /\ QueueHolds' = QueueHolds
    BY <1>1 DEF Walking, Running, Ready, Announcing, QueueHolds
  <1>4. TokenInv'
    <2>1. /\ semaphore \in Nat /\ Count(Announcing) \in Nat
          /\ Count(Ready) \in Nat
      BY CountTypes DEF Inv, TypeOK
    <2>2. semaphore + 0 + Count(Announcing) = Count(Ready)
      BY <1>1, <1>3 DEF Inv, Core, TokenInv
    <2> QED BY <1>1, <1>3, <2>1, <2>2 DEF TokenInv, Count
  <1>5. CountInv' /\ EmptyInv'
    BY <1>1, <1>3 DEF Inv, Core, CountInv, EmptyInv, EmptyExact, Count
  <1>6. CloseInv'
    <2>1. \A t \in At(pc, {"waited", "destroy"}) : t # Destroyer
      <3>1. ASSUME NEW t \in At(pc, {"waited", "destroy"}), t = Destroyer
            PROVE  FALSE
        BY <1>1, <3>1, Quiescent
      <3> QED BY <3>1
    <2> QED BY <1>1, <2>1 DEF Inv, Core, CloseInv
  <1>7. GoneInv'
    BY <1>1 DEF GoneInv
  <1> QED BY <1>2, <1>4, <1>5, <1>6, <1>7 DEF Core

\* The steps of the walk keep a ready work ahead of the worker.
LEMMA WalkStep ==
    ASSUME Inv, Walk
    PROVE  Core'
  <1>1. /\ list \in Seq(Works) /\ IsInjective(list) /\ End \notin Works
        /\ Len(list) \in Nat
    BY WorkqueueAssumption DEF Inv, TypeOK, Core, ListInv
  <1>2. UNCHANGED <<fresh, list, is_schedulable, timers, done, semaphore,
                    empty_semaphore, work_count, pc, work, delay, hung>>
    BY DEF Walk, WalkFirst, WalkNext, WalkTest, WalkAdvance, sems, task
  <1>3. ASSUME NEW x, ReadyFrom(x)
        PROVE  /\ x \in Range(list)
               /\ x \in Ready \/ ReadyFrom(NodeAfter(End, list, x))
    <2>1. PICK i \in 1..Len(list), j \in 1..Len(list) :
            list[i] = x /\ i <= j /\ list[j] \in is_schedulable
      BY <1>3 DEF ReadyFrom
    <2>2. x \in Range(list)
      BY <1>1, <2>1, IndexOfAt
    <2>3. CASE i = j
      BY <2>1, <2>2, <2>3 DEF Ready
    <2>4. CASE i # j
      <3>1. i + 1 \in 1..Len(list) /\ i + 1 <= j /\ i # Len(list)
        BY <1>1, <2>1, <2>4
      <3>2. NodeAfter(End, list, x) = list[i + 1]
        BY <1>1, <2>1, <3>1, NodeAfterAt
      <3> QED BY <2>1, <2>2, <3>1, <3>2 DEF ReadyFrom
    <2> QED BY <2>2, <2>3, <2>4
  <1>4. CASE WalkFirst
    <2>1. w = "first" /\ w' = "next" /\ iter' = NodeAfter(End, list, End)
      BY <1>4 DEF WalkFirst
    <2>2. Ready # {}
      <3>1. /\ semaphore \in Nat /\ Count(Announcing) \in Nat /\ Walking = 1
        BY <2>1, CountTypes DEF Inv, TypeOK, Walking
      <3>2. semaphore + Walking + Count(Announcing) = Count(Ready)
        BY <2>1 DEF Inv, Core, TokenInv
      <3>3. Count(Ready) # 0
        BY <3>1, <3>2
      <3> QED BY <3>3, CountTypes DEF Inv
    <2>3. PICK j \in 1..Len(list) : list[j] \in is_schedulable
      BY <1>1, <2>2, RangeAt DEF Ready
    <2>4. 1 \in 1..Len(list) /\ 1 <= j /\ list # <<>>
      BY <1>1, <2>3
    <2>5. iter' = list[1]
      BY <1>1, <2>1, <2>4, NodeAfterAt
    <2>6. ReadyFrom(list[1])
      BY <2>3, <2>4 DEF ReadyFrom
    <2>7. WalkInv'
      BY <1>2, <2>1, <2>5, <2>6 DEF WalkInv, ReadyFrom
    <2> QED BY <1>2, <2>1, <2>7, WalkCore DEF Walks
  <1>5. CASE WalkNext
    <2>1. /\ w = "next" /\ w' = "test" /\ iter' = iter
          /\ niter' = NodeAfter(End, list, iter)
      BY <1>5 DEF WalkNext
    <2>2. iter \in Range(list) /\ (iter \in Ready \/ ReadyFrom(niter'))
      BY <1>3, <2>1 DEF Inv, Core, WalkInv
    <2>3. WalkInv'
      BY <1>2, <2>1, <2>2 DEF WalkInv, ReadyFrom, Ready
    <2> QED BY <1>2, <2>1, <2>3, WalkCore DEF Walks
  <1>6. CASE WalkTest
    <2>1. /\ w = "test" /\ iter' = iter /\ niter' = niter
          /\ w' = IF iter = End THEN "count"
                  ELSE IF iter \in is_schedulable THEN "del" ELSE "advance"
      BY <1>6 DEF WalkTest
    <2>2. iter \in Range(list) /\ (iter \in Ready \/ ReadyFrom(niter))
      BY <2>1 DEF Inv, Core, WalkInv
    <2>3. iter # End
      BY <1>1, <2>2, RangeAt
    <2>4. WalkInv'
      BY <1>2, <2>1, <2>2, <2>3 DEF WalkInv, ReadyFrom, Ready
    <2> QED BY <1>2, <2>1, <2>3, <2>4, WalkCore DEF Walks
  <1>7. CASE WalkAdvance
    <2>1. /\ w = "advance" /\ w' = "test" /\ iter' = niter
          /\ niter' = NodeAfter(End, list, niter)
      BY <1>7 DEF WalkAdvance
    <2>2. niter \in Range(list) /\ (niter \in Ready \/ ReadyFrom(niter'))
      BY <1>3, <2>1 DEF Inv, Core, WalkInv
    <2>3. WalkInv'
      BY <1>2, <2>1, <2>2 DEF WalkInv, ReadyFrom, Ready
    <2> QED BY <1>2, <2>1, <2>3, WalkCore DEF Walks
  <1> QED BY <1>4, <1>5, <1>6, <1>7 DEF Walk

\* The work leaves the list with the unit that announced it.
LEMMA WorkerDelCore ==
    ASSUME Inv, WorkerDel
    PROVE  Core'
  <1>1. /\ w = "del" /\ w' = "run" /\ list' = Unlink(list, iter)
        /\ UNCHANGED <<fresh, is_schedulable, timers, done, semaphore,
                       empty_semaphore, work_count, pc, work, delay, iter,
                       niter, hung>>
    BY DEF WorkerDel, sems, task
  <1>2. iter \in Range(list) /\ iter \in is_schedulable /\ iter \in Ready
    BY <1>1 DEF Inv, Core, WalkInv, Ready
  <1>3. list \in Seq(Works) /\ IsInjective(list)
    BY DEF Inv, TypeOK, Core, ListInv
  <1>4. /\ Range(list') = Range(list) \ {iter} /\ IsInjective(list')
        /\ Len(list') = Len(list) - 1 /\ Len(list) \in Nat
    BY <1>1, <1>2, <1>3, UnlinkOnce, UnlinkLen
  <1>5. ListInv'
    BY <1>1, <1>2, <1>4 DEF Inv, Core, ListInv
  <1>6. HeldInv'
    <2>1. iter \in Works /\ iter \notin fresh
      BY <1>2, <1>3, RangeAt DEF Inv, Core, ListInv
    <2>2. \A t \in At(pc, Held) : work[t] \notin Range(list) \cup is_schedulable
      BY DEF Inv, Core, HeldInv
    <2>3. \A t \in At(pc, {"start"}) :
            delay[t] => work[t] \in Range(list) \ (is_schedulable \cup timers)
      BY DEF Inv, Core, HeldInv
    <2>4. /\ \A t \in At(pc, Held \cup {"start"}) : work[t] \in Works \ fresh
          /\ \A t, u \in At(pc, Held \cup {"start"}) : work[t] = work[u] => t = u
      BY DEF Inv, Core, HeldInv
    <2> QED BY <1>1, <1>2, <1>4, <2>1, <2>2, <2>3, <2>4 DEF HeldInv
  <1>7. WalkInv'
    BY <1>1 DEF WalkInv
  <1>8. TokenInv'
    <2>1. Ready' = Ready \ {iter}
      BY <1>1, <1>4 DEF Ready
    <2>2. /\ IsFiniteSet(Ready) /\ Count(Announcing) \in Nat
          /\ Count(Ready) \in Nat /\ semaphore \in Nat
      BY CountTypes DEF Inv, TypeOK
    <2>3. Walking = 1 /\ Walking' = 0 /\ Announcing' = Announcing
      BY <1>1 DEF Walking, Announcing
    <2>4. Count(Ready') = Count(Ready) - 1
      BY <1>2, <2>1, <2>2, FS_RemoveElement DEF Count
    <2>5. semaphore + 1 + Count(Announcing) = Count(Ready)
      BY <1>1, <2>3 DEF Inv, Core, TokenInv
    <2> QED BY <1>1, <2>2, <2>3, <2>4, <2>5 DEF TokenInv, Count
  <1>9. CountInv'
    <2>1. Count(At(pc, Held)) \in Nat /\ At(pc', Held) = At(pc, Held)
      BY <1>1, CountTypes DEF Inv
    <2>2. Running = 0 /\ Running' = 1
      BY <1>1 DEF Running
    <2>3. work_count = Count(At(pc, Held)) + Len(list) + 0 + (IF hung THEN 1 ELSE 0)
      BY <2>2 DEF Inv, Core, CountInv
    <2> QED BY <1>1, <1>4, <2>1, <2>2, <2>3 DEF CountInv
  <1>10. EmptyInv'
    <2>1. QueueHolds' = QueueHolds
      BY <1>1 DEF QueueHolds
    <2> QED BY <1>1, <2>1 DEF Inv, Core, EmptyInv, EmptyExact, Count
  <1>11. DoneInv'
    BY <1>1, <1>4 DEF Inv, Core, DoneInv
  <1>12. CloseInv' /\ GoneInv'
    BY <1>1, BusyFrame
  <1> QED
    BY <1>5, <1>6, <1>7, <1>8, <1>9, <1>10, <1>11, <1>12 DEF Core

\* The entry point runs; the work is freed.
LEMMA WorkerRunCore ==
    ASSUME Inv, WorkerRun \/ WorkerFree
    PROVE  Core'
  <1>1. /\ w \in {"run", "free"} /\ w' \in {"free", "count"}
        /\ UNCHANGED <<fresh, list, semaphore, empty_semaphore, work_count, pc,
                       work, delay, iter, niter, hung>>
    BY DEF WorkerRun, WorkerFree, sems, task
  <1>2. /\ w = "run" => done' = done \cup {iter}
        /\ w # "run" => done' = done
        /\ w' = "free" => w = "run"
    BY DEF WorkerRun, WorkerFree
  <1>3. iter \notin Range(list) /\ iter \notin timers
    BY <1>1 DEF Inv, Core, HeldInv, ListInv
  <1>4. /\ timers' = timers
        /\ is_schedulable' \subseteq is_schedulable
        /\ is_schedulable \subseteq is_schedulable' \cup {iter}
    BY <1>3 DEF WorkerRun, WorkerFree
  <1>5. ListInv'
    BY <1>1, <1>3, <1>4 DEF Inv, Core, ListInv
  <1>6. HeldInv'
    <2>1. \A t \in At(pc, Held) : work[t] \notin Range(list) \cup is_schedulable
      BY DEF Inv, Core, HeldInv
    <2>2. \A t \in At(pc, {"start"}) :
            delay[t] => work[t] \in Range(list) \ (is_schedulable \cup timers)
      BY DEF Inv, Core, HeldInv
    <2>3. /\ \A t \in At(pc, Held \cup {"start"}) : work[t] \in Works \ fresh
          /\ \A t, u \in At(pc, Held \cup {"start"}) : work[t] = work[u] => t = u
      BY DEF Inv, Core, HeldInv
    <2>4. /\ iter \in Works \ (fresh \cup Range(list))
          /\ \A t \in At(pc, Held) : work[t] # iter
      BY <1>1 DEF Inv, Core, HeldInv
    <2> QED BY <1>1, <1>4, <2>1, <2>2, <2>3, <2>4 DEF HeldInv
  <1>7. WalkInv'
    BY <1>1 DEF WalkInv
  <1>8. Ready' = Ready
    BY <1>1, <1>3, <1>4 DEF Ready
  <1>9. /\ Walking' = Walking /\ Running' = Running
        /\ Announcing' = Announcing /\ QueueHolds' = QueueHolds
    BY <1>1 DEF Walking, Running, Announcing, QueueHolds
  <1>10. TokenInv' /\ CountInv' /\ EmptyInv'
    <2>1. TokenInv'
      BY <1>1, <1>8, <1>9 DEF Inv, Core, TokenInv, Count
    <2>2. CountInv'
      BY <1>1, <1>9 DEF Inv, Core, CountInv, Count
    <2>3. EmptyInv'
      BY <1>1, <1>9 DEF Inv, Core, EmptyInv, EmptyExact, Count
    <2> QED BY <2>1, <2>2, <2>3
  <1>11. DoneInv'
    BY <1>1, <1>2 DEF Inv, Core, DoneInv
  <1>12. CloseInv' /\ GoneInv'
    BY <1>1, BusyFrame
  <1> QED BY <1>5, <1>6, <1>7, <1>10, <1>11, <1>12 DEF Core

\* The finished work is no longer counted.
LEMMA WorkerCountCore ==
    ASSUME Inv, WorkerCount
    PROVE  Core'
  <1>1. /\ w = "count" /\ ~hung /\ work_count' = work_count - 1
        /\ w' = (IF work_count' = 0 THEN "signal" ELSE "lock")
        /\ UNCHANGED <<fresh, list, is_schedulable, timers, done, semaphore,
                       empty_semaphore, pc, work, delay, iter, niter, hung>>
    BY DEF WorkerCount, task
  <1>2. w' \in {"signal", "lock"} /\ (w' = "signal" <=> work_count' = 0)
    BY <1>1
  <1>3. ListInv' /\ HeldInv' /\ WalkInv' /\ DoneInv'
    BY <1>1, <1>2 DEF Inv, Core, ListInv, HeldInv, WalkInv, DoneInv
  <1>4. /\ Walking' = Walking /\ Ready' = Ready /\ Announcing' = Announcing
        /\ Running = 1 /\ Running' = 0
    BY <1>1, <1>2 DEF Walking, Ready, Announcing, Running
  <1>5. TokenInv'
    BY <1>1, <1>2, <1>4 DEF Inv, Core, TokenInv, Count
  <1>6. /\ Count(At(pc, Held)) \in Nat /\ Len(list) \in Nat
        /\ work_count = Count(At(pc, Held)) + Len(list) + 1
    BY <1>1, <1>4, CountTypes DEF Inv, TypeOK, Core, CountInv
  <1>7. CountInv'
    BY <1>1, <1>4, <1>6 DEF CountInv, Count
  <1>8. EmptyInv'
    <2>1. QueueHolds' = QueueHolds
      <3>1. CASE work_count' = 0
        <4>1. Count(At(pc, Held)) = 0 /\ work_count > 0
          BY <1>1, <1>6, <3>1
        <4>2. At(pc, Held) = {}
          BY <4>1, CountTypes DEF Inv
        <4> QED BY <1>1, <1>2, <3>1, <4>1, <4>2 DEF QueueHolds, At, Held
      <3>2. CASE work_count' # 0
        <4>1. work_count > 0 /\ work_count' > 0
          BY <1>1, <1>6, <3>2
        <4> QED BY <1>1, <1>2, <3>2, <4>1 DEF QueueHolds
      <3> QED BY <3>1, <3>2
    <2>2. ~(w' = "signal" /\ work_count' > 0)
      BY <1>2
    <2> QED BY <1>1, <2>1, <2>2 DEF Inv, Core, EmptyInv, EmptyExact, Count
  <1>9. CloseInv' /\ GoneInv'
    BY <1>1, <1>2, BusyFrame
  <1> QED BY <1>3, <1>5, <1>7, <1>8, <1>9 DEF Core

\* The works' hold of empty_semaphore ends.
LEMMA WorkerSignalCore ==
    ASSUME Inv, WorkerSignal
    PROVE  Core'
  <1>1. /\ w = "signal" /\ ~hung /\ w' = "lock"
        /\ empty_semaphore' = empty_semaphore + 1
        /\ UNCHANGED <<fresh, list, is_schedulable, timers, done, semaphore,
                       work_count, pc, work, delay, iter, niter, hung>>
    BY DEF WorkerSignal, task
  <1>2. ListInv' /\ HeldInv' /\ WalkInv' /\ DoneInv'
    BY <1>1 DEF Inv, Core, ListInv, HeldInv, WalkInv, DoneInv
  <1>3. /\ Walking' = Walking /\ Ready' = Ready /\ Announcing' = Announcing
        /\ Running' = Running
    BY <1>1 DEF Walking, Ready, Announcing, Running
  <1>4. TokenInv' /\ CountInv'
    BY <1>1, <1>3 DEF Inv, Core, TokenInv, CountInv, Count
  <1>5. EmptyInv'
    <2>1. QueueHolds = 1
      BY <1>1 DEF QueueHolds
    <2>2. work_count > 0 => At(pc, {"lock_empty"}) # {}
      BY <1>1 DEF Inv, Core, EmptyInv
    <2>3. QueueHolds' = 0
      BY <1>1, <2>2 DEF QueueHolds, At
    <2>4. EmptyExact'
      BY <1>1, <2>1, <2>3, EmptyTypes DEF EmptyExact, Count
    <2> QED BY <1>1, <2>4 DEF Inv, Core, EmptyInv
  <1>6. CloseInv' /\ GoneInv'
    BY <1>1, BusyFrame
  <1> QED BY <1>2, <1>4, <1>5, <1>6 DEF Core

-----------------------------------------------------------------------------
(* The theorems *)

\* Every step keeps the invariant.
LEMMA WorkqueueStep ==
    ASSUME Inv, [Next]_vars
    PROVE  Inv'
  <1>1. CASE \E t \in Tasks : Task(t)
    <2>1. PICK t \in Tasks : Task(t)
      BY <1>1
    <2>2. Core'
      BY <2>1, ScheduleCore, LockEmptyCore, AddCore, StartCore, WaitEmptyCore,
         WaitLockCore, WaitUnlockCore, DestroyCore DEF Task
    <2> QED BY <2>1, <2>2, TaskType DEF Inv
  <1>2. CASE \E x \in Works : workqueue_delay_timeout(x)
    <2>1. TypeOK'
      BY <1>2, InterruptType
    <2> QED BY <1>2, <2>1, TimeoutCore DEF Inv
  <1>3. CASE IsrQueue
    <2>1. TypeOK'
      BY <1>3, InterruptType
    <2> QED BY <1>3, <2>1, IsrCore DEF Inv
  <1>4. CASE Worker
    <2>1. Core'
      BY <1>4, WorkerLockCore, WalkStep, WorkerDelCore, WorkerRunCore,
         WorkerCountCore, WorkerSignalCore DEF Worker
    <2> QED BY <1>4, <2>1, WorkerType DEF Inv
  <1>5. CASE UNCHANGED vars
    <2> USE <1>5 DEF vars, sems, task, worker, Inv, Core
    <2>1. TypeOK' /\ ListInv' /\ HeldInv'
      BY DEF TypeOK, ListInv, HeldInv
    <2>2. WalkInv' /\ TokenInv'
      BY DEF WalkInv, ReadyFrom, Ready, TokenInv, Walking, Announcing, Count
    <2>3. CountInv' /\ EmptyInv'
      BY DEF CountInv, Running, EmptyInv, EmptyExact, QueueHolds, Count
    <2>4. CloseInv' /\ GoneInv' /\ DoneInv'
      BY DEF CloseInv, GoneInv, DoneInv
    <2> QED BY <2>1, <2>2, <2>3, <2>4
  <1>6. CASE ScheduleFails
    BY <1>5, <1>6 DEF ScheduleFails
  <1> QED BY <1>1, <1>2, <1>3, <1>4, <1>5, <1>6 DEF Next

\* The queue at the start.
LEMMA WorkqueueInit ==
    ASSUME Init
    PROVE  Inv
  <1>0. ~hung /\ work_count = 0 /\ empty_semaphore = 1 /\ w = "lock"
    BY Zenon DEF Init
  <1>1. TypeOK
    <2>1. hung \in BOOLEAN
      BY Zenon DEF Init
    <2>2. delay \in [Tasks -> BOOLEAN]
      BY DEF Init
    <2>3. list \in Seq(Works)
      BY DEF Init
    <2>4. waits \in [Tasks -> 0..MaxWaits] /\ pc \in [Tasks -> TaskPcs]
      BY WorkqueueAssumption DEF Init, TaskPcs
    <2> QED BY <2>1, <2>2, <2>3, <2>4 DEF Init, TypeOK, WorkerPcs
  <1>2. Range(list) = {} /\ Len(list) = 0 /\ IsInjective(list)
    BY DEF Init, Range, IsInjective
  <1>3. /\ \A t \in Tasks : pc[t] = "idle"
        /\ \A S : "idle" \notin S => At(pc, S) = {}
    BY DEF Init, At
  <1>4. /\ At(pc, Held) = {} /\ At(pc, {"start"}) = {}
        /\ At(pc, Held \cup {"start"}) = {} /\ At(pc, {"waited"}) = {}
        /\ At(pc, {"lock_empty"}) = {} /\ Announcing = {} /\ Ready = {}
    BY <1>2, <1>3 DEF Held, Announcing, Ready, At
  <1>5. ListInv /\ HeldInv /\ WalkInv
    BY <1>2, <1>4 DEF Init, ListInv, HeldInv, WalkInv
  <1>6. Count({}) = 0
    BY FS_EmptySet DEF Count
  <1>7. TokenInv
    BY <1>4, <1>6 DEF Init, TokenInv, Walking
  <1>8. CountInv
    <2>1. Running = 0
      BY <1>0 DEF Running
    <2> QED BY <1>0, <1>2, <1>4, <1>6, <2>1 DEF CountInv
  <1>9. EmptyInv
    <2>1. QueueHolds = 0 /\ {t \in Tasks : pc[t] = "waited"} = {}
      BY <1>3 DEF Init, QueueHolds
    <2>2. EmptyExact
      <3>1. Count({t \in Tasks : pc[t] = "waited"}) = 0
        BY <1>6, <2>1
      <3> QED BY <1>0, <2>1, <3>1 DEF EmptyExact
    <2> QED BY <1>4, <2>2 DEF Init, EmptyInv
  <1>10. CloseInv /\ GoneInv /\ DoneInv
    BY <1>3 DEF Init, CloseInv, GoneInv, DoneInv, At
  <1> QED BY <1>1, <1>5, <1>7, <1>8, <1>9, <1>10 DEF Inv, Core

\* The invariant of the queue.
LEMMA WorkqueueInv == Spec => []Inv
  BY WorkqueueInit, WorkqueueStep, PTL DEF Spec

(* Every ready work has its unit of the queue's semaphore and every unit   *)
(* its work, and the unlocked walk (workqueue.c:26) never ends without     *)
(* one, whatever tasks and handlers add meanwhile.                         *)
THEOREM WorkerFindsItsWork == Spec => []TokensMatch
  <1>1. Inv => TokensMatch
    <2> SUFFICES ASSUME Inv, w # "gone" PROVE TokensMatch
      BY DEF TokensMatch
    <2>1. semaphore + Walking + Count(Announcing) = Count(Ready)
      BY DEF Inv, Core, TokenInv
    <2>2. ~(w = "test" /\ iter = End)
      BY RangeAt, WorkqueueAssumption DEF Inv, TypeOK, Core, WalkInv
    <2> QED BY <2>1, <2>2 DEF TokensMatch
  <1> QED BY <1>1, WorkqueueInv, PTL

(* empty_semaphore has one holder: the works together or one waiting task, *)
(* although its lock follows the increment of work_count (workqueue.c:141) *)
(* and its unlock the decrement (workqueue.c:44).                          *)
THEOREM EmptySemaphoreExact == Spec => []EmptyExact
  <1>1. Inv => EmptyExact
    BY DEF Inv, Core, EmptyInv
  <1> QED BY <1>1, WorkqueueInv, PTL

(* A work on the list may run, or has a watchdog, or the task that linked  *)
(* it is about to start its watchdog.                                      *)
Starting == {work[t] : t \in {u \in Tasks : pc[u] = "start" /\ delay[u]}}
DelayInv == Range(list) \subseteq is_schedulable \cup timers \cup Starting

\* Steps of tasks keep it.
LEMMA DelayTask ==
    ASSUME Inv, DelayInv, NEW t \in Tasks, Task(t)
    PROVE  DelayInv'
  <1>1. CASE \/ workqueue_schedule(t) \/ LockEmpty(t) \/ workqueue_wait_empty(t)
             \/ WaitLock(t) \/ WaitUnlock(t)
    <2>1. UNCHANGED <<list, is_schedulable, timers>> /\ pc[t] # "start"
      BY <1>1 DEF workqueue_schedule, LockEmpty, workqueue_wait_empty, WaitLock,
                  WaitUnlock, sems
    <2>2. \A u \in Tasks \ {t} : /\ pc'[u] = pc[u] /\ work'[u] = work[u]
                                  /\ delay'[u] = delay[u]
      BY <1>1 DEF workqueue_schedule, LockEmpty, workqueue_wait_empty, WaitLock,
                  WaitUnlock, Inv, TypeOK
    <2>3. Starting \subseteq Starting'
      BY <2>1, <2>2 DEF Starting
    <2> QED BY <2>1, <2>3 DEF DelayInv
  <1>2. CASE AddWork(t)
    <2>1. /\ list' = Append(list, work[t]) /\ pc[t] = "add" /\ timers' = timers
          /\ is_schedulable' = (IF delay[t] THEN is_schedulable
                                ELSE is_schedulable \cup {work[t]})
          /\ pc' = [pc EXCEPT ![t] = "start"] /\ UNCHANGED <<work, delay>>
      BY <1>2 DEF AddWork
    <2>2. Range(list') = Range(list) \cup {work[t]}
      <3>1. work[t] \in Works /\ list \in Seq(Works)
        BY <2>1 DEF Inv, TypeOK, Core, HeldInv, At, Held
      <3> QED BY <2>1, <3>1, AppendOnce
    <2>3. Starting \subseteq Starting' /\ (delay[t] => work[t] \in Starting')
      BY <2>1 DEF Starting, Inv, TypeOK
    <2> QED BY <2>1, <2>2, <2>3 DEF DelayInv
  <1>3. CASE StartWork(t)
    <2>1. /\ UNCHANGED <<list, is_schedulable>>
          /\ timers' = IF delay[t] THEN timers \cup {work[t]} ELSE timers
      BY <1>3 DEF StartWork
    <2>2. \A u \in Tasks \ {t} : /\ pc'[u] = pc[u] /\ work'[u] = work[u]
                                  /\ delay'[u] = delay[u]
      BY <1>3 DEF StartWork, Inv, TypeOK
    <2>3. Starting \subseteq Starting' \cup (IF delay[t] THEN {work[t]} ELSE {})
      BY <2>2 DEF Starting
    <2> QED BY <2>1, <2>3 DEF DelayInv
  <1>4. CASE workqueue_destroy(t)
    BY <1>4 DEF workqueue_destroy, DelayInv, Range
  <1> QED BY <1>1, <1>2, <1>3, <1>4 DEF Task

\* Steps of interrupts and of the worker keep it.
LEMMA DelayOther ==
    ASSUME Inv, DelayInv, [Next]_vars, ~\E t \in Tasks : Task(t)
    PROVE  DelayInv'
  <1>1. ASSUME UNCHANGED <<pc, work, delay>> PROVE Starting' = Starting
    BY <1>1 DEF Starting
  <1>2. CASE \E x \in Works : workqueue_delay_timeout(x)
    BY <1>1, <1>2 DEF workqueue_delay_timeout, DelayInv, task
  <1>3. CASE IsrQueue
    <2>1. UNCHANGED <<timers, pc, work, delay>>
      BY <1>3 DEF IsrQueue, task
    <2>2. \/ UNCHANGED <<list, is_schedulable>>
          \/ \E x \in Works : /\ list' = Append(list, x)
                               /\ is_schedulable' = is_schedulable \cup {x}
      BY <1>3 DEF IsrQueue, Inv, TypeOK
    <2>3. \A x \in Works : Range(Append(list, x)) = Range(list) \cup {x}
      BY AppendOnce DEF Inv, TypeOK
    <2> QED BY <1>1, <2>1, <2>2, <2>3 DEF DelayInv
  <1>4. CASE WorkerLock \/ Walk \/ WorkerRun \/ WorkerCount \/ WorkerSignal
    <2>1. UNCHANGED <<list, is_schedulable, timers, pc, work, delay>>
      BY <1>4 DEF WorkerLock, Walk, WalkFirst, WalkNext, WalkTest, WalkAdvance,
                  WorkerRun, WorkerCount, WorkerSignal, task
    <2> QED BY <1>1, <2>1 DEF DelayInv
  <1>5. CASE WorkerDel
    <2>1. /\ list' = Unlink(list, iter)
          /\ UNCHANGED <<is_schedulable, timers, pc, work, delay>>
      BY <1>5 DEF WorkerDel, task
    <2>2. iter \in Range(list) /\ list \in Seq(Works) /\ IsInjective(list)
      BY <1>5 DEF WorkerDel, Inv, TypeOK, Core, WalkInv, ListInv, Ready
    <2>3. Range(list') \subseteq Range(list)
      BY <2>1, <2>2, UnlinkOnce
    <2> QED BY <1>1, <2>1, <2>3 DEF DelayInv
  <1>6. CASE WorkerFree
    <2>1. /\ timers' = timers \ {iter} /\ is_schedulable' = is_schedulable \ {iter}
          /\ UNCHANGED <<list, pc, work, delay>>
      BY <1>6 DEF WorkerFree, task
    <2>2. iter \notin Range(list)
      BY <1>6 DEF WorkerFree, Inv, Core, HeldInv
    <2> QED BY <1>1, <2>1, <2>2 DEF DelayInv
  <1>7. CASE ScheduleFails \/ UNCHANGED vars
    BY <1>1, <1>7 DEF ScheduleFails, vars, task, DelayInv
  <1> QED BY <1>2, <1>3, <1>4, <1>5, <1>6, <1>7 DEF Next, Worker

(* A queue that has come to rest has run every work that was scheduled,    *)
(* delayed ones too, and whoever waits for it can go on (workqueue.c:44,   *)
(* 52, 147), whatever tasks, watchdogs and handlers did.                   *)
THEOREM QueueRestsDone == Spec => []RestIsDone
  <1>1. Init => DelayInv
    BY DEF Init, DelayInv, Range
  <1>2. Inv /\ DelayInv /\ [Next]_vars => DelayInv'
    BY DelayTask, DelayOther
  <1>3. Inv /\ DelayInv => RestIsDone
    <2> SUFFICES ASSUME Inv, DelayInv, AtRest
                 PROVE  list = <<>> /\ done \cup fresh = Works /\ empty_semaphore = 1
      BY DEF RestIsDone
    <2>1. /\ At(pc, Held) = {} /\ Announcing = {} /\ Starting = {}
          /\ {t \in Tasks : pc[t] = "waited"} = {}
      BY DEF AtRest, At, Held, Announcing, Starting
    <2>2. Count({}) = 0
      BY FS_EmptySet DEF Count
    <2>3. w = "lock" /\ semaphore = 0 /\ timers = {} /\ ~hung
      BY DEF AtRest
    <2>4. Ready = {}
      <3>1. Walking = 0
        BY <2>3 DEF Walking
      <3>2. Count(Ready) = 0
        BY <2>1, <2>2, <2>3, <3>1 DEF Inv, Core, TokenInv
      <3> QED BY <3>2, CountTypes DEF Inv
    <2>5. Range(list) = {}
      BY <2>1, <2>3, <2>4 DEF DelayInv, Ready
    <2>6. list = <<>>
      <3>1. list \in Seq(Works)
        BY DEF Inv, TypeOK
      <3>2. list # <<>> => 1 \in DOMAIN list
        BY <3>1
      <3> QED BY <2>5, <3>2 DEF Range
    <2>7. done \cup fresh = Works
      BY <2>1, <2>3, <2>5 DEF Inv, TypeOK, Core, DoneInv
    <2>8. work_count = 0
      <3>1. Running = 0 /\ Len(list) = 0
        BY <2>3, <2>6 DEF Running
      <3> QED BY <2>1, <2>2, <2>3, <3>1 DEF Inv, Core, CountInv
    <2>9. QueueHolds = 0
      BY <2>3, <2>8 DEF QueueHolds
    <2>10. empty_semaphore = 1
      <3>1. empty_semaphore + QueueHolds + Count({t \in Tasks : pc[t] = "waited"}) = 1
        BY DEF Inv, Core, EmptyInv, EmptyExact
      <3>2. empty_semaphore \in Nat
        BY DEF Inv, TypeOK
      <3>3. Count({t \in Tasks : pc[t] = "waited"}) = 0
        BY <2>1, <2>2
      <3> QED BY <2>9, <3>1, <3>2, <3>3
    <2> QED BY <2>6, <2>7, <2>10
  <1> QED BY <1>1, <1>2, <1>3, WorkqueueInit, WorkqueueStep, PTL DEF Spec

(* workqueue_destroy (workqueue.c:96), called as its contract says, drops  *)
(* no work and leaves no watchdog behind.                                  *)
THEOREM DestroyIsClean == Spec => DestroyClean
  <1>1. Inv /\ [Next]_vars =>
          [w # "gone" /\ w' = "gone" =>
             list = <<>> /\ timers = {} /\ w = "lock" /\ done \cup fresh = Works]_vars
    <2> SUFFICES ASSUME Inv, Next, w # "gone", w' = "gone"
                 PROVE  /\ list = <<>> /\ timers = {} /\ w = "lock"
                        /\ done \cup fresh = Works
      BY DEF vars, worker
    <2>1. PICK t \in Tasks : workqueue_destroy(t)
      BY DEF Next, Task, workqueue_schedule, LockEmpty, AddWork, StartWork,
             workqueue_wait_empty, WaitLock, WaitUnlock, IsrQueue, worker,
             workqueue_delay_timeout, Worker, Walk, WorkerLock, WalkFirst,
             WalkNext, WalkTest, WalkAdvance, WorkerDel, WorkerRun, WorkerFree,
             WorkerCount, WorkerSignal, ScheduleFails, vars
    <2>2. t = Destroyer /\ t \in At(pc, {"waited", "destroy"}) /\ ~hung
      BY <2>1 DEF workqueue_destroy, Inv, Core, CloseInv, At
    <2> QED BY <2>2, Quiescent
  <1> QED BY <1>1, WorkqueueInv, PTL DEF Spec, DestroyClean

=============================================================================
