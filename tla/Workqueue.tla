------------------------------ MODULE Workqueue ------------------------------
(***************************************************************************)
(* One work queue (lib/workqueue.c): the tasks that schedule works, wait   *)
(* for the queue to be empty and destroy it, interrupt handlers that queue *)
(* works, the watchdogs of delayed works, and the queue's worker task.     *)
(*                                                                         *)
(* One CPU, preempted anywhere interrupts are enabled.  A section under    *)
(* the lock, an atomic operation and an interrupt handler are one step     *)
(* each; the worker walks the list with interrupts enabled, one pointer at *)
(* a time.  A watchdog is running or not (Watchdog.tla is about its list). *)
(*                                                                         *)
(* A semaphore is its count.  The step of semaphore_unlock is its          *)
(* atomic_inc: what follows only wakes a task, and here whoever waits may  *)
(* go on as soon as the count allows it, woken or not.  So every order in  *)
(* which the code takes and gives units is a behaviour of this module, up  *)
(* to the one thing left out: both semaphores are released by several      *)
(* tasks and wq->semaphore by handlers too, not with the discipline of     *)
(* Scheduler.tla, so semaphore_unlock may find a waiter, be preempted by   *)
(* another release, and take the empty list's head for a task              *)
(* (semaphore.c:121).  What is shown here holds until that happens, and    *)
(* nothing is claimed of what must happen in the end.                      *)
(***************************************************************************)
EXTENDS TaskLists, FiniteSets

CONSTANTS
    Works,          \* the works, each queued at most once
    IsrWorks,       \* those that interrupt handlers queue
    Tasks,          \* the tasks that use the queue
    Destroyer,      \* one that waits for the queue and destroys it, or None
    End,            \* the list_head of wq->list, where a walk of it ends
    None,
    MaxWaits        \* bound: calls of workqueue_wait_empty by each task

ASSUME WorkqueueAssumption ==
    /\ IsrWorks \subseteq Works /\ End \notin Works /\ None \notin Works
    /\ Destroyer \in Tasks \cup {None} /\ None \notin Tasks
    /\ MaxWaits \in Nat /\ IsFiniteSet(Works) /\ IsFiniteSet(Tasks)

VARIABLES
    fresh,          \* works not queued yet
    list,           \* wq->list
    is_schedulable, \* the works with this flag
    timers,         \* the works whose watchdog runs
    done,           \* ghost: the works whose entry point has run
    semaphore, empty_semaphore, work_count,     \* of the queue
    pc, work, delay,    \* each task's place, work and "is it delayed"
    waits,          \* each task's calls of workqueue_wait_empty
    w, iter, niter, \* the worker's place and nodes
    hung            \* an interrupt handler waits for empty_semaphore

sems == <<semaphore, empty_semaphore, work_count>>
task == <<pc, work, delay, waits>>
worker == <<w, iter, niter>>
vars == <<fresh, list, is_schedulable, timers, done, sems, task, worker, hung>>

TaskPcs == {"idle", "lock_empty", "add", "start", "waiting", "waited",
            "destroy", "gone"}
WorkerPcs == {"lock", "first", "next", "test", "advance", "del", "run",
              "free", "count", "signal", "gone"}

TypeOK ==
    /\ fresh \subseteq Works /\ done \subseteq Works
    /\ is_schedulable \subseteq Works /\ timers \subseteq Works
    /\ list \in Seq(Works)
    /\ semaphore \in Nat /\ empty_semaphore \in Nat /\ work_count \in Nat
    /\ pc \in [Tasks -> TaskPcs]
    /\ work \in [Tasks -> Works \cup {None}]
    /\ delay \in [Tasks -> BOOLEAN]
    /\ waits \in [Tasks -> 0..MaxWaits]
    /\ w \in WorkerPcs
    /\ iter \in Works \cup {End} /\ niter \in Works \cup {End}
    /\ hung \in BOOLEAN

-----------------------------------------------------------------------------
(* Tasks *)

(* The contract of the one that destroys the queue: when it waits for the  *)
(* queue nobody else is in a call, and from then on nobody makes one.      *)
Alone(t) == t = Destroyer => \A u \in Tasks \ {t} : pc[u] = "idle"
Closing == \E t \in Tasks : /\ t = Destroyer
                            /\ pc[t] \in {"waiting", "waited", "destroy"}

\* Mutation: the count is tested before it is incremented.
ScheduleTestsFirst(t) ==
    /\ pc[t] = "idle" /\ ~hung /\ ~Closing
    /\ \E x \in fresh \ IsrWorks, d \in BOOLEAN :
         /\ fresh' = fresh \ {x}
         /\ work' = [work EXCEPT ![t] = x]
         /\ delay' = [delay EXCEPT ![t] = d]
    /\ work_count' = work_count + 1
    /\ pc' = [pc EXCEPT ![t] = IF work_count = 1 THEN "lock_empty" ELSE "add"]
    /\ UNCHANGED <<list, is_schedulable, timers, done, semaphore,
                   empty_semaphore, waits, worker, hung>>

(* workqueue_schedule up to its atomic_inc; workqueue_queue is the call    *)
(* without a delay.                                                        *)
workqueue_schedule(t) ==
    /\ pc[t] = "idle" /\ ~hung /\ ~Closing
    /\ \E x \in fresh \ IsrWorks, d \in BOOLEAN :
         /\ fresh' = fresh \ {x}
         /\ work' = [work EXCEPT ![t] = x]
         /\ delay' = [delay EXCEPT ![t] = d]
    /\ work_count' = work_count + 1
    /\ pc' = [pc EXCEPT ![t] = IF work_count = 0 THEN "lock_empty" ELSE "add"]
    /\ UNCHANGED <<list, is_schedulable, timers, done, semaphore,
                   empty_semaphore, waits, worker, hung>>

(* The zalloc of workqueue_schedule fails, in a task or in a handler: the  *)
(* work is dropped, the caller is not told and the queue is as it was.     *)
ScheduleFails ==
    /\ fresh # {} /\ w # "gone" /\ ~hung /\ ~Closing
    /\ UNCHANGED vars

\* The first work takes empty_semaphore.
LockEmpty(t) ==
    /\ pc[t] = "lock_empty" /\ ~hung /\ empty_semaphore > 0
    /\ empty_semaphore' = empty_semaphore - 1
    /\ pc' = [pc EXCEPT ![t] = "add"]
    /\ UNCHANGED <<fresh, list, is_schedulable, timers, done, semaphore,
                   work_count, work, delay, waits, worker, hung>>

\* The work is linked, under the lock.
AddWork(t) ==
    /\ pc[t] = "add" /\ ~hung
    /\ list' = Append(list, work[t])
    /\ is_schedulable' = IF delay[t] THEN is_schedulable
                         ELSE is_schedulable \cup {work[t]}
    /\ pc' = [pc EXCEPT ![t] = "start"]
    /\ UNCHANGED <<fresh, timers, done, sems, work, delay, waits, worker, hung>>

\* The watchdog of a delayed work is started, the worker told of another.
StartWork(t) ==
    /\ pc[t] = "start" /\ ~hung
    /\ IF delay[t]
       THEN timers' = timers \cup {work[t]} /\ UNCHANGED semaphore
       ELSE semaphore' = semaphore + 1 /\ UNCHANGED timers
    /\ pc' = [pc EXCEPT ![t] = "idle"]
    /\ work' = [work EXCEPT ![t] = None]
    /\ delay' = [delay EXCEPT ![t] = FALSE]
    /\ UNCHANGED <<fresh, list, is_schedulable, done, empty_semaphore,
                   work_count, waits, worker, hung>>

\* workqueue_wait_empty; the timeout is ignored.
workqueue_wait_empty(t) ==
    /\ pc[t] = "idle" /\ ~hung /\ waits[t] < MaxWaits
    /\ ~Closing /\ Alone(t)
    /\ waits' = [waits EXCEPT ![t] = @ + 1]
    /\ pc' = [pc EXCEPT ![t] = "waiting"]
    /\ UNCHANGED <<fresh, list, is_schedulable, timers, done, sems, work,
                   delay, worker, hung>>

WaitLock(t) ==
    /\ pc[t] = "waiting" /\ ~hung /\ empty_semaphore > 0
    /\ empty_semaphore' = empty_semaphore - 1
    /\ pc' = [pc EXCEPT ![t] = "waited"]
    /\ UNCHANGED <<fresh, list, is_schedulable, timers, done, semaphore,
                   work_count, work, delay, waits, worker, hung>>

WaitUnlock(t) ==
    /\ pc[t] = "waited" /\ ~hung
    /\ empty_semaphore' = empty_semaphore + 1
    /\ pc' = [pc EXCEPT ![t] = IF t = Destroyer THEN "destroy" ELSE "idle"]
    /\ UNCHANGED <<fresh, list, is_schedulable, timers, done, semaphore,
                   work_count, work, delay, waits, worker, hung>>

(* workqueue_destroy: the worker is annihilated wherever it is, the works  *)
(* are unlinked and freed, their watchdogs are left alone.                 *)
workqueue_destroy(t) ==
    /\ pc[t] = "destroy" /\ ~hung
    /\ w' = "gone" /\ list' = <<>>
    /\ pc' = [u \in Tasks |-> "gone"]
    /\ UNCHANGED <<fresh, is_schedulable, timers, done, sems, work, delay,
                   waits, iter, niter, hung>>

-----------------------------------------------------------------------------
(* Interrupts *)

\* Mutation: the timer's callback does not tell the worker.
TimeoutSilent(x) ==
    /\ x \in timers /\ w # "gone" /\ ~hung
    /\ timers' = timers \ {x}
    /\ is_schedulable' = is_schedulable \cup {x}
    /\ UNCHANGED <<fresh, list, done, sems, task, worker, hung>>

\* The tick that expires a work's watchdog.
workqueue_delay_timeout(x) ==
    /\ x \in timers /\ w # "gone" /\ ~hung
    /\ timers' = timers \ {x}
    /\ is_schedulable' = is_schedulable \cup {x}
    /\ semaphore' = semaphore + 1
    /\ UNCHANGED <<fresh, list, done, empty_semaphore, work_count, task,
                   worker, hung>>

(* workqueue_queue from an interrupt handler (hub.c, dwc_otg_cil_intr.c).  *)
(* No task runs before the handler returns, so when it has to wait for     *)
(* empty_semaphore it waits for ever.                                      *)
IsrQueue ==
    /\ w # "gone" /\ ~hung /\ ~Closing
    /\ \E x \in fresh \cap IsrWorks :
         /\ fresh' = fresh \ {x}
         /\ IF work_count = 0 /\ empty_semaphore = 0
            THEN /\ hung' = TRUE
                 /\ UNCHANGED <<list, is_schedulable, semaphore, empty_semaphore>>
            ELSE /\ list' = Append(list, x)
                 /\ is_schedulable' = is_schedulable \cup {x}
                 /\ semaphore' = semaphore + 1
                 /\ empty_semaphore' = IF work_count = 0 THEN 0
                                       ELSE empty_semaphore
                 /\ UNCHANGED hung
    /\ work_count' = work_count + 1
    /\ UNCHANGED <<timers, done, task, worker>>

-----------------------------------------------------------------------------
(* The worker *)

WorkerLock ==
    /\ w = "lock" /\ ~hung /\ semaphore > 0
    /\ semaphore' = semaphore - 1
    /\ w' = "first"
    /\ UNCHANGED <<fresh, list, is_schedulable, timers, done, empty_semaphore,
                   work_count, task, iter, niter, hung>>

\* iter = head->next
WalkFirst ==
    /\ w = "first" /\ ~hung
    /\ iter' = NodeAfter(End, list, End)
    /\ w' = "next"
    /\ UNCHANGED <<fresh, list, is_schedulable, timers, done, sems, task,
                   niter, hung>>

\* niter = iter->next
WalkNext ==
    /\ w = "next" /\ ~hung
    /\ niter' = NodeAfter(End, list, iter)
    /\ w' = "test"
    /\ UNCHANGED <<fresh, list, is_schedulable, timers, done, sems, task,
                   iter, hung>>

\* The loop's condition, and the test of is_schedulable.
WalkTest ==
    /\ w = "test" /\ ~hung
    /\ w' = IF iter = End THEN "count"
            ELSE IF iter \in is_schedulable THEN "del" ELSE "advance"
    /\ UNCHANGED <<fresh, list, is_schedulable, timers, done, sems, task,
                   iter, niter, hung>>

\* Mutation: the walk goes on behind the saved node.
AdvanceTwo ==
    /\ w = "advance" /\ ~hung
    /\ iter' = NodeAfter(End, list, niter)
    /\ niter' = NodeAfter(End, list, iter')
    /\ w' = "test"
    /\ UNCHANGED <<fresh, list, is_schedulable, timers, done, sems, task, hung>>

\* iter = niter, niter = niter->next
WalkAdvance ==
    /\ w = "advance" /\ ~hung
    /\ iter' = niter
    /\ niter' = NodeAfter(End, list, niter)
    /\ w' = "test"
    /\ UNCHANGED <<fresh, list, is_schedulable, timers, done, sems, task, hung>>

WorkerDel ==
    /\ w = "del" /\ ~hung
    /\ list' = Unlink(list, iter)
    /\ w' = "run"
    /\ UNCHANGED <<fresh, is_schedulable, timers, done, sems, task, iter,
                   niter, hung>>

\* The entry point runs and returns.
WorkerRun ==
    /\ w = "run" /\ ~hung
    /\ done' = done \cup {iter}
    /\ w' = "free"
    /\ UNCHANGED <<fresh, list, is_schedulable, timers, sems, task, iter,
                   niter, hung>>

\* watchdog_delete and kfree.
WorkerFree ==
    /\ w = "free" /\ ~hung
    /\ timers' = timers \ {iter}
    /\ is_schedulable' = is_schedulable \ {iter}
    /\ w' = "count"
    /\ UNCHANGED <<fresh, list, done, sems, task, iter, niter, hung>>

\* Mutation: empty_semaphore is given back one work too early.
CountEarly ==
    /\ w = "count" /\ ~hung
    /\ work_count' = work_count - 1
    /\ w' = IF work_count' <= 1 THEN "signal" ELSE "lock"
    /\ UNCHANGED <<fresh, list, is_schedulable, timers, done, semaphore,
                   empty_semaphore, task, iter, niter, hung>>

WorkerCount ==
    /\ w = "count" /\ ~hung
    /\ work_count' = work_count - 1
    /\ w' = IF work_count' = 0 THEN "signal" ELSE "lock"
    /\ UNCHANGED <<fresh, list, is_schedulable, timers, done, semaphore,
                   empty_semaphore, task, iter, niter, hung>>

WorkerSignal ==
    /\ w = "signal" /\ ~hung
    /\ empty_semaphore' = empty_semaphore + 1
    /\ w' = "lock"
    /\ UNCHANGED <<fresh, list, is_schedulable, timers, done, semaphore,
                   work_count, task, iter, niter, hung>>

-----------------------------------------------------------------------------
Task(t) ==
    \/ workqueue_schedule(t) \/ LockEmpty(t) \/ AddWork(t) \/ StartWork(t)
    \/ workqueue_wait_empty(t) \/ WaitLock(t) \/ WaitUnlock(t)
    \/ workqueue_destroy(t)

Walk == WalkFirst \/ WalkNext \/ WalkTest \/ WalkAdvance

Worker ==
    \/ WorkerLock \/ Walk \/ WorkerDel \/ WorkerRun \/ WorkerFree
    \/ WorkerCount \/ WorkerSignal

Next ==
    \/ \E t \in Tasks : Task(t)
    \/ \E x \in Works : workqueue_delay_timeout(x)
    \/ ScheduleFails
    \/ IsrQueue
    \/ Worker

\* workqueue_create
Init ==
    /\ fresh = Works /\ list = <<>>
    /\ is_schedulable = {} /\ timers = {} /\ done = {}
    /\ semaphore = 0 /\ empty_semaphore = 1 /\ work_count = 0
    /\ pc = [t \in Tasks |-> "idle"] /\ work = [t \in Tasks |-> None]
    /\ delay = [t \in Tasks |-> FALSE] /\ waits = [t \in Tasks |-> 0]
    /\ w = "lock" /\ iter = End /\ niter = End
    /\ hung = FALSE

Spec == Init /\ [][Next]_vars

-----------------------------------------------------------------------------
(* Properties *)

Count(S) == Cardinality(S)

\* Works on the list that the worker may run, and the tokens on their way.
Ready == {x \in Range(list) : x \in is_schedulable}
Announcing == {t \in Tasks : pc[t] = "start" /\ ~delay[t]}
Walking == IF w \in {"first", "next", "test", "advance", "del"} THEN 1 ELSE 0

(* Every work that may run has a unit of the semaphore, or will get one,   *)
(* and every unit has a work: the worker never sleeps on a ready work, and *)
(* its unlocked walk of the list (workqueue.c:26) never comes back without *)
(* one.                                                                    *)
TokensMatch ==
    w # "gone" => /\ semaphore + Walking + Count(Announcing) = Count(Ready)
                  /\ ~(w = "test" /\ iter = End)

\* Holders of empty_semaphore.
QueueHolds ==
    IF w = "signal" \/ (work_count > 0 /\ ~hung
                        /\ \A t \in Tasks : pc[t] # "lock_empty")
    THEN 1 ELSE 0

(* empty_semaphore is taken once by the works together and once by each    *)
(* task that waits: a lock by the first work (workqueue.c:141) and an      *)
(* unlock after the last (workqueue.c:44) never overtake each other.       *)
EmptyExact ==
    empty_semaphore + QueueHolds + Count({t \in Tasks : pc[t] = "waited"}) = 1

(* workqueue_wait_empty returns when every work is complete, as dwc_os.h   *)
(* says of it: "Blocks until all the work in the workq is complete".       *)
WaitDone ==
    [][\A t \in Tasks : pc[t] = "waiting" /\ pc'[t] = "waited" =>
        list = <<>> /\ w \notin {"run", "free"}]_vars

(* A queue that was waited for can be destroyed, whatever other tasks and  *)
(* handlers did with it before: no work is dropped, the worker holds       *)
(* nothing and no watchdog is left to fire on freed memory                 *)
(* (workqueue.c:96).                                                       *)
DestroyClean ==
    [][w # "gone" /\ w' = "gone" =>
        list = <<>> /\ timers = {} /\ w = "lock" /\ done \cup fresh = Works]_vars

\* Nobody is in a call but to wait, and the worker has nothing to wake for.
AtRest ==
    /\ \A t \in Tasks : pc[t] \in {"idle", "waiting"}
    /\ w = "lock" /\ semaphore = 0 /\ timers = {} /\ ~hung

(* The queue comes to rest only when every work has run, immediate or      *)
(* delayed, and the next to wait for it, or who waits already, goes on:    *)
(* works, units, watchdogs and the two counts never part so that a work is *)
(* left behind or a task waits for works that are gone (workqueue.c:44,    *)
(* 52, 147).                                                               *)
RestIsDone ==
    AtRest => list = <<>> /\ done \cup fresh = Works /\ empty_semaphore = 1

(* No interrupt handler waits for empty_semaphore (workqueue.c:141).       *)
HandlersReturn == ~hung

=============================================================================
