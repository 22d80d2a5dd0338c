---------------------------- MODULE Scheduler ----------------------------
(***************************************************************************)
(* The phabos scheduler (kernel/scheduler.c, scheduler-rr.c,               *)
(* scheduler-fifo.c, arch/arm/arm-v7m/scheduler.c) together with the       *)
(* counting semaphores and mutexes that block and wake its tasks           *)
(* (lib/semaphore.c, include/phabos/mutex.h).                              *)
(*                                                                         *)
(* There is one CPU.  Code between irq_disable and irq_enable (and every   *)
(* spinlock section, which is the same thing here) cannot be interrupted   *)
(* and is one step; everything else may be preempted by SysTick or by a    *)
(* device interrupt between two accesses to shared state, so it is split   *)
(* into one step per access.  An interrupt handler is one step: SysTick    *)
(* and the devices share a priority and do not nest.  PendSV has the       *)
(* lowest priority and can be interrupted before it disables interrupts.   *)
(*                                                                         *)
(* task->priority is never assigned by the repository, so each policy has  *)
(* one populated priority level and the comparisons of priorities in       *)
(* sched_add_to_runqueue and schedule never succeed.                       *)
(***************************************************************************)
EXTENDS TaskLists, FiniteSets

CONSTANTS
    Tasks,      \* the tasks, all created and enqueued by task_run
    Idle,       \* the idle task, on no run queue
    Sems,       \* the semaphores; a mutex is one of them
    Mutexes,    \* the semaphores used through mutex_lock/mutex_unlock
    Downers,    \* Downers[s]: the tasks that take s
    Uppers,     \* Uppers[s]: the tasks that release s
    IsrSems,    \* semaphores released by device interrupt handlers
    TimerSems,  \* semaphores released by watchdog callbacks, from SysTick
    SetScheds,  \* tasks that call sched_setscheduler on themselves
    Lockers,    \* tasks that use sched_lock (DWC_SPINLOCK)
    MaxCount    \* bound: no release once a count reaches it

None == "none"
Policies == {"fifo", "rr"}      \* policies[], in the order schedule tries them
Queues == Policies \cup Sems    \* the run queues and the semaphores' wait lists

ASSUME ConstantsAssumption ==
    /\ IsFiniteSet(Tasks)
    /\ Idle \notin Tasks /\ None \notin Tasks /\ None \notin Sems
    /\ Sems \cap Policies = {}
    /\ Mutexes \subseteq Sems
    /\ Downers \in [Sems -> SUBSET Tasks]
    /\ Uppers \in [Sems -> SUBSET Tasks]
    /\ IsrSems \subseteq Sems \ Mutexes
    /\ TimerSems \subseteq Sems \ Mutexes
    /\ SetScheds \subseteq Tasks
    /\ Lockers \subseteq Tasks
    /\ MaxCount \in Nat \ {0}

VARIABLES
    current,        \* the running task
    need_resched,   \* set by sched_yield, cleared by schedule
    pendsv,         \* the PendSV exception is pending
    in_pendsv,      \* the CPU is in pendsv_handler, interrupts still enabled
    is_locked,      \* sched_lock nesting count
    list,           \* list[q]: the tasks linked on run queue or wait list q
    policy,         \* task->policy
    count,          \* semaphore->count
    pc,             \* where each task is in the kernel call it is making
    sem,            \* the semaphore a task is taking or releasing
    tgt,            \* the waiter a releasing task has picked
    holds,          \* the mutexes each task has locked (client state)
    fault           \* the program has left defined behaviour

cpu == <<current, need_resched, pendsv, in_pendsv, is_locked>>
local == <<pc, sem, tgt, holds>>
vars == <<current, need_resched, pendsv, in_pendsv, is_locked, list, policy,
          count, pc, sem, tgt, holds, fault>>

Labels == {"user", "down", "yield", "pend", "check", "first", "del", "add",
           "setsched", "locked"}
Faults == {None, "stale_context", "list_head", "linked_twice"}

TypeOK ==
    /\ current \in Tasks \cup {Idle}
    /\ need_resched \in BOOLEAN
    /\ pendsv \in BOOLEAN
    /\ in_pendsv \in BOOLEAN
    /\ is_locked \in Nat
    /\ list \in [Queues -> Seq(Tasks)]
    /\ policy \in [Tasks -> Policies]
    /\ count \in [Sems -> Nat]
    /\ pc \in [Tasks -> Labels]
    /\ sem \in [Tasks -> Sems \cup {None}]
    /\ tgt \in [Tasks -> Tasks \cup {None}]
    /\ holds \in [Tasks -> SUBSET Mutexes]
    /\ fault \in Faults

-----------------------------------------------------------------------------
(* Lists *)

Linked(l, t) == \E q \in Queues : t \in Range(l[q])

list_del(l, t) == [q \in Queues |-> Unlink(l[q], t)]

list_add(l, q, t) == [l EXCEPT ![q] = Append(@, t)]

\* Mutation: forgets to take the task off the list it is on.
MoveWithoutDel(l, t, q) == list_add(l, q, t)

\* task_add_to_wait_list, and task_remove_from_wait_list run to completion.
Move(l, t, q) == list_add(list_del(l, t), q, t)

-----------------------------------------------------------------------------
(* schedule(), run by SysTick in thread mode and by PendSV. *)

\* Mutation: the RR policy does not rotate its queue.
AfterPickNoRotate(l) == l

\* Each policy picks: the RR one rotates its queue first, whoever then wins.
AfterPick(l) == [l EXCEPT !["rr"] = Rotate(@)]

\* The FIFO policy comes first and no RR task has a greater priority.
PickTask(l) ==
    CASE l["fifo"] # <<>> -> Head(l["fifo"])
      [] l["fifo"] = <<>> /\ l["rr"] # <<>> -> Head(AfterPick(l)["rr"])
      [] OTHER -> Idle

(* kill_task is never set: the tasks of this module do not exit.           *)
(* A locked scheduler returns without saving the interrupted context, yet  *)
(* the handler then resumes current->registers[SP_REG]: the context saved  *)
(* the last time current was switched out, whose stack has been reused.    *)
schedule(l) ==
    IF is_locked > 0
    THEN /\ fault' = "stale_context"
         /\ list' = l
         /\ UNCHANGED <<current, need_resched>>
    ELSE /\ list' = AfterPick(l)
         /\ current' = PickTask(l)
         /\ need_resched' = FALSE
         /\ UNCHANGED fault

-----------------------------------------------------------------------------
(* semaphore_unlock run to completion, as interrupt handlers run it. *)

\* Mutation: wakes the most recent waiter.
WakeLast(l, s) ==
    IF l[s] = <<>> THEN l
    ELSE Move(l, l[s][Len(l[s])], policy[l[s][Len(l[s])]])

WakeFirst(l, s) ==
    IF l[s] = <<>> THEN l
    ELSE Move(l, Head(l[s]), policy[Head(l[s])])

\* Mutation: wakes a waiter only when the count leaves zero.
IsrUpEdge(s) ==
    /\ fault = None
    /\ s \in IsrSems
    /\ count[s] < MaxCount
    /\ count' = [count EXCEPT ![s] = @ + 1]
    /\ list' = IF count[s] = 0 THEN WakeFirst(list, s) ELSE list
    /\ UNCHANGED <<cpu, policy, local, fault>>

\* A device interrupt handler releases s.
IsrUp(s) ==
    /\ fault = None
    /\ s \in IsrSems
    /\ count[s] < MaxCount
    /\ count' = [count EXCEPT ![s] = @ + 1]
    /\ list' = WakeFirst(list, s)
    /\ UNCHANGED <<cpu, policy, local, fault>>

(* systick_handler.  watchdog_check_expired may run one watchdog callback, *)
(* which releases s (bound: one per tick), then the interrupted thread is  *)
(* rescheduled.  When SysTick interrupted PendSV it asks for another one.  *)
Tick(s) ==
    /\ fault = None
    /\ s \in TimerSems \cup {None}
    /\ s # None => count[s] < MaxCount
    /\ count' = IF s = None THEN count ELSE [count EXCEPT ![s] = @ + 1]
    /\ LET l == IF s = None THEN list ELSE WakeFirst(list, s)
       IN IF in_pendsv
          THEN /\ pendsv' = TRUE
               /\ need_resched' = TRUE
               /\ list' = l
               /\ UNCHANGED <<current, fault>>
          ELSE /\ schedule(l)
               /\ UNCHANGED pendsv
    /\ UNCHANGED <<in_pendsv, is_locked, policy, local>>

PendSVEnter ==
    /\ fault = None
    /\ pendsv /\ ~in_pendsv
    /\ pendsv' = FALSE
    /\ in_pendsv' = TRUE
    /\ UNCHANGED <<current, need_resched, is_locked, list, policy, count,
                   local, fault>>

pendsv_handler ==
    /\ fault = None
    /\ in_pendsv
    /\ in_pendsv' = FALSE
    /\ IF need_resched
       THEN schedule(list)
       ELSE UNCHANGED <<list, current, need_resched, fault>>
    /\ UNCHANGED <<pendsv, is_locked, policy, count, local>>

-----------------------------------------------------------------------------
(* What the running task does.  It is not executing while PendSV is        *)
(* pending or active.                                                      *)

Running(t, label) ==
    /\ fault = None
    /\ current = t
    /\ ~pendsv /\ ~in_pendsv
    /\ pc[t] = label

Goto(t, label) == pc' = [pc EXCEPT ![t] = label]

\* sched_yield, called by the task itself.
Yield(t) ==
    /\ Running(t, "user")
    /\ Goto(t, "yield")
    /\ UNCHANGED <<cpu, list, policy, count, sem, tgt, holds, fault>>

\* Mutation: pends PendSV without asking for a reschedule.
YieldFlagForgotten(t) ==
    /\ Running(t, "yield")
    /\ Goto(t, "pend")
    /\ UNCHANGED <<cpu, list, policy, count, sem, tgt, holds, fault>>

\* sched_yield: need_resched = true
YieldFlag(t) ==
    /\ Running(t, "yield")
    /\ need_resched' = TRUE
    /\ Goto(t, "pend")
    /\ UNCHANGED <<current, pendsv, in_pendsv, is_locked, list, policy, count,
                   sem, tgt, holds, fault>>

(* sched_yield: PENDSVSET.  Back from the exception the task returns, or   *)
(* tests the count of the semaphore it is taking again.                    *)
YieldPend(t) ==
    /\ Running(t, "pend")
    /\ pendsv' = TRUE
    /\ Goto(t, IF sem[t] = None THEN "user" ELSE "down")
    /\ UNCHANGED <<current, need_resched, in_pendsv, is_locked, list, policy,
                   count, sem, tgt, holds, fault>>

\* Entry of semaphore_lock.  A client does not lock a mutex it holds.
Lock(t, s) ==
    /\ Running(t, "user")
    /\ t \in Downers[s]
    /\ s \notin holds[t]
    /\ sem' = [sem EXCEPT ![t] = s]
    /\ Goto(t, "down")
    /\ UNCHANGED <<cpu, list, policy, count, tgt, holds, fault>>

\* Mutation: takes a unit without decrementing the count.
TakeWithoutDec(t, s) ==
    /\ UNCHANGED count
    /\ holds' = [holds EXCEPT ![t] = @ \cup ({s} \cap Mutexes)]

Take(t, s) ==
    /\ count' = [count EXCEPT ![s] = @ - 1]
    /\ holds' = [holds EXCEPT ![t] = @ \cup ({s} \cap Mutexes)]

\* Mutation: tests the count with >= 0.
DownOffByOne(t) ==
    /\ Running(t, "down")
    /\ Take(t, sem[t])
    /\ Goto(t, "user")
    /\ sem' = [sem EXCEPT ![t] = None]
    /\ UNCHANGED <<cpu, list, policy, tgt, fault>>

(* One pass of the loop of __semaphore_down_interruptible, interrupts      *)
(* disabled: take a unit, or leave the run queue for the wait list and     *)
(* yield.  lock_interrupted stays false: nothing calls task->unlock.       *)
Down(t) ==
    /\ Running(t, "down")
    /\ LET s == sem[t] IN
       IF count[s] > 0
       THEN /\ Take(t, s)
            /\ Goto(t, "user")
            /\ sem' = [sem EXCEPT ![t] = None]
            /\ UNCHANGED list
       ELSE /\ list' = Move(list, t, s)
            /\ Goto(t, "yield")
            /\ UNCHANGED <<count, holds, sem>>
    /\ UNCHANGED <<cpu, policy, tgt, fault>>

\* _semaphore_trylock, one irq-off section; it changes nothing at zero.
TryLock(t, s) ==
    /\ Running(t, "user")
    /\ t \in Downers[s]
    /\ s \notin holds[t]
    /\ count[s] > 0
    /\ Take(t, s)
    /\ UNCHANGED <<cpu, list, policy, pc, sem, tgt, fault>>

(* semaphore_unlock, called by a task: interrupts stay enabled.  atomic_inc *)
Unlock(t, s) ==
    /\ Running(t, "user")
    /\ t \in Uppers[s]
    /\ IF s \in Mutexes THEN s \in holds[t] ELSE count[s] < MaxCount
    /\ count' = [count EXCEPT ![s] = @ + 1]
    /\ holds' = [holds EXCEPT ![t] = @ \ {s}]
    /\ sem' = [sem EXCEPT ![t] = s]
    /\ Goto(t, "check")
    /\ UNCHANGED <<cpu, list, policy, tgt, fault>>

\* Mutation: never wakes a waiter.
UnlockCheckSkipped(t) ==
    /\ Running(t, "check")
    /\ Goto(t, "user")
    /\ sem' = [sem EXCEPT ![t] = None]
    /\ UNCHANGED <<cpu, list, policy, count, tgt, holds, fault>>

\* if (!list_is_empty(&semaphore->wait_list))
UnlockCheck(t) ==
    /\ Running(t, "check")
    /\ IF list[sem[t]] = <<>>
       THEN /\ Goto(t, "user")
            /\ sem' = [sem EXCEPT ![t] = None]
       ELSE /\ Goto(t, "first")
            /\ UNCHANGED sem
    /\ UNCHANGED <<cpu, list, policy, count, tgt, holds, fault>>

(* list_first_entry reads the list again: on a list emptied since the      *)
(* check it yields the head, taken for a task.                             *)
UnlockFirst(t) ==
    /\ Running(t, "first")
    /\ IF list[sem[t]] = <<>>
       THEN /\ fault' = "list_head"
            /\ UNCHANGED <<pc, tgt>>
       ELSE /\ tgt' = [tgt EXCEPT ![t] = Head(list[sem[t]])]
            /\ Goto(t, "del")
            /\ UNCHANGED fault
    /\ UNCHANGED <<cpu, list, policy, count, sem, holds>>

\* Mutation: leaves the waiter on the wait list.
UnlockDelForgotten(t) ==
    /\ Running(t, "del")
    /\ Goto(t, "add")
    /\ UNCHANGED <<cpu, list, policy, count, sem, tgt, holds, fault>>

\* task_remove_from_wait_list: the irq-off list_del of the waiter's node.
UnlockDel(t) ==
    /\ Running(t, "del")
    /\ list' = list_del(list, tgt[t])
    /\ Goto(t, "add")
    /\ UNCHANGED <<cpu, policy, count, sem, tgt, holds, fault>>

(* sched_add_to_runqueue of t on its policy's queue.  list_add of a node   *)
(* that is still linked corrupts both lists.                               *)
sched_add_to_runqueue(t, p) ==
    IF Linked(list, t)
    THEN /\ fault' = "linked_twice"
         /\ UNCHANGED list
    ELSE /\ list' = list_add(list, p, t)
         /\ UNCHANGED fault

\* task_remove_from_wait_list: the waiter is made runnable.
UnlockAdd(t) ==
    /\ Running(t, "add")
    /\ sched_add_to_runqueue(tgt[t], policy[tgt[t]])
    /\ Goto(t, "user")
    /\ sem' = [sem EXCEPT ![t] = None]
    /\ tgt' = [tgt EXCEPT ![t] = None]
    /\ UNCHANGED <<cpu, policy, count, holds>>

\* sys_sched_setscheduler on the caller: sched_rm_from_runqueue
SetSchedRemove(t) ==
    /\ Running(t, "user")
    /\ t \in SetScheds
    /\ list' = list_del(list, t)
    /\ Goto(t, "setsched")
    /\ UNCHANGED <<cpu, policy, count, sem, tgt, holds, fault>>

(* ... then the policy is changed (an unknown one is left alone) and the   *)
(* task enqueued again.                                                    *)
SetSchedAdd(t, p) ==
    /\ Running(t, "setsched")
    /\ policy' = [policy EXCEPT ![t] = p]
    /\ sched_add_to_runqueue(t, p)
    /\ Goto(t, "user")
    /\ UNCHANGED <<cpu, count, sem, tgt, holds>>

sched_lock(t) ==
    /\ Running(t, "user")
    /\ t \in Lockers
    /\ is_locked' = is_locked + 1
    /\ Goto(t, "locked")
    /\ UNCHANGED <<current, need_resched, pendsv, in_pendsv, list, policy,
                   count, sem, tgt, holds, fault>>

sched_unlock(t) ==
    /\ Running(t, "locked")
    /\ is_locked' = is_locked - 1
    /\ Goto(t, "user")
    /\ UNCHANGED <<current, need_resched, pendsv, in_pendsv, list, policy,
                   count, sem, tgt, holds, fault>>

-----------------------------------------------------------------------------
(* sched_init has run, the tasks have been created in some order and the   *)
(* first tick has not happened yet.                                        *)
Init ==
    /\ current = Idle
    /\ need_resched = FALSE
    /\ pendsv = FALSE
    /\ in_pendsv = FALSE
    /\ is_locked = 0
    /\ \E order \in Bijection(1..Cardinality(Tasks), Tasks) :
         list = [q \in Queues |-> IF q = "rr" THEN order ELSE <<>>]
    /\ policy = [t \in Tasks |-> "rr"]
    /\ count = [s \in Sems |-> IF s \in Mutexes THEN 1 ELSE 0]
    /\ pc = [t \in Tasks |-> "user"]
    /\ sem = [t \in Tasks |-> None]
    /\ tgt = [t \in Tasks |-> None]
    /\ holds = [t \in Tasks |-> {}]
    /\ fault = None

TaskStep(t) ==
    \/ Yield(t) \/ YieldFlag(t) \/ YieldPend(t)
    \/ Down(t)
    \/ \E s \in Sems : Lock(t, s) \/ TryLock(t, s) \/ Unlock(t, s)
    \/ UnlockCheck(t) \/ UnlockFirst(t) \/ UnlockDel(t) \/ UnlockAdd(t)
    \/ SetSchedRemove(t)
    \/ \E p \in Policies : SetSchedAdd(t, p)
    \/ sched_lock(t) \/ sched_unlock(t)

Next ==
    \/ \E s \in Sems : IsrUp(s)
    \/ \E s \in Sems \cup {None} : Tick(s)
    \/ PendSVEnter
    \/ pendsv_handler
    \/ \E t \in Tasks : TaskStep(t)

Spec == Init /\ [][Next]_vars

-----------------------------------------------------------------------------
(* The discipline under which semaphore_unlock is safe although it leaves  *)
(* interrupts enabled: a semaphore is released either by interrupt         *)
(* handlers only, or by one task, or by two tasks that are also the only   *)
(* ones to take it (a mutex between two tasks).                            *)
Disciplined ==
    \A s \in Sems :
        /\ \A t, u \in Uppers[s] : t = u \/ Downers[s] \subseteq {t, u}
        /\ s \in IsrSems \cup TimerSems => Uppers[s] = {}

(* No list head is ever taken for a task and no linked node is ever linked *)
(* again, although semaphore_unlock (semaphore.c:118) is not protected.    *)
NoListFault == fault \in {None, "stale_context"}

(* What the code between DWC_SPINLOCK and DWC_SPINUNLOCK (sched_lock and   *)
(* sched_unlock) relies on: the context of the locking task is the one it  *)
(* keeps running in.                                                       *)
SpinlockKeepsContext == fault # "stale_context"

(* A mutex is locked by at most one task, and it is free exactly when its  *)
(* count is one: whatever the interleaving of lock, trylock and unlock.    *)
MutualExclusion ==
    \A m \in Mutexes :
        \/ count[m] = 1 /\ \A t \in Tasks : m \notin holds[t]
        \/ count[m] = 0 /\ \E t \in Tasks : \A u \in Tasks :
                               m \in holds[u] <=> u = t

(* A task that was put on a wait list tests the semaphore's count again    *)
(* only after somebody took it off the list: sched_yield never returns     *)
(* early, even when a tick clears need_resched between its two writes.     *)
RetestOffList ==
    \A t \in Tasks : Running(t, "down") => ~ \E s \in Sems : t \in Range(list[s])

\* No task occurs twice in l, on one list or on two.
Once(l) ==
    /\ \A q \in Queues : IsInjective(l[q])
    /\ \A q, r \in Queues : q # r => Range(l[q]) \cap Range(l[r]) = {}

(* No task is linked twice, in any interleaving up to a fault.             *)
LinkedOnce == Once(list)

(* Every task is linked exactly once, except the one a release has just    *)
(* taken off a wait list and one that is changing its own policy: no       *)
(* preemption elsewhere loses a task, and none links one twice.            *)
OneList ==
    /\ LinkedOnce
    /\ \A t \in Tasks :
         \/ Linked(list, t)
         \/ \E u \in Tasks : pc[u] = "add" /\ tgt[u] = t
         \/ pc[t] = "setsched"

\* Tasks that are going to test the count of s, or to wake a waiter of s.
Retesting(s) ==
    {t \in Tasks : /\ sem[t] = s
                   /\ pc[t] \in {"down", "yield", "pend"}
                   /\ t \notin Range(list[s])}
Releasing(s) == {t \in Tasks : sem[t] = s /\ pc[t] \in {"check", "first", "del"}}

(* No lost wakeup: while tasks wait on s, every unit of its count is       *)
(* matched by a task on its way to take one or to wake a waiter.           *)
NoLostWakeup ==
    \A s \in Sems :
        list[s] # <<>> =>
            count[s] <= Cardinality(Retesting(s) \cup Releasing(s))

(* Waiters leave a wait list from the front, in the order they arrived.    *)
WakeInOrder ==
    [][\A s \in Sems : \/ list'[s] = list[s]
                       \/ list[s] # <<>> /\ list'[s] = Tail(list[s])
                       \/ \E t \in Tasks : list'[s] = Append(list[s], t)]_vars

=============================================================================
