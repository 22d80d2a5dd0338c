# phabos: TLA+ models, model checking and proofs

phabos is a small operating system for ARMv7-M microcontrollers (the Ara
bridges and the SVC), with a preemptive scheduler, a device model, a small VFS,
a Greybus stack on UniPro, and a USB host. This directory models the parts of
it whose correctness depends on interleavings, failures and ordering.

## The system

One CPU. Threads ("tasks") run in thread mode and are preempted by SysTick
(every tick, `systick_handler` calls `schedule`) and by device interrupts, which
share SysTick's priority and do not nest with it. A voluntary switch
(`sched_yield`) sets `need_resched` and pends PendSV, the exception of lowest
priority. `irq_disable`/`irq_enable` nest; on one CPU a spinlock is the same
thing, so an irq-off section is one atomic step of every model here and all
other code is interruptible between two accesses to shared state.

| component | state | operations | hard part |
|---|---|---|---|
| scheduler (`kernel/scheduler*.c`, `arch/arm/arm-v7m/scheduler.c`) | `current`, `need_resched`, `is_locked`, one run queue per policy | `schedule`, `sched_yield`, enqueue, dequeue, `sched_setscheduler`, `sched_lock` | SysTick and PendSV overlap; every step of a thread can be preempted |
| semaphores, mutexes (`lib/semaphore.c`) | count, wait list | lock, trylock, unlock | unlock runs with interrupts enabled, from tasks and from interrupts |
| tasks (`kernel/task.c`) | task records, condition variables | run, exit, annihilate, wait, cond wait/signal/broadcast | gaps between leaving one list and joining another |
| watchdogs (`arch/arm/arm-v7m/watchdog.c`), sleep | sorted timer list | start, cancel, expire, delete | callbacks change the list being walked |
| work queues (`lib/workqueue.c`) | list of works, two semaphores, a count | queue, schedule, worker, wait_empty, destroy | list walked without the lock; delayed works |
| Greybus core (`drivers/greybus/greybus-core.c`) | per cport: tx and rx fifo, watchdog; reference counts | send request, response, time-out, rx | a response races the time-out of its request |
| page and slab allocators (`kernel/mm.c`, `kernel/mcache.c`) | free buckets, slabs | alloc, free, defragment | sharing, merging, accounting |
| hash table (`lib/hashtable.c`) | open-addressed slots with tombstones | add, get, remove, resize | tombstones are not counted |
| VFS and descriptors (`fs/`) | inodes, descriptor table per task | open, close, mkdir, mount | error paths |
| SVC (`apps/svc`) | event list, condition variable | mailbox events, daemon loop | events lost between the daemon's test and its wait |
| UniPro (`drivers/unipro`), AP bridge, DWC2 port | buffers per cport, URBs | send, receive, complete | interrupt and thread share buffers |

Components interact by calls, and through semaphores that interrupt handlers
and watchdog callbacks release. So everything above rests on the scheduler and
the semaphores, which come first. The Greybus core takes its operations from the
slab allocator.

There are no tests in the repository and its documents are build notes; what
the code promises is stated in comments, most of them in the header of the
DWC2 portability layer (`drivers/usb/dwc2/dwc_os.h`).

## Modules

- `TaskLists`: the operations of `lib/list.c` on sequences.
- `Scheduler`: the scheduler with semaphores and mutexes.
- `SchedulerLive`: `Scheduler` with the assumption on time its liveness needs.
- `Watchdog`: the timer list, its tick handler and `nanosleep`.
- `Workqueue`: one work queue with its worker, users and delayed works.
- `GreybusOps`: the operations of one Greybus cport.
- `Mcache`: the slab allocator; `ObjectCache`: what it promises its clients.
- `Buddy`: the page allocator; `Heap`: what it promises its clients.
- `Svc`: the SVC daemon, the switch's interrupt worker and the shell.
- `MCScheduler`, `MCSchedulerLive`, `MCWatchdog`, `MCWorkqueue`,
  `MCGreybusOps`, `MCMcache`, `MCBuddy`, `MCSvc`: instances for TLC.
- `TaskListsProofs`, `SchedulerProofs`, `WatchdogProofs`, `WorkqueueProofs`,
  `GreybusProofs`, `McacheProofs`, `BuddyProofs`, `SvcProofs`: theorems.

How they rest on each other. In `Workqueue`, `GreybusOps` and `Svc` a semaphore or
a mutex is its count or its holder, and whoever waits for it may go on as soon as
the count allows it, woken or not: every order in which units are given and taken
is a behaviour of these models. What they leave out is how a waiter is woken.
`Scheduler` shows that to be right for clients that keep `Disciplined`, and only
for those. The semaphores of a cport keep it (the worker alone takes `rx_sem`,
interrupt handlers alone release it; `sync_sem` is released by the worker alone).
A work queue's `semaphore` is released by tasks, watchdog callbacks and handlers,
its `empty_semaphore` by the worker and by waiters, and `svc->lock` is a mutex of
three tasks: their `semaphore_unlock` can take the head of an emptied list for a
task (`semaphore.c:121`, the `list_head` fault below). What `Workqueue` and `Svc`
show is therefore safety up to that fault; they state no fairness and no liveness.

In `Workqueue` and `GreybusOps` a watchdog runs or does not, which is what
`Watchdog` shows; `Mcache` takes its pages from the allocator that `Buddy` models.

Definitions whose comment begins with "Mutation" are plausible errors: none of
the specifications uses them. Putting one in the place of the definition that
follows it makes a named property fail, which shows that the property can.

## Scheduler

State: `current`, `need_resched` and `is_locked` are the C globals; `pendsv` and
`in_pendsv` say whether the PendSV exception is pending and whether its handler
has started but not yet disabled interrupts. `list[q]` is the list of tasks on a
run queue or wait list `q`; a task has one list node, so `list_del` takes it off
whichever list it is on. `pc[t]` is the point of the kernel call task `t` is in,
`sem[t]` and `tgt[t]` its local variables; `holds[t]` is what the client knows.

Actions: `Tick` is `systick_handler` (in thread mode it reschedules, otherwise it
asks for another PendSV), optionally with one expired watchdog that releases a
semaphore. `IsrUp` is a device handler that releases a semaphore. `PendSVEnter`
and `pendsv_handler` are the two halves of PendSV. `Yield`, `YieldFlag` and
`YieldPend` are the writes of `sched_yield`. `Lock` and `Down` are
`semaphore_lock`: each pass of its loop is an irq-off section. `TryLock` is an
irq-off section. `Unlock`, `UnlockCheck`, `UnlockFirst`, `UnlockDel`, `UnlockAdd`
are the five accesses of `semaphore_unlock`, which a task runs with interrupts
enabled. `SetSchedRemove`/`SetSchedAdd` and `sched_lock`/`sched_unlock` complete
the picture.

What the code does outside of defined behaviour becomes a value of `fault`,
after which the model stops:

- `stale_context`: `schedule` returned early because the scheduler is locked,
  and the handler resumes an old saved context;
- `list_head`: the head of an emptied list was taken for a task;
- `linked_twice`: a linked node was added to a second list.

Not in the model: priorities (nothing assigns `task->priority`, so all tasks
have the same one and the comparisons never succeed), the tickless mode
(`CONFIG_TICKLESS` is off in every configuration), `kill_task` (task exit) and
`semaphore_interrupt` (nothing calls it).

### What is checked

- `RetestOffList`: a task put on a wait list tests the count again only after
  somebody took it off. A tick between the two writes of `sched_yield` clears
  `need_resched`; the property says that the PendSV that follows cannot return
  early to the waiting task.
- `NoLostWakeup`: while tasks wait, each unit is matched by a task on its way to
  take one or to wake a waiter.
- `OneList`: no preemption loses a task or links it twice. The exception is a
  task in `sched_setscheduler`, which leaves its run queue before it joins the
  other: a tick in between loses it.
- `WakeInOrder`: waiters leave a list from its front.
- `MutualExclusion`: one holder, and the count says so.
- `NoListFault`: neither of the two list faults above.
- `RunnableRuns`, `UnitsConsumed` (liveness).

`semaphore_unlock` is not protected, so `NoListFault`, `OneList`, `NoLostWakeup`
and `WakeInOrder` hold only for clients that keep `Disciplined`: a semaphore is
released by interrupt handlers only, or by one task, or by two tasks that are
also the only ones to take it (a mutex of two tasks). Both instances are
disciplined (`ClientsDisciplined`), and the theorems below take it as their
hypothesis. With a mutex of three tasks TLC finds the `list_head` fault: A
unlocks and sees a waiter C, is preempted by B, which locks and unlocks the
mutex and wakes C; A then reads the first entry of an empty list. No document
claims that this works, so it is recorded here and under hazards, not as a
violated run.

### Runs

| run | instance | shows |
|---|---|---|
| `sched_safe` | 3 tasks; a mutex of two of them, a semaphore released by an interrupt and by a watchdog, one released by the third task; `sched_setscheduler`, `sched_lock`; counts up to 2 | all of the safety properties; the model stops at a stale context, so deadlock is not checked |
| `sched_live` | 3 tasks, 2 semaphores with one releasing task and two waiters each, counts up to 1, with fairness | every runnable task runs; released units are taken |

Bounds. Three tasks give a releaser, a waiter and a task that overtakes the
waiter; two waiters on one list are needed for `WakeInOrder`. `MaxCount` bounds
the counts; 2 lets a second release come while the first is still unused.
At most one watchdog expires per tick.

Fairness (`SchedulerLive`). SysTick fires for ever and pending exceptions are
taken (weak fairness). A thread executes at least one step between two ticks: a
period is `CPU_FREQ / HZ` cycles. SysTick is a free-running timer: it does not
fire only in the few instructions between a task leaving the run queue and its
PendSV, nor does it preempt a task at its first instruction every time (strong
fairness). The first of these two is needed: the RR policy rotates its queue
before it picks, so a pick right after the running task has blocked passes over
the task at the front. If every pick followed a block, that task would never
run: `RunnableRuns` holds for a tick that is not in step with the threads, and
says nothing of one that is.

## Greybus operations

`GreybusOps` is `drivers/greybus/greybus-core.c` for one cport, seen by tasks
that send requests (`Clients`; those in `SyncClients` block until the answer),
the cport's worker task, the UniPro receive interrupt and the watchdog.

State: `ref`, `id`, `kind`, `response`, `sync_sem` are fields of the operations,
which are the objects `op_slab` can supply; an object that has been freed keeps
its contents, so a dangling pointer reads what its next owner writes. `tx_fifo`,
`rx_fifo`, `rx_sem`, `wd` belong to the cport. `wire` is what the peer may yet
answer: an answer may come in any order, late, or never, and is lost if
`op_slab` has no object for it. `Init` puts answers to earlier requests there as
well, which have long timed out. `request_id` is the counter that ids are drawn
from; an id is its value modulo `IdSpace`, 0 is skipped, and ids come round for
ever. `ser` and `calls` are ghosts that name a request and count its completions;
`draw` is a ghost that tells two uses of one id apart: the value of the counter.

Actions: `Create`, `Prepare`, `Queue`, `Send`, `SendFailed`, `Wait`, `Destroy`
are the steps of a client, one for each section with interrupts off and one for
each access outside of them. `RxResponse`, `RxRequest`, `gb_operation_timeout`
and `Connect` are interrupts. The worker's walks of `tx_fifo` (after a time-out
and after a response) run with interrupts enabled, so each pointer it reads is a
step: `First`, `ReadNext`, `Test`, `CleanDel` or `ResponseDel`, `Attach`,
`Callback`, `Unref`, `Advance`.

Time. `fires` counts the expirations of the cport's watchdog since an operation
was stamped. The worker may look late, so any operation may have timed out when
it does; the third expiration is certainly later than the delay, the second may
fall on the tick that the strict comparison refuses.

A failed `RET_IF_FAIL` (a reference taken from or given to an object with none)
stops the model: from then on objects change hands under their owners.

Properties:

- `RefExact`: a reference count is the number of holders. Nothing is freed in
  use and nothing leaks.
- `AnswersMatch`: the response attached to a request answers that request, or
  one that is at least a whole round of ids away. `gb_process_response` knows a
  request by its 16-bit id alone, so an answer that is a round late is taken for
  the answer to another request; TLC shows that this happens in `gb_up` (the
  property without its last two disjuncts is violated). No nearer two requests
  are confused.
- `CompletedOnce`: the response and the time-out race for a request and one of
  them completes it, once; a synchronous client goes on only after that.
- `WatchdogCovers`: a pending request is covered by an active watchdog, or by a
  clean-up that has yet to decide whether to start it again.
- `RxCount`: the semaphore says exactly what the worker will find, and the one
  `timedout_operation` is never linked twice.
- `LinkedOnce`, `WalkOnList`: no node is on two lists; the unlocked walk never
  stands on an unlinked node, where it would turn for ever.
- `SyncCompletes` (liveness): a client that waits is woken, by its answer or by the
  time-out, unless the worker matches an answer meanwhile. Each match restarts
  the whole delay of the cport's one watchdog (`greybus-core.c:251`, `:298`), so
  under steady traffic the client of a lost request waits for ever, and the
  property says no more than the code does.
- `Drained` (liveness): once the clients are done every object goes back.
- `RefAsserted` (violated, see below).

| run | instance | shows |
|---|---|---|
| `gb_up` | 2 clients, 3 objects, 2 requests sent, 1 earlier answer under way | the safety properties on a connected cport |
| `gb_down` | 2 clients, 3 objects, 2 requests sent, 1 received, not connected at first | sends that fail, racing the worker, leave the watchdog and the receive queue right |
| `gb_live` | 2 clients, 3 objects, 2 requests, with fairness | a silent peer blocks nobody while no answer is matched, and keeps no object |
| `gb_assert` | 1 client, 2 objects, 1 request, not connected at first | violated: the assertion of `gb_operation_unref` |

Why the bounds are enough: two requests can be pending at once, answered in
either order; three objects hold both and a received message, and are all taken
when an answer comes for each, so the slab is exhausted too. With `IdSpace = 3`
and a counter at 1 the second request of `gb_up` draws the id of the earlier
request whose answer is still under way, and the skipped 0 lies in between. Runs
end when the clients are done, so deadlock is not checked. Objects are
interchangeable and used as a symmetry set, except for liveness, where the cport
has `op_slab` to itself and takes its first free object (`FirstFit`).

Fairness: a client inside a call and the worker are tasks that the scheduler runs
(`sched_live`; their semaphores are disciplined), and a watchdog that stays active
expires. Nothing is assumed of the peer or of `Connect`, nor that a client sends.

`gb_assert`: `gb_operation_send_request` cleans up a failed send without looking
whether the operation is still on `tx_fifo`. If the time-out came first, the
sender drops a reference that was dropped already, and the client's own
`gb_operation_destroy` then fails the assertion. `WalkOnList`, `RefExact` and the
others that `gb_down` does not list fail for the same reason when sends fail.

## Slab allocator

`Mcache` is one cache of `kernel/mcache.c`. `mcache_alloc` and `mcache_free` hold
the cache's spinlock throughout, so a call is one step: `AllocPartial`,
`AllocEmpty` and `AllocNew` by where the slab comes from, `AllocFails` when there
is no memory for the slab's descriptor (its pages, if there were any, are then
lost: `lost`), and `mcache_free`. `lists` are the three lists, `bitmap` and `refcount` the fields of
a slab; `held` and `ret` are what the clients see.

`page_alloc` never returns NULL: on failure it subtracts the size of a header
from NULL. The test in `mcache_allocate_new_slab` does not see it, and the slab
is made of addresses that are not memory. `AllocWild` is that case (if there is
no memory for the descriptor either, the call fails as it should); the model
stops there, so deadlock is not checked. Everything below holds up to it.

- `ListedByUse`: each slab is on exactly the list that says how full it is.
  `mcache_free` does not search the empty list and `mcache_alloc` looks only at
  the first partial slab, so both rely on it.
- `Accounted`: the bits set are the objects clients hold, and `refcount` counts
  them.
- `Implements`: the cache implements `ObjectCache`, in which an allocation
  returns an object nobody holds, and new pages are taken or a call fails only
  when every known object is held. The mapping takes the objects of the slabs
  made so far as the known ones.

Run `mcache`: three slabs of five objects (the number in C), enough for slabs on
every list at once and two on one list; slabs are a symmetry set.

`mcache_destroy` has no caller and is left out.

## Page allocator

`Buddy` is `kernel/mm.c`: `mm_init` and `mm_add_region` (the boot), `kmalloc`
with its fall-back to DMA memory, `kfree`, `page_alloc`, `page_free` and
`__wrap__realloc_r`. Memory is counted in units of the header. A section under
`mm_lock` is one step and each atomic addition to `mm_usage` another, so two
tasks interleave at every point where the code lets them. The recursion of
`fill_bucket` (splitting) and `defragment` (merging) is written in closed form:
which block is taken or made, and what is left on the lists.

- `RegionsDisjoint`: no memory is registered twice. `mm_init` starts its search
  for every region at `mm_start`, which it never advances, so this is not plain.
- `Partition`: free blocks and blocks in use divide the regions, each on one list:
  their units are those of the regions, no unit is in two blocks, and
  `mm_usage.total` is the number of units.
- `FullyMerged`: the two halves of a block of one region are never both free.
- `Implements`: the allocator implements `Heap`: a request is served with memory
  that nobody holds and that has the flags asked for, and fails only when no
  aligned range of free memory could serve it. This needs both of the above: a
  merge that is missed makes a request fail that `Heap` serves.

Run `mm_buddy`: two tasks; a heap of six units that `mm_init` divides into two
regions of different orders, and a region of the board beside it whose blocks
must not merge with the heap's; requests of two orders and two kinds of memory. `MaxUsed` bounds what `mm_usage.used` counts, so that requests which fail
(and stay counted) end; large enough for the memory to run out. The tasks are a
symmetry set. The run ends there, so deadlock is not checked.

Callers free what they were given, pages with the order they asked for. One of
the repository's callers does not: `apba-usb-unipro.c:171` and `:185` swap the
arguments of `page_alloc`, and free with another order than was allocated. That
is an error of the caller, outside this model. So is a size within a header of
2^32, which wraps in `kmalloc` (`mm.c:232`) and is given a block smaller than its
header: `BuddyAssumption` leaves it out.

## Watchdogs and sleep

`Watchdog` is `arch/arm/arm-v7m/watchdog.c` with `systick_handler`'s walk of the
list and `lib/sleep.c`. `wdog_head` is the sorted list, `start` and `end` the
fields of a watchdog, `iter` and `niter` the handler's two nodes. `Systick`,
`watchdog_check_expired` and the callbacks (`sleep_timeout`, `timer_callback`,
`CallbackStarts`, `CallbackCancels`: the four things callbacks of this system do
to watchdogs) are the handler's steps; no task runs between them. A task in
`watchdog_start` reads the time, takes the lock, and gives it up to cancel a
watchdog that runs (`StartLock`, `StartCancel`, `StartAdd`).

- `ListSound`: each running watchdog is on the list once and its memory is
  allocated, although a tick may come where the lock is given up.
- `Sorted`: the order is that of expiration, as the handler assumes. It holds
  while the system has been up for less than 2^31 ticks, less the longest delay
  (`UptimeAssumption`): the comparator returns a 64-bit difference as an int.
- `TickFiresAll`: when the handler ends, no running watchdog is due, whatever
  callbacks started or cancelled on the way.
- `SleepsEnough`: `nanosleep` takes at least the ticks of its request, and no
  callback is left that would post to its dead stack frame.

Run `wd`: an owner with a one-shot and a periodic watchdog, a watchdog that
callbacks start, a watchdog that callbacks cancel, and a sleeper, for three
ticks: enough for a watchdog to expire, be restarted and expire again while
another is due on the same tick, and for one whole sleep.

## Work queues

`Workqueue` is `lib/workqueue.c`. A work is scheduled in four steps (count,
`empty_semaphore`, link, start), because a task can be preempted between them;
from an interrupt handler (`IsrQueue`) it is one step, or the handler waits for
a semaphore and nothing ever runs again (`hung`). The worker walks the list with
interrupts enabled, so every pointer it reads is a step. `workqueue_delay_timeout`
is the tick that makes a delayed work ready. A work for which there is no memory
is dropped without a word, before it is counted (`ScheduleFails`).

- `TokensMatch`: every ready work has its unit of the semaphore and every unit
  its work; the worker's walk never comes back without one.
- `EmptyExact`: `empty_semaphore` is taken exactly once by the works together.
- `DestroyClean`: a queue that was waited for can be destroyed. The contract of
  the destroyer is the one of `dwc_otg_cil_remove`: interrupts are off and no
  other task is in a call (`Alone`, `Closing`).
- `RestIsDone`: when nobody is in a call, no watchdog runs and the worker has no
  unit to take, every work that was scheduled has run and `empty_semaphore` is
  free for whoever waits. This is what progress of the queue rests on; that it
  comes to rest is not claimed.
- `WaitDone` (violated, see below).

Runs: `wq` (two tasks, three works of theirs, each immediate or delayed, one of
an interrupt handler, one wait each; one task destroys the queue) and `wq_wait`
(two tasks, two works). Two works on the list at once and a third behind the
walk are needed to see the walk's races. A work is scheduled once, so runs end
and deadlock is not checked.

All of it holds until a handler hangs, and up to a `list_head` fault of the two
semaphores (see Modules).

## SVC

`Svc` is the daemon of `apps/svc/svc.c`, the worker of the switch's interrupt and
the shell's start and stop. They share `struct svc` under `svc->lock`; the daemon
waits on `svc->cv`, which is modelled step by step (`Loop`, `Unqueue`, `Link`,
`Relock`: the mutex is released, the task leaves its run queue, is linked, and
takes the mutex again, with a `Tick` possible in between). The start-up may fail
before there is a switch, or after: with the list of events as it was (`error2`)
or already emptied (`error3`). The switch's registers, routes and the answers of the AP
to the poke are choices.

A signal on a condition that nobody waits for puts the list's own head on a run
queue (`stray`). The model stops there: everything below holds up to it, and up
to a `list_head` fault of `svc->lock` (see Modules).

- `OneDaemon`: one daemon at a time runs, with the switch it made, however the
  shell's commands, failures and the daemon's end interleave.
- `HotplugAfterHello`: the AP hears of modules only after a handshake, in
  whatever order it and the modules report.

That a daemon which is told to stop does so in the end is not claimed: the stop
is heard only by a daemon that is on the condition's list (`SignalsReach` below).

Run `svc`: two daemons in turn, the AP, a module, and a module on a port that the
board's table does not know. Two daemons are needed for a stop to meet a start; a
third changes nothing that the second did not. Ends with the last daemon, so
deadlock is not checked.

## Disagreements

What the code does and what a comment, a header or an assertion says. The first
two are runs of the project; each property that the others name is refuted by
TLC when it is put in the place of those of the named configuration (with other
constants where given).

- `gb_assert`, `RefAsserted`: see Greybus operations.
- `wq_wait`, `WaitDone`: `workqueue_schedule` counts its work and only then takes
  `empty_semaphore` (`lib/workqueue.c:140`). A second task that schedules in
  between sees a count of two, and its `workqueue_wait_empty` returns with its
  own work still queued; `dwc_os.h:1014` says "Blocks until all the work in the
  workq is complete or timed out."
- `Workqueue`, `HandlersReturn`: a handler that queues a work (`hub.c:111`,
  `dwc_otg_cil_intr.c:435`) may wait for `empty_semaphore` while the task that
  holds it is the one it interrupted.
- The timeout of `workqueue_wait_empty` is ignored ("TODO implement the timeout");
  `dwc_os.h:1014` goes on "Returns < 0 on timeout." There is no run of it: the
  action `workqueue_wait_empty` has no step but the one that gets the semaphore.
- `SchedulerSafe`, `SpinlockKeepsContext`: a tick inside a `DWC_SPINLOCK` section
  (`sched_lock`) makes `schedule` return early (`kernel/scheduler.c:102`), and
  `systick_handler` resumes the context saved the last time the task was
  switched out.
- `Watchdog`, `CancelledIsDisabled`: a callback that cancels the watchdog the
  handler visits next: the handler goes on to the unlinked node, calls its
  callback and, since an unlinked node is its own successor, stays there
  (`watchdog.c:77`); `dwc_os.h:1072` says of `DWC_TIMER_CANCEL` "Disables the timer
  from execution."
- `Buddy`, `UsageExact`: a request that fails stays counted in `mm_usage.used`
  (`mm.c:238`), which `apps/free.c:18` prints.
- `Buddy`, `FailureIsNull`: `page_alloc` without memory returns a pointer just
  below zero (`mm.c:284`), which passes the tests of `task.c:167` and
  `mcache.c:150`.
- `Buddy` with `SHeap = 18`, `Eor = 28`, `RegionsDisjoint`: `mm_init` starts every
  search at `mm_start`, which it never advances (`mm.c:404`). When the memory's
  length is no power of two (tsb-es1, tsb-es2) it may register one region twice.
  `RegionsApart`, below, says when it does not.
- `Svc`, `SignalsReach`: `svcd_stop` right after `svcd_start`, or a mailbox event
  while the daemon is on its way to the wait list, signals nobody
  (`task.c:109`); `svc.c:620` says "signal main thread to stop".
- `Svc`, `HelloEachRun`: `ap_initialized` is never reset (`svc.c:535`): a second
  daemon sends hotplugs over a switch that was powered off, without a handshake.
- `Svc`, `StopWaits` and `SwitchAlive`: no task is ever added to `task_table`, so
  `task_wait(find_task_by_id(...))` returns at once. `svcd_stop` (`svc.c:625` "wait
  for the svcd to stop") does not wait, and `switch_exit` frees the switch under
  its worker (`tsb_switch.c:1585`).
- `Svc`, `EventsFreedOnce`: `svc_handle_events` frees
  events that stay on the list (`svc.c:416`) and frees them again next time.
- `Svc`, `HandshakeAnswered`: the daemon sends the handshake's requests with
  `svc->lock` held; a worker that waits for the lock (`svc.c:144`) cannot read
  the answers, the requests time out, and the daemon takes the AP for
  initialized.

## Theorems

All of these are for every value of the constants that satisfies the modules'
named assumptions. `TaskListsProofs` proves what `list_del`, `list_add`, rotation
and following a node's successor do to one list without repetition.

### Scheduler (`SchedulerProofs`)

For every set of tasks and semaphores and every assignment of users:

- `TypeCorrect`: `Spec => []TypeOK`; counts are natural numbers, so no release
  and no wake-up lets a count drop below zero. `TypeOK` is not inductive: the
  step that deletes the picked waiter needs to know that there is one, so the
  invariant `TypeInv` adds what a task's local variables hold at each label, and
  that lists have no repetition (`LinkedOnce`), without which `list_del` does
  not remove the task.
- `ListsWellFormed`: `Spec => []LinkedOnce`.
- `MutexesExclude`: `Spec => []MutualExclusion`, from `TypeInv`: only `Take` and
  `Unlock` change a mutex's count.
- `YieldBlocks`: `Spec => []RetestOffList`. The strengthening `RetestInv` says
  that a running task which is on a wait list is on its way out (`Leaving`):
  before the first write, or between the two with `need_resched` set, or with
  PendSV pending or active and `need_resched` set; a tick that clears
  `need_resched` picks a task from a run queue, which by `LinkedOnce` waits on
  nothing. `WaitInv` says where a waiting task can be.

For clients that keep `Disciplined`:

- `ReleaseIsSafe` (`NoListFault`) and `NoTaskLost` (`OneList`), from `SemInv`: the
  invariants above and `ReleaseInv`, which says of each task inside
  `semaphore_unlock` that what it saw still holds: the list it tested still has
  a waiter and the waiter it picked is still the first (`Pick`), the waiter it
  took off is on no list, does not run and is inside `semaphore_lock` (`Hand`).
  The discipline enters in one lemma, `OneReleaser`: two tasks inside
  `semaphore_unlock` of one semaphore are its only users, so nobody waits on it.
- `WakeupsArrive` (`NoLostWakeup`), from `SemInv` and the count itself: each step
  changes the set of tasks that are busy with a semaphore by one task at most.
- `WaitersServedInOrder` (`WakeInOrder`, an action property), from `SemInv`: a
  release takes off the head because `Pick` says that the head is what it holds.

### Greybus (`GreybusProofs`)

For any clients (finitely many), objects, ids and bounds, with sends that may
fail:

- `GreybusTypes`: `Spec => []TypeOK`. The invariant `TypeInv` adds what clients
  and worker have in their hands at each step, and that the length of `rx_fifo`
  is the count of its semaphore, without which `Take` could find it empty.
- `ReceiveQueueCounted`: `Spec => []RxCount`, from `TypeInv` and `TimeoutOnce`,
  which is inductive by itself given the types.
- `WaitingIsTimed`: `Spec => []WatchdogCovers`. The property is inductive on top
  of `TypeInv`: only `Update` and an empty `tx_fifo` let the watchdog rest, and
  the interrupt that stops it queues the clean-up or finds it queued.

For a cport that is connected from the start (`AlwaysConnected`, the instance of
`gb_up`), where no send fails. The hypothesis is needed: `gb_assert` shows a failed
send dropping a reference twice, and what follows it breaks the others.

- `OperationsLinkedOnce` (`LinkedOnce`), `ReferencesExact` (`RefExact`),
  `WalkStaysOnList` (`WalkOnList`) and `AssertionHolds` (`RefAsserted`, so the
  assertion fails only where a send did), from `CountInv`. It gives each object
  at most one role, a request that was sent or a message that came, and writes
  its reference count as a sum of four terms: its client, the queue (or the
  hand of the client or worker that is putting it there or has just taken it
  off), the receive queue or the worker, and the request it is attached to. The
  walk's part says that the next node was read from a node still in place.
- `AnswersAreOurs` (`AnswersMatch`), from `CountInv`, `IdInv` and `MatchInv`: an id
  is what its draw leaves modulo `IdSpace`, in an operation as on the wire, and
  the worker attaches only what has the id of the request. Equal remainders mean
  the same draw or draws at least `IdSpace` apart. For any `IdSpace` above 1, any
  start of the counter and any number of requests: ids come round and are used
  again, and answers from before the start may come at any time.
- `CompletionOnce` (`CompletedOnce`), from `CountInv` and where in a request's
  life its one completion has happened (`CallInv`).

### Watchdogs and sleep (`WatchdogProofs`)

For any watchdogs, owners, delays and callbacks:

- `WatchdogListSound` (`ListSound`) and `WatchdogListSorted` (`Sorted`), from one
  invariant: the list holds allocated and started watchdogs once, in order; the
  nodes the tick handler holds are allocated; a task that has given up the lock
  inside `watchdog_start` has its watchdog to itself and off the list; times stay
  within `UptimeAssumption`, which the comparator's `int` needs.
- `WatchdogTickFiresAll` (`TickFiresAll`): the handler stands on the first
  watchdog or none is due any more (`WalkInv`), which the order makes enough.
- `SleepersSleepEnough` (`SleepsEnough`): a sleeper's semaphore is posted by its
  own watchdog, once, and not before its deadline (`SleepInv`); rounding to
  ticks is proved not to lose time.

The last two assume `CancelOthers`: a watchdog that callbacks cancel is not
periodic, is not started by callbacks and is no sleeper's. Without it TLC finds
`TickFiresAll` violated: the handler turns on a node that was cancelled under it
(`CancelledIsDisabled` above), that node's callback links it again behind a
watchdog that is due, and the handler goes on from there to the end of the list.
`WatchdogAssumption` also says that each task owns a watchdog, each sleeper
exactly one, and that watchdogs are not shared.

### Work queues (`WorkqueueProofs`)

For any finite sets of works and tasks:

- `WorkerFindsItsWork` (`TokensMatch`), `EmptySemaphoreExact` (`EmptyExact`) and
  `DestroyIsClean` (`DestroyClean`, an action property), from one invariant. Its
  central parts: units of the semaphore, the one the worker took and those about
  to be released are as many as the ready works (`TokenInv`); the walk has a
  ready work at or behind the node it stands on (`WalkInv`), because works are
  added at the end and the one worker removes them; `work_count` counts the works
  in the hands of tasks, on the list and in the worker (`CountInv`); no work is
  dropped (`DoneInv`). `DestroyClean` also uses the destroyer's contract
  (`CloseInv`).
- `QueueRestsDone` (`RestIsDone`), from that invariant and `DelayInv`: a work on
  the list may run, or has a watchdog, or is in the hands of the task that is
  about to start its watchdog. At rest there are no units, so nothing is ready,
  so the list is empty, and the counts follow.

### SVC (`SvcProofs`)

For any number of starts and any finite set of ports:

- `SvcTypes`: `Spec => []TypeOK`.
- `OneDaemonAtATime` (`OneDaemon`), from `RunInv`: at most one daemon is active,
  it is the one started last, and `state` says so.
- `HelloFirst` (`HotplugAfterHello`), from `HelloInv`: events are handled only with
  `ap_initialized` set, which this daemon or an earlier one did after a handshake.

### Slab allocator (`McacheProofs`)

For any number of slabs and of objects per slab:

- `SlabsListed`, `ObjectsAccounted`: `Spec => []ListedByUse`, `Spec =>
  []Accounted`. They need each other: that a release finds its slab follows from
  both. The invariant `CacheInv` adds the types, that no list holds a slab twice,
  and that a slab which does not exist has no object in use.
- `McacheImplements`: `Spec => Implements`, the refinement, from `CacheInv`. That
  the search for a free object finds one is the least-number principle
  (`FirstExists`).

### Page allocator (`BuddyProofs`)

For any heap, board, requests and number of tasks, as long as the registered
regions share no memory (`RegionsDisjoint`):

- `BlocksPartition` (`Partition`), `BlocksFullyMerged` (`FullyMerged`) and
  `BuddyTypes`, from one invariant, `BuddyInv` (theorem `AllocatorInvariant`).
  A region is aligned and smaller than the largest list (`RegionsGood`). If
  regions share no memory, a task's place tells what it has in its hands
  (`Places`, `Hands`); blocks are aligned and inside the region their header
  names (`BlocksGood`); no unit is in two blocks and each unit of a region is in
  one (`Apart`, `Cover`); no list holds a block twice; no two free blocks could
  merge; and `total` is the size of the memory (`Counted`). The alignment and
  the header's region are what `Partition` lacks to be inductive: without them a
  block's buddy could lie across a block in use.
- `BuddyImplements` (`Implements`): with `[]RegionsDisjoint`, every step is a step
  of `Heap` or a stutter. That what is found is free memory of the kind asked for
  is `FoundFits`. That a refusal is right is `FreeRoom`: take the smallest free
  block inside a free aligned range; if it were smaller than the range, the
  units of its buddy would be in free blocks, hence in one no smaller, which can
  only be the buddy itself, and the two would have merged.

The hypothesis is needed (`RegionsDisjoint` under Disagreements), and there is a
condition on the board under which it holds:

- `RegionsApart` (`RegionsDisjoint`), for a board with `LaidOut`: the end of the
  memory is a multiple of the size of the largest region the heap's length
  allows, and the board's own regions are apart from it. Then each start that
  `mm_init` finds, rounding `mm_start` up, is just below the region it added
  before (`NextRegion`). The linker scripts of stm32f417 and lm3s6965 are laid
  out so, and so is tsb-es2's or tsb-es1's when the heap is shorter than 128 KB;
  so is the instance of `mm_buddy`, with two regions of the heap and one beside it.
- `AllocatorCorrect`: on such a board types, `Partition`, `FullyMerged` and the
  refinement hold without more.

Along which argument: sizes are powers of two, of which the provers know nothing;
that `order_to_size` doubles comes from the number of subsets of `1..n`
(`SizeDouble`, from `FS_SUBSET`). `BaseUp`, `BaseBase` and `Halves` say how blocks
of different orders lie in each other, and induction over orders is the
least-number principle (`LeastExists`). A block is the same units as one of its
parts and the buddies passed on the way up (`Chain`, `ChainCover`): a split
replaces the block by the chain, a merge the chain by the block, and `Reshape`
carries `Apart` and `Cover` over.

`BuddyAssumption` bounds requests to those that 32 bits hold together with their
header (one order more than the largest list, which `kmalloc` refuses by that
test), page orders to the lists, and the board's regions to aligned ones; the last line says that the model
value for a null pointer is no record.

### Only model-checked

- Liveness (`RunnableRuns`, `UnitsConsumed`, `SyncCompletes`, `Drained`), which the
  prover cannot do. Every invariant, action
  property and refinement that a passing run checks is also a theorem, some of
  them under the hypotheses above.

## Not modelled

- `kernel/task.c`: `task_exit`, `task_annihilate` and `kill_task`. They end a task
  in the middle of everything else; only the one use in `workqueue_destroy` is
  modelled.
- `lib/hashtable.c`, `fs/`: sequential. Of the hash table: tables from which keys
  are removed (descriptors, cports, i2c masters) use the lowest free number, so
  deleted slots stay in the lower half and a search for an absent key ends;
  `hashtable_resize` does not test its allocation.
- `drivers/usb/dwc2`: a vendored driver of 40000 lines for one controller; what
  it asks of the kernel (spinlocks, timers, work queues) is in `Scheduler`,
  `Watchdog` and `Workqueue`.
- Other drivers, the AP bridge, the USB host, the ELF loader, the shell and the
  demos: registers, parsing and printing.
- `mcache_destroy` (no caller), `__wrap__free_r` (allocates instead of freeing;
  nothing calls it by name), the tickless build, `svc_event_create` without memory
  (its caller then writes through NULL).

## Plan

- `TaskLife` on the CPU of `Scheduler`: exit, annihilate and wait.
