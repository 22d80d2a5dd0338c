------------------------------ MODULE Watchdog ------------------------------
(***************************************************************************)
(* Watchdog timers (arch/arm/arm-v7m/watchdog.c), the tick interrupt that  *)
(* expires them (systick_handler) and the tasks that use them: owners that *)
(* start, cancel, delete and initialise watchdogs, and sleepers in         *)
(* nanosleep (lib/sleep.c).  A callback may restart its own watchdog (a    *)
(* periodic dwc timer), start another one (a callback that schedules a     *)
(* delayed work) or cancel another one (the dwc driver's del_timers).      *)
(*                                                                         *)
(* One CPU: a task steps only while the tick handler does not run, and a   *)
(* section under wdog_lock is one step.  The handler walks the list with a *)
(* saved next node across the callbacks, so its steps are kept apart.      *)
(***************************************************************************)
EXTENDS TaskLists

CONSTANTS
    Wds,            \* the watchdogs
    Tasks,
    Owned,          \* the watchdogs each task uses; one for a sleeper
    Sleepers,       \* the tasks that call nanosleep
    Periodic,       \* watchdogs whose callback restarts them
    Started,        \* watchdogs that callbacks start
    Cancelled,      \* watchdogs that callbacks cancel
    Head_,          \* wdog_head
    Delays,         \* ticks an owner or a callback passes to watchdog_start
    Requests,       \* <<tv_sec, tv_nsec>> of the sleepers
    HZ, TICK_IN_NSEC,
    IntHalf,        \* the comparator's int holds -IntHalf..IntHalf-1
    MaxTick         \* bound: ticks

\* watchdog_start_sec: seconds to ticks, at least one.
SecTicks(sec) == IF sec = 0 THEN 1 ELSE sec * HZ

\* Mutation: a part of a tick is dropped.
NsecDown(nsec) ==
    IF nsec \div TICK_IN_NSEC = 0 THEN 1 ELSE nsec \div TICK_IN_NSEC

\* watchdog_start_nsec: nanoseconds to ticks, rounded up, at least one.
NsecTicks(nsec) ==
    LET n == nsec \div TICK_IN_NSEC
             + (IF nsec % TICK_IN_NSEC # 0 THEN 1 ELSE 0)
    IN IF n = 0 THEN 1 ELSE n

\* Everything that watchdog_start is called with.
AllDelays == Delays \cup {SecTicks(r[1]) : r \in Requests}
                    \cup {NsecTicks(r[2]) : r \in Requests}

ASSUME WatchdogAssumption ==
    /\ Head_ \notin Wds
    /\ Owned \in [Tasks -> (SUBSET Wds) \ {{}}] /\ Sleepers \subseteq Tasks
    /\ \A t, u \in Tasks : t # u => Owned[t] \cap Owned[u] = {}
    /\ \A t \in Tasks : Owned[t] \cap Started = {}
    /\ \A t \in Sleepers : \E w \in Wds : Owned[t] = {w}
    /\ \A t \in Sleepers : Owned[t] \cap Periodic = {}
    /\ Periodic \subseteq Wds /\ Started \subseteq Wds /\ Cancelled \subseteq Wds
    /\ Delays \subseteq Nat \ {0}
    /\ Requests \subseteq Nat \X Nat /\ Requests # {}
    /\ HZ \in Nat \ {0} /\ TICK_IN_NSEC \in Nat \ {0}
    /\ MaxTick \in Nat /\ IntHalf \in Nat \ {0}

(* The comparator returns a 64-bit difference as an int.  No two           *)
(* expiration times are IntHalf ticks apart while the system has been up   *)
(* for less than IntHalf ticks minus the longest delay.                    *)
ASSUME UptimeAssumption == \A d \in AllDelays : MaxTick + d < IntHalf

VARIABLES
    ticks,          \* scheduler_ticks
    wdog_head,      \* the watchdogs that run, the first to expire first
    start, end,     \* of each watchdog_priv
    live,           \* the watchdogs whose priv is allocated
    sem,            \* counts of the semaphores that the callbacks post
    isr,            \* the tick handler: not running, at its loop, in a callback
    iter, niter,    \* its loop's nodes
    pc, after, wd, ticks_arg, current_ticks, req,   \* of each task
    called,         \* ghost: when a sleeper called nanosleep
    fault           \* a node was linked twice

isrvars == <<isr, iter, niter>>
taskvars == <<pc, after, wd, ticks_arg, current_ticks, req, called>>
vars == <<ticks, wdog_head, start, end, live, sem, isrvars, taskvars, fault>>

Returns == {"idle", "wait_sec", "wait_nsec"}
Pcs == {"lock", "cancel", "add"} \cup Returns

TypeOK ==
    /\ ticks \in Nat
    /\ wdog_head \in Seq(Wds)
    /\ start \in [Wds -> Nat] /\ end \in [Wds -> Nat]
    /\ live \subseteq Wds
    /\ sem \in [Wds -> Nat]
    /\ isr \in {"off", "loop", "callback"}
    /\ iter \in Wds \cup {Head_} /\ niter \in Wds \cup {Head_}
    /\ pc \in [Tasks -> Pcs] /\ after \in [Tasks -> Returns]
    /\ wd \in [Tasks -> Wds]
    /\ ticks_arg \in [Tasks -> Nat \ {0}]
    /\ current_ticks \in [Tasks -> Nat]
    /\ req \in [Tasks -> Requests]
    /\ called \in [Tasks -> Nat]
    /\ fault \in BOOLEAN

-----------------------------------------------------------------------------
(* The list of running watchdogs *)

SleepWds == UNION {Owned[t] : t \in Sleepers}

Linked(w) == w \in Range(wdog_head)

\* The conversion of a 64-bit difference to int.
ToInt(n) == ((n + IntHalf) % (2 * IntHalf)) - IntHalf

\* Mutation: the operands of the comparison are swapped.
LaterFirst(e, f) == ToInt(f - e)

\* watchdog_expiration_comparator, of two expiration times.
watchdog_expiration_comparator(e, f) == ToInt(e - f)

(* list_sorted_add of w, with expiration e, to s: before the first node    *)
(* that the comparator puts after w.                                       *)
list_sorted_add(s, w, e) ==
    LET After(i) == watchdog_expiration_comparator(e, end[s[i]]) < 0
        p == CHOOSE i \in 1..Len(s) + 1 :
                /\ i <= Len(s) => After(i)
                /\ \A j \in 1..i - 1 : ~After(j)
    IN [i \in 1..Len(s) + 1 |-> IF i < p THEN s[i]
                                ELSE IF i = p THEN w ELSE s[i - 1]]

\* The end of watchdog_start, on a list s that does not hold w.
Arm(s, w, now, d) ==
    /\ start' = [start EXCEPT ![w] = now]
    /\ end' = [end EXCEPT ![w] = now + d]
    /\ wdog_head' = list_sorted_add(s, w, now + d)

watchdog_has_expired(w) ==
    IF end[w] > start[w] THEN ticks >= end[w]
    ELSE ticks >= end[w] /\ ticks < start[w]

-----------------------------------------------------------------------------
(* The tick interrupt *)

\* systick_handler, and the start of watchdog_check_expired's loop.
Systick ==
    /\ isr = "off" /\ ticks < MaxTick
    /\ ticks' = ticks + 1
    /\ isr' = "loop"
    /\ iter' = NodeAfter(Head_, wdog_head, Head_)
    /\ niter' = NodeAfter(Head_, wdog_head, NodeAfter(Head_, wdog_head, Head_))
    /\ UNCHANGED <<wdog_head, start, end, live, sem, taskvars, fault>>

(* The loop's tests: the handler ends at the head of the list or at a      *)
(* watchdog that has not expired; an expired one is cancelled and its      *)
(* callback called.                                                        *)
watchdog_check_expired ==
    /\ isr = "loop"
    /\ IF iter = Head_ \/ ~watchdog_has_expired(iter)
       THEN isr' = "off" /\ UNCHANGED wdog_head
       ELSE isr' = "callback" /\ wdog_head' = Unlink(wdog_head, iter)
    /\ UNCHANGED <<ticks, start, end, live, sem, iter, niter, taskvars, fault>>

\* Mutation: the loop steps to the node after the saved one.
SkipNode ==
    LET n == NodeAfter(Head_, wdog_head', niter)
    IN /\ isr' = "loop" /\ iter' = n /\ niter' = NodeAfter(Head_, wdog_head', n)
       /\ UNCHANGED <<ticks, live, taskvars, fault>>

\* The loop's increment, after the callback.
NextNode ==
    /\ isr' = "loop" /\ iter' = niter
    /\ niter' = NodeAfter(Head_, wdog_head', niter)
    /\ UNCHANGED <<ticks, live, taskvars, fault>>

\* sleep_timeout; a callback that leaves the watchdogs alone does no more.
sleep_timeout ==
    /\ isr = "callback" /\ iter \notin Periodic
    /\ sem' = IF iter \in SleepWds THEN [sem EXCEPT ![iter] = @ + 1] ELSE sem
    /\ UNCHANGED <<wdog_head, start, end>>
    /\ NextNode

\* timer_callback of a periodic timer: it starts its own watchdog.
timer_callback ==
    /\ isr = "callback" /\ iter \in Periodic
    /\ \E d \in Delays : Arm(Unlink(wdog_head, iter), iter, ticks, d)
    /\ UNCHANGED sem
    /\ NextNode

\* A callback that starts a watchdog of its own: adp_sense_timeout
\* schedules a delayed work.
CallbackStarts ==
    /\ isr = "callback" /\ iter \notin Periodic \cup SleepWds
    /\ \E w \in Started, d \in Delays :
         ~Linked(w) /\ Arm(wdog_head, w, ticks, d)
    /\ UNCHANGED sem
    /\ NextNode

\* A callback that cancels another watchdog: del_timers.
CallbackCancels ==
    /\ isr = "callback" /\ iter \notin Periodic \cup SleepWds
    /\ \E w \in Cancelled \ {iter} : wdog_head' = Unlink(wdog_head, w)
    /\ UNCHANGED <<start, end, sem>>
    /\ NextNode

Tick ==
    \/ Systick
    \/ watchdog_check_expired
    \/ sleep_timeout
    \/ timer_callback
    \/ CallbackStarts
    \/ CallbackCancels

-----------------------------------------------------------------------------
(* The tasks *)

\* watchdog_start up to its lock: the deadline counts from this tick.  The
\* caller goes on at next.
Begin(t, w, d, next) ==
    /\ after' = [after EXCEPT ![t] = next]
    /\ wd' = [wd EXCEPT ![t] = w]
    /\ ticks_arg' = [ticks_arg EXCEPT ![t] = d]
    /\ current_ticks' = [current_ticks EXCEPT ![t] = ticks]
    /\ pc' = [pc EXCEPT ![t] = "lock"]

\* The return from watchdog_start; its locals are dead from here on.
Leave(t) ==
    /\ pc' = [pc EXCEPT ![t] = after[t]]
    /\ ticks_arg' = [ticks_arg EXCEPT ![t] = 1]
    /\ current_ticks' = [current_ticks EXCEPT ![t] = 0]

OwnerStart(t) ==
    /\ isr = "off" /\ pc[t] = "idle" /\ t \notin Sleepers
    /\ \E w \in Owned[t] \cap live, d \in Delays : Begin(t, w, d, "idle")
    /\ UNCHANGED <<ticks, wdog_head, start, end, live, sem, isrvars, req,
                   called, fault>>

\* watchdog_start's section under wdog_lock, left to cancel a running one.
StartLock(t) ==
    /\ isr = "off" /\ pc[t] = "lock"
    /\ IF Linked(wd[t])
       THEN /\ pc' = [pc EXCEPT ![t] = "cancel"]
            /\ UNCHANGED <<start, end, wdog_head, ticks_arg, current_ticks>>
       ELSE /\ Arm(wdog_head, wd[t], current_ticks[t], ticks_arg[t])
            /\ Leave(t)
    /\ UNCHANGED <<ticks, live, sem, isrvars, after, wd, req, called, fault>>

\* Mutation: the watchdog is not cancelled before it is linked again.
StartNoCancel(t) ==
    /\ isr = "off" /\ pc[t] = "cancel"
    /\ pc' = [pc EXCEPT ![t] = "add"]
    /\ UNCHANGED <<ticks, wdog_head, start, end, live, sem, isrvars, after, wd,
                   ticks_arg, current_ticks, req, called, fault>>

\* The watchdog_cancel in watchdog_start.
StartCancel(t) ==
    /\ isr = "off" /\ pc[t] = "cancel"
    /\ wdog_head' = Unlink(wdog_head, wd[t])
    /\ pc' = [pc EXCEPT ![t] = "add"]
    /\ UNCHANGED <<ticks, start, end, live, sem, isrvars, after, wd, ticks_arg,
                   current_ticks, req, called, fault>>

\* The rest of watchdog_start, under the lock again.
StartAdd(t) ==
    /\ isr = "off" /\ pc[t] = "add"
    /\ fault' = (fault \/ Linked(wd[t]))
    /\ Arm(Unlink(wdog_head, wd[t]), wd[t], current_ticks[t], ticks_arg[t])
    /\ Leave(t)
    /\ UNCHANGED <<ticks, live, sem, isrvars, after, wd, req, called>>

watchdog_cancel(t) ==
    /\ isr = "off" /\ pc[t] = "idle" /\ t \notin Sleepers
    /\ \E w \in Owned[t] \cap live : wdog_head' = Unlink(wdog_head, w)
    /\ UNCHANGED <<ticks, start, end, live, sem, isrvars, taskvars, fault>>

watchdog_delete(t) ==
    /\ isr = "off" /\ pc[t] = "idle" /\ t \notin Sleepers
    /\ \E w \in Owned[t] \cap live :
         wdog_head' = Unlink(wdog_head, w) /\ live' = live \ {w}
    /\ UNCHANGED <<ticks, start, end, sem, isrvars, taskvars, fault>>

watchdog_init(t) ==
    /\ isr = "off" /\ pc[t] = "idle" /\ t \notin Sleepers
    /\ \E w \in Owned[t] \ live : live' = live \cup {w}
    /\ UNCHANGED <<ticks, wdog_head, start, end, sem, isrvars, taskvars, fault>>

-----------------------------------------------------------------------------
(* nanosleep *)

\* nanosleep up to the first watchdog_start's lock.
nanosleep(t) ==
    /\ isr = "off" /\ pc[t] = "idle" /\ t \in Sleepers
    /\ \E w \in Owned[t], r \in Requests :
         /\ live' = live \cup {w}
         /\ sem' = [sem EXCEPT ![w] = 0]
         /\ req' = [req EXCEPT ![t] = r]
         /\ Begin(t, w, SecTicks(r[1]), "wait_sec")
    /\ called' = [called EXCEPT ![t] = ticks]
    /\ UNCHANGED <<ticks, wdog_head, start, end, isrvars, fault>>

\* The seconds are over: nanosleep starts the nanoseconds.
NanosleepNsec(t) ==
    /\ isr = "off" /\ pc[t] = "wait_sec" /\ sem[wd[t]] > 0
    /\ sem' = [sem EXCEPT ![wd[t]] = @ - 1]
    /\ Begin(t, wd[t], NsecTicks(req[t][2]), "wait_nsec")
    /\ UNCHANGED <<ticks, wdog_head, start, end, live, isrvars, req, called,
                   fault>>

\* nanosleep deletes its watchdog and returns.
NanosleepReturn(t) ==
    /\ isr = "off" /\ pc[t] = "wait_nsec" /\ sem[wd[t]] > 0
    /\ sem' = [sem EXCEPT ![wd[t]] = @ - 1]
    /\ wdog_head' = Unlink(wdog_head, wd[t])
    /\ live' = live \ {wd[t]}
    /\ pc' = [pc EXCEPT ![t] = "idle"]
    /\ called' = [called EXCEPT ![t] = 0]
    /\ UNCHANGED <<ticks, start, end, isrvars, after, wd, ticks_arg,
                   current_ticks, req, fault>>

Task(t) ==
    \/ OwnerStart(t)
    \/ StartLock(t)
    \/ StartCancel(t)
    \/ StartAdd(t)
    \/ watchdog_cancel(t)
    \/ watchdog_delete(t)
    \/ watchdog_init(t)
    \/ nanosleep(t)
    \/ NanosleepNsec(t)
    \/ NanosleepReturn(t)

Next == Tick \/ \E t \in Tasks : Task(t)

Init ==
    /\ ticks = 0 /\ wdog_head = <<>>
    /\ start = [w \in Wds |-> 0] /\ end = [w \in Wds |-> 0]
    /\ live = Wds \ SleepWds
    /\ sem = [w \in Wds |-> 0]
    /\ isr = "off" /\ iter = Head_ /\ niter = Head_
    /\ pc = [t \in Tasks |-> "idle"] /\ after = [t \in Tasks |-> "idle"]
    /\ wd = [t \in Tasks |-> CHOOSE w \in Owned[t] : TRUE]
    /\ ticks_arg = [t \in Tasks |-> 1]
    /\ current_ticks = [t \in Tasks |-> 0]
    /\ req = [t \in Tasks |-> CHOOSE r \in Requests : TRUE]
    /\ called = [t \in Tasks |-> 0]
    /\ fault = FALSE

Spec == Init /\ [][Next]_vars

-----------------------------------------------------------------------------
(* Properties *)

(* The list holds each watchdog once, only watchdogs whose memory is       *)
(* allocated, and no node is linked while it is linked already, although   *)
(* watchdog_start gives up the lock to cancel (watchdog.c:102).            *)
ListSound ==
    /\ ~fault
    /\ Range(wdog_head) \subseteq live
    /\ \A i, j \in 1..Len(wdog_head) : i # j => wdog_head[i] # wdog_head[j]

(* The running watchdogs are in the order in which they expire, as         *)
(* watchdog_check_expired assumes when it stops at the first that has not. *)
Sorted ==
    \A i, j \in 1..Len(wdog_head) :
        i < j => end[wdog_head[i]] <= end[wdog_head[j]]

(* A tick expires every watchdog that is due: when the handler ends, none  *)
(* that still runs has reached its time.                                   *)
TickFiresAll ==
    [][isr = "loop" /\ isr' = "off" =>
        \A w \in Range(wdog_head) : ticks < end[w]]_vars

(* A callback is called only for a watchdog that runs: one that was        *)
(* cancelled is left alone, even by a tick that is already at work         *)
(* (dwc_os.h: DWC_TIMER_CANCEL "Disables the timer from execution").       *)
CancelledIsDisabled ==
    [][isr = "loop" /\ isr' = "callback" => Linked(iter)]_vars

(* nanosleep takes at least the ticks of its request, and its callbacks    *)
(* find its stack frame: none is left to come when it returns.             *)
SleepsEnough ==
    [][\A t \in Sleepers : pc[t] = "wait_nsec" /\ pc'[t] = "idle" =>
        /\ ticks * TICK_IN_NSEC >=
               (called[t] + req[t][1] * HZ) * TICK_IN_NSEC + req[t][2]
        /\ ~Linked(wd[t]) /\ sem'[wd[t]] = 0]_vars

=============================================================================
