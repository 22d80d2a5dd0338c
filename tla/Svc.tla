--------------------------------- MODULE Svc ---------------------------------
(***************************************************************************)
(* The SVC daemon (apps/svc/svc.c): svcd, which sets the switch up, waits  *)
(* for the modules on its ports and tells the AP of them; the worker of    *)
(* the switch's interrupt, which reads the modules' mailboxes; and the     *)
(* shell that starts and stops the daemon.  They share struct svc under    *)
(* svc->lock, and svcd waits on svc->cv.                                   *)
(*                                                                         *)
(* Every start makes a daemon of its own, with a switch and a worker of    *)
(* its own: they have the number of the start.  A section under svc->lock  *)
(* in which nobody else can act is one step.  The condition variable is    *)
(* the one of kernel/task.c, step by step.                                 *)
(*                                                                         *)
(* The lock is its holder: whoever wants it may have it as soon as it is   *)
(* free, woken or not.  Three tasks share it, which is not the discipline  *)
(* of Scheduler.tla: its semaphore_unlock may be preempted by another and  *)
(* take the empty list's head for a task (semaphore.c:121).  What is shown *)
(* here holds until that happens, or until task_cond_signal does the same, *)
(* and nothing is claimed of what must happen in the end.                  *)
(***************************************************************************)
EXTENDS Integers, Sequences, FiniteSets

CONSTANTS
    Ports,          \* ports with a module behind them
    ApPort,         \* the one whose module is the AP
    Interfaces,     \* ports the board's table of interfaces knows
    None,
    MaxStarts       \* bound: calls of svcd_start that make a daemon

ASSUME SvcAssumption ==
    /\ ApPort \in Ports /\ Interfaces \subseteq Ports /\ None \notin Ports
    /\ MaxStarts \in Nat /\ IsFiniteSet(Ports)

Daemons == 1..MaxStarts
Shell == 0          \* the shell as holder of the lock
Free == MaxStarts + 1

VARIABLES
    lock,           \* svc->lock: its holder, or Free
    state, stop,    \* svc->state, svc->stop
    sw,             \* svc->sw: the daemon whose switch it is, or None
    ap_intf_id,     \* svc->ap_intf_id: the port of that interface, or None
    ap_initialized, \* svc->ap_initialized
    svc_events,     \* the list: events are <<port, daemon whose switch>>
    destroyed,      \* the events that were freed, in their order
    pc, ei,         \* each daemon's place, and its place in svc_events
    wpc, mail,      \* each worker's place, and the port of the mail it read
    silent,         \* the ports of each switch whose module has not mailed
    exited,         \* the switches that switch_exit freed
    shell,          \* the shell's place
    starts,         \* the daemons made so far
    answered,       \* requests of the last handshake that got an answer
    greeted,        \* ghost: the daemons whose AP was said hello
    told,           \* ghost: the daemons that told their AP of a module
    stray           \* a signal took the head of an empty list for a task:
                    \* it is put on a run queue, and the model stops

monitor == <<state, stop, sw, ap_intf_id, ap_initialized>>
ap == <<answered, greeted, told>>
worker == <<wpc, mail, silent>>
vars == <<lock, monitor, svc_events, destroyed, pc, ei, worker, exited, shell,
          starts, ap, stray>>

Pcs == {"none", "start", "startup", "loop", "unlocked", "off", "waiting",
        "woken", "check", "ap", "version", "hello", "events", "cleanup",
        "done", "gone", "lost"}

TypeOK ==
    /\ lock \in 0..Free
    /\ state \in {"stopped", "running"} /\ stop \in BOOLEAN
    /\ sw \in Daemons \cup {None} /\ ap_intf_id \in Ports \cup {None}
    /\ ap_initialized \in BOOLEAN
    /\ svc_events \in Seq(Ports \X Daemons)
    /\ destroyed \in Seq(Ports \X Daemons)
    /\ pc \in [Daemons -> Pcs] /\ ei \in Nat \ {0}
    /\ wpc \in [Daemons -> {"none", "idle", "event", "ack", "gone"}]
    /\ mail \in [Daemons -> Ports \cup {None}]
    /\ silent \in [Daemons -> SUBSET Ports]
    /\ exited \subseteq Daemons /\ starts \in 0..MaxStarts
    /\ shell \in {"idle", "wait", "returned"}
    /\ answered \subseteq {"version", "hello"}
    /\ greeted \subseteq Daemons /\ told \subseteq Daemons /\ stray \in BOOLEAN

Goto(d, p) == pc' = [pc EXCEPT ![d] = p]

-----------------------------------------------------------------------------
(* task_cond_signal: the first task on the list runs again.  Nobody tests  *)
(* whether the list is empty: then its head is taken for a task.           *)
task_cond_signal ==
    LET waiting == {d \in Daemons : pc[d] = "waiting"}
    IN  /\ pc' = [d \in Daemons |-> IF d \in waiting THEN "woken" ELSE pc[d]]
        /\ stray' = (stray \/ waiting = {})

-----------------------------------------------------------------------------
(* The shell *)

\* A daemon is made, or there is no memory for it and the lock is kept.
svcd_start ==
    /\ shell # "wait" /\ lock = Free /\ state = "stopped"
    /\ \/ /\ starts < MaxStarts
          /\ starts' = starts + 1
          /\ Goto(starts + 1, "start")
          /\ stop' = FALSE
          /\ state' = "running"
          /\ UNCHANGED lock
       \/ lock' = Shell /\ UNCHANGED <<starts, pc, stop, state>>
    /\ shell' = "idle"
    /\ UNCHANGED <<sw, ap_intf_id, ap_initialized, svc_events, destroyed, ei,
                   worker, exited, ap, stray>>

\* Mutation: the daemon is taken for stopped as soon as it is told to.
StopMarksStopped ==
    /\ shell # "wait" /\ lock = Free /\ state = "running"
    /\ stop' = TRUE /\ state' = "stopped"
    /\ task_cond_signal
    /\ shell' = "wait"
    /\ UNCHANGED <<lock, sw, ap_intf_id, ap_initialized, svc_events, destroyed,
                   ei, worker, exited, starts, ap>>

svcd_stop ==
    /\ shell # "wait" /\ lock = Free /\ state = "running"
    /\ stop' = TRUE
    /\ task_cond_signal
    /\ shell' = "wait"
    /\ UNCHANGED <<lock, state, sw, ap_intf_id, ap_initialized, svc_events,
                   destroyed, ei, worker, exited, starts, ap>>

(* task_wait(find_task_by_id(...)): no task is ever added to the table, so *)
(* the task is not found and task_wait returns -EINVAL at once.            *)
StopReturns ==
    /\ shell = "wait" /\ shell' = "returned"
    /\ UNCHANGED <<lock, monitor, svc_events, destroyed, pc, ei, worker, exited,
                   starts, ap, stray>>

-----------------------------------------------------------------------------
(* The daemon *)

svcd_main(d) ==
    /\ pc[d] = "start" /\ lock = Free
    /\ lock' = d /\ Goto(d, "startup")
    /\ UNCHANGED <<monitor, svc_events, destroyed, ei, worker, exited, shell,
                   starts, ap, stray>>

(* svcd_startup: the switch with its worker, the interfaces (which powers  *)
(* the modules up) and the list of events.  It may fail before there is a  *)
(* switch, or after, and then gives the switch up; when the switch's       *)
(* interrupt cannot be enabled, the list has been emptied by then.         *)
svcd_startup(d) ==
    /\ pc[d] = "startup"
    /\ \/ /\ sw' = d /\ svc_events' = <<>>
          /\ wpc' = [wpc EXCEPT ![d] = "idle"]
          /\ silent' = [silent EXCEPT ![d] = Ports]
          /\ answered' = {}
          /\ Goto(d, "loop")
          /\ UNCHANGED exited
       \/ Goto(d, "done") /\ UNCHANGED <<sw, svc_events, wpc, silent, answered, exited>>
       \/ /\ wpc' = [wpc EXCEPT ![d] = "idle"] /\ exited' = exited \cup {d}
          /\ sw' = None /\ Goto(d, "done") /\ svc_events' \in {svc_events, <<>>}
          /\ UNCHANGED <<silent, answered>>
    /\ UNCHANGED <<lock, state, stop, ap_intf_id, ap_initialized, destroyed, ei,
                   mail, shell, starts, greeted, told, stray>>

(* The loop's test, and task_cond_wait up to its mutex_unlock.             *)
Loop(d) ==
    /\ pc[d] = "loop"
    /\ IF stop THEN Goto(d, "cleanup") /\ UNCHANGED lock
       ELSE Goto(d, "unlocked") /\ lock' = Free
    /\ UNCHANGED <<monitor, svc_events, destroyed, ei, worker, exited, shell,
                   starts, ap, stray>>

(* task_add_to_wait_list leaves the run queue and then, with interrupts    *)
(* enabled in between, links the task.                                     *)
Unqueue(d) ==
    /\ pc[d] = "unlocked" /\ Goto(d, "off")
    /\ UNCHANGED <<lock, monitor, svc_events, destroyed, ei, worker, exited,
                   shell, starts, ap, stray>>

Link(d) ==
    /\ pc[d] = "off" /\ Goto(d, "waiting")
    /\ UNCHANGED <<lock, monitor, svc_events, destroyed, ei, worker, exited,
                   shell, starts, ap, stray>>

\* A tick finds the task on no list: it is never picked again.
Tick(d) ==
    /\ pc[d] = "off" /\ Goto(d, "lost")
    /\ UNCHANGED <<lock, monitor, svc_events, destroyed, ei, worker, exited,
                   shell, starts, ap, stray>>

\* The mutex_lock of task_cond_wait.
Relock(d) ==
    /\ pc[d] = "woken" /\ lock = Free
    /\ lock' = d /\ Goto(d, "check")
    /\ UNCHANGED <<monitor, svc_events, destroyed, ei, worker, exited, shell,
                   starts, ap, stray>>

\* Mutation: events are handled before there is an AP.
CheckNoAp(d) ==
    /\ pc[d] = "check"
    /\ Goto(d, IF stop THEN "cleanup"
               ELSE IF ap_intf_id # None /\ ~ap_initialized THEN "ap"
               ELSE "events")
    /\ ei' = 1
    /\ UNCHANGED <<lock, monitor, svc_events, destroyed, worker, exited, shell,
                   starts, ap, stray>>

\* What there is to do, once svcd is awake.
Check(d) ==
    /\ pc[d] = "check"
    /\ Goto(d, IF stop THEN "cleanup"
               ELSE IF ap_intf_id # None /\ ~ap_initialized THEN "ap"
               ELSE IF ap_initialized THEN "events" ELSE "loop")
    /\ ei' = 1
    /\ UNCHANGED <<lock, monitor, svc_events, destroyed, worker, exited, shell,
                   starts, ap, stray>>

(* svc_handle_ap up to the AP's answer to the poke: its device id, route   *)
(* and connection.  No answer ends the daemon.                             *)
svc_handle_ap(d) ==
    /\ pc[d] = "ap"
    /\ \/ Goto(d, "version") \/ Goto(d, "cleanup")
    /\ UNCHANGED <<lock, monitor, svc_events, destroyed, ei, worker, exited,
                   shell, starts, ap, stray>>

(* A synchronous request to the AP, sent with svc->lock held: its answer   *)
(* comes through the worker.  A worker that waits for the lock cannot      *)
(* bring it, and the request times out.                                    *)
Answers(d) == IF wpc[d] = "event" THEN {FALSE} ELSE {TRUE}

gb_svc_protocol_version(d) ==
    /\ pc[d] = "version" /\ Goto(d, "hello")
    /\ \E a \in Answers(d) : answered' = IF a THEN {"version"} ELSE {}
    /\ UNCHANGED <<lock, monitor, svc_events, destroyed, ei, worker, exited,
                   shell, starts, greeted, told, stray>>

gb_svc_hello(d) ==
    /\ pc[d] = "hello" /\ Goto(d, "events")
    /\ \E a \in Answers(d) :
         answered' = IF a THEN answered \cup {"hello"} ELSE answered
    /\ greeted' = greeted \cup {d}
    /\ ap_initialized' = TRUE
    /\ UNCHANGED <<lock, state, stop, sw, ap_intf_id, svc_events, destroyed, ei,
                   worker, exited, shell, starts, told, stray>>

(* One event of svc_handle_events: the AP is told of the module, if its    *)
(* interface is known and its identity can be read.  The event is freed    *)
(* and stays on the list.                                                  *)
svc_handle_events(d) ==
    /\ pc[d] = "events" /\ ei <= Len(svc_events)
    /\ LET e == svc_events[ei]
       IN  /\ \/ e[1] \in Interfaces /\ told' = told \cup {d}
              \/ UNCHANGED told
           /\ destroyed' = Append(destroyed, e)
    /\ ei' = ei + 1
    /\ UNCHANGED <<lock, monitor, svc_events, pc, worker, exited, shell, starts,
                   answered, greeted, stray>>

EventsDone(d) ==
    /\ pc[d] = "events" /\ ei > Len(svc_events) /\ Goto(d, "loop")
    /\ UNCHANGED <<lock, monitor, svc_events, destroyed, ei, worker, exited,
                   shell, starts, ap, stray>>

(* svcd_cleanup: switch_exit asks the worker to end, does not find it to   *)
(* wait for it, and frees the switch.                                      *)
svcd_cleanup(d) ==
    /\ pc[d] = "cleanup" /\ Goto(d, "done")
    /\ exited' = exited \cup {d}
    /\ sw' = None
    /\ UNCHANGED <<lock, state, stop, ap_intf_id, ap_initialized, svc_events,
                   destroyed, ei, worker, shell, starts, ap, stray>>

svcd_exit(d) ==
    /\ pc[d] = "done" /\ Goto(d, "gone")
    /\ state' = "stopped" /\ lock' = Free
    /\ UNCHANGED <<stop, sw, ap_intf_id, ap_initialized, svc_events, destroyed,
                   ei, worker, exited, shell, starts, ap, stray>>

-----------------------------------------------------------------------------
(* The worker of the switch's interrupt *)

\* es2_switch_irq_handler finds a module's mail.
Mail(d) ==
    /\ wpc[d] = "idle" /\ d \notin exited
    /\ pc[d] \notin {"startup", "cleanup", "done", "gone"}
    /\ \E p \in silent[d] :
         /\ silent' = [silent EXCEPT ![d] = @ \ {p}]
         /\ mail' = [mail EXCEPT ![d] = p]
    /\ wpc' = [wpc EXCEPT ![d] = "event"]
    /\ UNCHANGED <<lock, monitor, svc_events, destroyed, pc, ei, exited, shell,
                   starts, ap, stray>>

(* event_mailbox, all of it under the lock: the AP's interface, an event   *)
(* for another module; an interface that is not known, or a value that is  *)
(* none of the two (the read of the mailbox failed), changes nothing.      *)
(* svcd is signalled in every case.                                        *)
event_mailbox(d) ==
    /\ wpc[d] = "event" /\ lock = Free
    /\ \/ /\ mail[d] = ApPort /\ ApPort \in Interfaces
          /\ ap_intf_id' = ApPort /\ UNCHANGED svc_events
       \/ /\ mail[d] # ApPort
          /\ svc_events' = Append(svc_events, <<mail[d], d>>)
          /\ UNCHANGED ap_intf_id
       \/ UNCHANGED <<ap_intf_id, svc_events>>
    /\ task_cond_signal
    /\ wpc' = [wpc EXCEPT ![d] = "ack"]
    /\ UNCHANGED <<lock, state, stop, sw, ap_initialized, destroyed, ei, mail,
                   silent, exited, shell, starts, ap>>

\* svc_mailbox_ack, through svc->sw.
svc_mailbox_ack(d) ==
    /\ wpc[d] = "ack"
    /\ wpc' = [wpc EXCEPT ![d] = "idle"]
    /\ UNCHANGED <<lock, monitor, svc_events, destroyed, pc, ei, mail, silent,
                   exited, shell, starts, ap, stray>>

WorkerExit(d) ==
    /\ wpc[d] = "idle" /\ d \in exited
    /\ wpc' = [wpc EXCEPT ![d] = "gone"]
    /\ UNCHANGED <<lock, monitor, svc_events, destroyed, pc, ei, mail, silent,
                   exited, shell, starts, ap, stray>>

-----------------------------------------------------------------------------

Init ==
    /\ lock = Free /\ state = "stopped" /\ stop = FALSE /\ sw = None
    /\ ap_intf_id = None /\ ap_initialized = FALSE
    /\ svc_events = <<>> /\ destroyed = <<>>
    /\ pc = [d \in Daemons |-> "none"] /\ ei = 1
    /\ wpc = [d \in Daemons |-> "none"] /\ mail = [d \in Daemons |-> None]
    /\ silent = [d \in Daemons |-> {}]
    /\ exited = {} /\ shell = "idle" /\ starts = 0
    /\ answered = {} /\ greeted = {} /\ told = {} /\ stray = FALSE

Commands == svcd_start \/ svcd_stop

Daemon(d) ==
    \/ svcd_main(d) \/ svcd_startup(d) \/ Loop(d) \/ Unqueue(d) \/ Link(d)
    \/ Relock(d) \/ Check(d) \/ svc_handle_ap(d) \/ gb_svc_protocol_version(d)
    \/ gb_svc_hello(d) \/ svc_handle_events(d) \/ EventsDone(d)
    \/ svcd_cleanup(d) \/ svcd_exit(d)

Worker(d) == event_mailbox(d) \/ svc_mailbox_ack(d) \/ WorkerExit(d)

Next ==
    /\ ~stray
    /\ \/ Commands \/ StopReturns
       \/ \E d \in Daemons : Daemon(d) \/ Worker(d) \/ Tick(d) \/ Mail(d)

Spec == Init /\ [][Next]_vars

-----------------------------------------------------------------------------
(* Properties *)

\* The places where a daemon uses the switch.
Running == Pcs \ {"none", "start", "startup", "done", "gone"}

(* One daemon at a time runs the switch, however the shell's commands and  *)
(* the daemon's end interleave: svcd_start and the end of svcd_main agree  *)
(* through svc->state.                                                     *)
OneDaemon ==
    /\ \A d, e \in Daemons : pc[d] \in Running /\ pc[e] \in Running => d = e
    /\ \A d \in Daemons : pc[d] \in Running => sw = d

(* The AP is told of modules only after a handshake has told it where it   *)
(* is (svc_handle_ap), in whatever order the modules and the AP report.    *)
HotplugAfterHello == \A d \in told : \E e \in greeted : e <= d

(* The handshake was with the same run of the daemon: the switch was       *)
(* powered down since any other (svc.c:535).                               *)
HelloEachRun == told \subseteq greeted

(* svcd_stop returns when svcd has stopped.                                *)
StopWaits == shell = "returned" => state = "stopped"

(* svcd_stop and the mailbox events signal svc->cv only when svcd is on    *)
(* its list: task_cond_signal does not look.                               *)
SignalsReach == ~stray

(* No event is freed twice.                                                *)
EventsFreedOnce ==
    \A i, j \in DOMAIN destroyed : destroyed[i] = destroyed[j] => i = j

(* An AP that always answers has answered the handshake when svcd takes it *)
(* for initialized.                                                        *)
HandshakeAnswered == ap_initialized => answered = {"version", "hello"}

(* A switch is freed when its worker has ended.                            *)
SwitchAlive == \A d \in exited : wpc[d] \in {"none", "gone"}

=============================================================================
