-------------------------- MODULE SchedulerLive --------------------------
(***************************************************************************)
(* Scheduler with the one fact about time that its liveness rests on: a    *)
(* SysTick period (CPU_FREQ / HZ cycles) is long, so the thread that a     *)
(* tick resumes executes at least one step before the next tick.           *)
(***************************************************************************)
EXTENDS Scheduler

VARIABLE ran    \* a thread has executed since the last tick

liveVars == <<vars, ran>>

LiveInit == Init /\ ran = TRUE

PeriodicTick(s) == (ran \/ current = Idle) /\ Tick(s) /\ ran' = FALSE
ThreadStep(t) == TaskStep(t) /\ ran' = TRUE
OtherIsr == /\ (\E s \in Sems : IsrUp(s)) \/ PendSVEnter \/ pendsv_handler
            /\ UNCHANGED ran

LiveNext ==
    \/ \E s \in Sems \cup {None} : PeriodicTick(s)
    \/ \E t \in Tasks : ThreadStep(t)
    \/ OtherIsr

(* SysTick fires for ever and pending exceptions are taken.  SysTick is a  *)
(* free-running timer, not synchronised with the threads: it does not fire *)
(* only in the few instructions between a task leaving the run queue and   *)
(* that task's PendSV, and it does not preempt a task at its first         *)
(* instruction every time the task is given the CPU.                       *)
Fairness ==
    /\ WF_liveVars(PeriodicTick(None))
    /\ SF_liveVars(PeriodicTick(None) /\ current \in Range(list["rr"]))
    /\ WF_liveVars((PendSVEnter \/ pendsv_handler) /\ UNCHANGED ran)
    /\ \A t \in Tasks : SF_liveVars(ThreadStep(t))

LiveSpec == LiveInit /\ [][LiveNext]_liveVars /\ Fairness

(* A task on a run queue is eventually given the CPU.                      *)
RunnableRuns ==
    \A t \in Tasks : t \in Range(list["rr"]) ~> current = t

(* A released unit does not stay unused while tasks wait for it.           *)
UnitsConsumed ==
    \A s \in Sems : (list[s] # <<>> /\ count[s] > 0)
                       ~> (list[s] = <<>> \/ count[s] = 0)
=============================================================================
