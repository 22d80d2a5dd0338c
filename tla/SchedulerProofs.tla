------------------------- MODULE SchedulerProofs -------------------------
(***************************************************************************)
(* Theorems about Scheduler, for every set of tasks and semaphores and     *)
(* every assignment of their users.                                        *)
(***************************************************************************)
EXTENDS Scheduler, TaskListsProofs, FiniteSetTheorems

ListsType == [Queues -> Seq(Tasks)]

-----------------------------------------------------------------------------
(* What the list operations do to all the lists at once. *)

\* list_del takes the task off whichever list it is on.
LEMMA DelLists ==
    ASSUME NEW l \in ListsType, NEW t \in Tasks, Once(l)
    PROVE  /\ list_del(l, t) \in ListsType
           /\ Once(list_del(l, t))
           /\ \A q \in Queues : Range(list_del(l, t)[q]) = Range(l[q]) \ {t}
           /\ ~ Linked(list_del(l, t), t)
  <1> DEFINE d == list_del(l, t)
  <1>1. \A q \in Queues : d[q] = Unlink(l[q], t)
    BY DEF list_del
  <1>2. \A q \in Queues : d[q] \in Seq(Tasks)
    BY <1>1, UnlinkType DEF ListsType
  <1>3. \A q \in Queues : /\ Range(d[q]) = Range(l[q]) \ {t}
                          /\ IsInjective(d[q])
    BY <1>1, UnlinkOnce DEF ListsType, Once
  <1>4. d \in ListsType
    BY <1>2 DEF list_del, ListsType
  <1> HIDE DEF d
  <1>5. Once(d)
    BY <1>3 DEF Once
  <1>6. ~ Linked(d, t)
    BY <1>3 DEF Linked
  <1> QED BY <1>3, <1>4, <1>5, <1>6 DEF d

\* ... and nothing else off any.
LEMMA DelSubset ==
    ASSUME NEW l \in ListsType, NEW t \in Tasks, Once(l), NEW r \in Queues
    PROVE  Range(list_del(l, t)[r]) \subseteq Range(l[r])
  <1>1. \A q \in Queues : Range(list_del(l, t)[q]) = Range(l[q]) \ {t}
    BY DelLists
  <1> HIDE DEF list_del, Range
  <1> QED BY <1>1

\* list_add links a task that is on no list.
LEMMA AddLists ==
    ASSUME NEW l \in ListsType, NEW q \in Queues, NEW t \in Tasks,
           Once(l), ~ Linked(l, t)
    PROVE  /\ list_add(l, q, t) \in ListsType
           /\ Once(list_add(l, q, t))
           /\ Range(list_add(l, q, t)[q]) = Range(l[q]) \cup {t}
           /\ \A r \in Queues \ {q} : list_add(l, q, t)[r] = l[r]
  <1> DEFINE a == list_add(l, q, t)
  <1>1. a \in ListsType /\ a[q] = Append(l[q], t)
    BY AppendOnce DEF list_add, ListsType
  <1>2. \A r \in Queues : r # q => a[r] = l[r]
    BY DEF list_add, ListsType
  <1>3. t \notin Range(l[q]) /\ IsInjective(l[q]) /\ l[q] \in Seq(Tasks)
    BY DEF Linked, Once, ListsType
  <1>4. Range(a[q]) = Range(l[q]) \cup {t} /\ IsInjective(a[q])
    BY <1>1, <1>3, AppendOnce
  <1> HIDE DEF a
  <1>5. Once(a)
    BY <1>2, <1>4 DEF Once, Linked
  <1> QED BY <1>1, <1>2, <1>4, <1>5 DEF a

\* Moving a task between lists, as blocking and waking do.
LEMMA MoveLists ==
    ASSUME NEW l \in ListsType, NEW q \in Queues, NEW t \in Tasks, Once(l)
    PROVE  /\ Move(l, t, q) \in ListsType
           /\ Once(Move(l, t, q))
           /\ Range(Move(l, t, q)[q]) = Range(l[q]) \cup {t}
  <1> DEFINE d == list_del(l, t)
  <1>1. /\ d \in ListsType /\ Once(d) /\ ~ Linked(d, t)
        /\ \A r \in Queues : Range(d[r]) = Range(l[r]) \ {t}
    BY DelLists
  <1> HIDE DEF d
  <1>2. /\ list_add(d, q, t) \in ListsType /\ Once(list_add(d, q, t))
        /\ Range(list_add(d, q, t)[q]) = Range(d[q]) \cup {t}
        /\ \A r \in Queues \ {q} : list_add(d, q, t)[r] = d[r]
    BY <1>1, AddLists
  <1>3. Move(l, t, q) = list_add(d, q, t)
    BY DEF Move, d
  <1> QED BY <1>1, <1>2, <1>3

\* ... and leaves the others as they are, without it.
LEMMA MoveOther ==
    ASSUME NEW l \in ListsType, NEW q \in Queues, NEW t \in Tasks, Once(l),
           NEW r \in Queues, r # q
    PROVE  Range(Move(l, t, q)[r]) = Range(l[r]) \ {t}
  <1> DEFINE d == list_del(l, t)
  <1>1. /\ d \in ListsType /\ Once(d) /\ ~ Linked(d, t)
        /\ Range(d[r]) = Range(l[r]) \ {t}
    BY DelLists
  <1> HIDE DEF d
  <1>2. list_add(d, q, t)[r] = d[r]
    BY <1>1, AddLists
  <1> QED BY <1>1, <1>2 DEF Move, d

\* A pick permutes the RR queue and chooses a task of a run queue, or Idle.
LEMMA PickLists ==
    ASSUME NEW l \in ListsType
    PROVE  /\ AfterPick(l) \in ListsType
           /\ Once(l) => Once(AfterPick(l))
           /\ \A q \in Queues : Range(AfterPick(l)[q]) = Range(l[q])
           /\ \A q \in Queues \ {"rr"} : AfterPick(l)[q] = l[q]
           /\ PickTask(l) \in Range(l["fifo"]) \cup Range(l["rr"]) \cup {Idle}
           /\ PickTask(l) \in Tasks \cup {Idle}
  <1> DEFINE a == AfterPick(l)
  <1>0. "rr" \in Queues /\ "fifo" \in Queues
    BY DEF Queues, Policies
  <1>1. a["rr"] = Rotate(l["rr"]) /\ \A q \in Queues \ {"rr"} : a[q] = l[q]
    BY <1>0 DEF AfterPick, ListsType
  <1>2. /\ Rotate(l["rr"]) \in Seq(Tasks)
        /\ Range(Rotate(l["rr"])) = Range(l["rr"])
        /\ IsInjective(l["rr"]) => IsInjective(Rotate(l["rr"]))
        /\ l["rr"] # <<>> => Head(Rotate(l["rr"])) \in Range(l["rr"])
    BY <1>0, RotateOnce DEF ListsType
  <1>3. a \in ListsType
    BY <1>0, <1>2 DEF AfterPick, ListsType
  <1>4. PickTask(l) \in Range(l["fifo"]) \cup Range(l["rr"]) \cup {Idle}
    <2>1. l["fifo"] # <<>> => Head(l["fifo"]) \in Range(l["fifo"])
      BY <1>0, UnlinkHead DEF ListsType
    <2> QED BY <1>1, <1>2, <2>1 DEF PickTask
  <1>5. \A q \in Queues : Range(l[q]) \subseteq Tasks
    BY DEF ListsType, Range
  <1>6. \A q \in Queues : Range(a[q]) = Range(l[q])
    BY <1>1, <1>2
  <1>7. Once(l) => Once(a)
    BY <1>0, <1>1, <1>2, <1>6 DEF Once
  <1> QED BY <1>0, <1>1, <1>3, <1>4, <1>5, <1>6, <1>7

\* Waking the first waiter of s moves it to its policy's run queue.
LEMMA WakeLists ==
    ASSUME NEW l \in ListsType, NEW s \in Sems, Once(l),
           policy \in [Tasks -> Policies]
    PROVE  /\ WakeFirst(l, s) \in ListsType
           /\ Once(WakeFirst(l, s))
           /\ l[s] = <<>> => WakeFirst(l, s) = l
           /\ l[s] # <<>> =>
                 /\ Head(l[s]) \in Tasks
                 /\ Head(l[s]) \in Range(l[s])
                 /\ WakeFirst(l, s) = Move(l, Head(l[s]), policy[Head(l[s])])
                 /\ policy[Head(l[s])] \in Policies
  <1>1. CASE l[s] = <<>>
    BY <1>1 DEF WakeFirst
  <1>2. CASE l[s] # <<>>
    <2> DEFINE h == Head(l[s])
               p == policy[h]
    <2>1. s \in Queues /\ l[s] \in Seq(Tasks)
      BY DEF Queues, ListsType
    <2>2. h \in Tasks /\ h \in Range(l[s])
      BY <1>2, <2>1, UnlinkHead
    <2>3. p \in Queues /\ p \in Policies
      BY <2>2 DEF Queues
    <2>4. WakeFirst(l, s) = Move(l, h, p)
      BY <1>2 DEF WakeFirst
    <2> HIDE DEF h, p
    <2>5. /\ Move(l, h, p) \in ListsType
          /\ Once(Move(l, h, p))
      BY <2>2, <2>3, MoveLists
    <2> QED BY <1>2, <2>2, <2>3, <2>4, <2>5 DEF h, p
  <1> QED BY <1>1, <1>2

-----------------------------------------------------------------------------
(* Types.  The type invariant is inductive only together with what a task's *)
(* local variables hold at each point of its kernel call.                   *)

LocalInv ==
    \A t \in Tasks :
        /\ pc[t] \in {"down", "check", "first", "del", "add"} => sem[t] \in Sems
        /\ pc[t] \in {"del", "add"} => tgt[t] \in Tasks
        /\ pc[t] = "locked" => current = t /\ is_locked > 0

TypeInv == TypeOK /\ LinkedOnce /\ LocalInv

\* What schedule() leaves behind, from lists l.
LEMMA ScheduleStep ==
    ASSUME TypeOK, NEW l \in ListsType, Once(l), schedule(l)
    PROVE  /\ list' \in ListsType /\ Once(list')
           /\ \A q \in Queues : Range(list'[q]) = Range(l[q])
           /\ \A q \in Queues \ {"rr"} : list'[q] = l[q]
           /\ current' \in Tasks \cup {Idle}
           /\ need_resched' \in BOOLEAN
           /\ fault' \in Faults
           /\ IF is_locked > 0
              THEN fault' # None /\ current' = current /\ need_resched' = need_resched
              ELSE /\ fault' = fault
                   /\ current' \in Range(l["fifo"]) \cup Range(l["rr"]) \cup {Idle}
  <1>1. CASE is_locked > 0
    BY <1>1 DEF schedule, TypeOK, Faults, None
  <1>2. CASE ~ (is_locked > 0)
    BY <1>2, PickLists DEF schedule, TypeOK
  <1> QED BY <1>1, <1>2

\* The initial run queue holds every task once.
LEMMA InitLists ==
    ASSUME Init
    PROVE  list \in ListsType /\ Once(list)
  <1>1. PICK order \in Bijection(1..Cardinality(Tasks), Tasks) :
           list = [q \in Queues |-> IF q = "rr" THEN order ELSE <<>>]
    BY DEF Init
  <1>2. Cardinality(Tasks) \in Nat
    BY FS_CardinalityType, ConstantsAssumption
  <1>3. order \in Seq(Tasks) /\ IsInjective(order)
    BY <1>2 DEF Bijection, Injection
  <1>4. <<>> \in Seq(Tasks) /\ IsInjective(<<>>) /\ Range(<<>>) = {}
    BY DEF IsInjective, Range
  <1>5. list \in ListsType
    BY <1>1, <1>3, <1>4 DEF ListsType
  <1>6. \A q \in Queues : list[q] = IF q = "rr" THEN order ELSE <<>>
    BY <1>1
  <1>7. Once(list)
    BY <1>3, <1>4, <1>6 DEF Once
  <1> QED BY <1>5, <1>7

\* The types at the start.
LEMMA TypeInvInit == Init => TypeInv
  <1> SUFFICES ASSUME Init PROVE TypeInv
    OBVIOUS
  <1>1. list \in ListsType /\ Once(list)
    BY InitLists
  <1>2. TypeOK
    BY <1>1, ConstantsAssumption DEF Init, TypeOK, ListsType, Labels, Faults, None, Policies
  <1>3. LocalInv
    BY DEF Init, LocalInv
  <1> QED BY <1>1, <1>2, <1>3 DEF TypeInv, LinkedOnce

\* Every step keeps the types, and no list gets a task twice.
LEMMA TypeInvStep == TypeInv /\ [Next]_vars => TypeInv'
  <1> SUFFICES ASSUME TypeInv, [Next]_vars PROVE TypeInv'
    OBVIOUS
  <1> USE DEF TypeInv, LinkedOnce
  <1>0. list \in ListsType /\ Once(list) /\ "rr" \in Policies /\ Policies \subseteq Queues
        /\ Sems \subseteq Queues /\ None \notin Sems /\ None \in Faults
    BY ConstantsAssumption DEF TypeOK, ListsType, Queues, Policies, Faults
  <1>1. ASSUME NEW s \in Sems, IsrUp(s) PROVE TypeInv'
    <2>1. WakeFirst(list, s) \in ListsType /\ Once(WakeFirst(list, s))
      BY <1>0, WakeLists DEF TypeOK
    <2>2. TypeOK'
      BY <1>1, <2>1 DEF IsrUp, TypeOK, cpu, local, ListsType
    <2>3. LocalInv'
      BY <1>1 DEF IsrUp, LocalInv, cpu, local
    <2> QED BY <1>1, <2>1, <2>2, <2>3 DEF IsrUp
  <1>2. ASSUME NEW s \in Sems \cup {None}, Tick(s) PROVE TypeInv'
    <2> DEFINE l == IF s = None THEN list ELSE WakeFirst(list, s)
    <2>1. l \in ListsType /\ Once(l)
      BY <1>0, WakeLists DEF TypeOK
    <2>2. /\ count' = IF s = None THEN count ELSE [count EXCEPT ![s] = @ + 1]
          /\ IF in_pendsv
             THEN /\ pendsv' = TRUE
                  /\ need_resched' = TRUE
                  /\ list' = l
                  /\ UNCHANGED <<current, fault>>
             ELSE /\ schedule(l)
                  /\ UNCHANGED pendsv
          /\ UNCHANGED <<in_pendsv, is_locked, policy, pc, sem, tgt, holds>>
      BY <1>2 DEF Tick, local
    <2> HIDE DEF l
    <2>3. /\ list' \in ListsType /\ Once(list')
          /\ current' \in Tasks \cup {Idle} /\ need_resched' \in BOOLEAN
          /\ fault' \in Faults /\ pendsv' \in BOOLEAN
          /\ is_locked > 0 => current' = current
      BY <2>1, <2>2, ScheduleStep DEF TypeOK
    <2>4. count' \in [Sems -> Nat]
      BY <2>2 DEF TypeOK
    <2>5. TypeOK'
      BY <2>2, <2>3, <2>4 DEF TypeOK, ListsType
    <2>6. LocalInv'
      BY <2>2, <2>3 DEF LocalInv, TypeOK
    <2> QED BY <2>3, <2>5, <2>6
  <1>3. CASE PendSVEnter
    BY <1>3 DEF PendSVEnter, TypeOK, LocalInv, local
  <1>4. CASE pendsv_handler
    <2>1. /\ list' \in ListsType /\ Once(list')
          /\ current' \in Tasks \cup {Idle} /\ need_resched' \in BOOLEAN
          /\ fault' \in Faults
          /\ is_locked > 0 => current' = current
      BY <1>0, <1>4, ScheduleStep DEF TypeOK, pendsv_handler
    <2>2. TypeOK'
      BY <1>4, <2>1 DEF TypeOK, ListsType, pendsv_handler, local
    <2>3. LocalInv'
      BY <1>4, <2>1 DEF LocalInv, TypeOK, pendsv_handler, local
    <2> QED BY <2>1, <2>2, <2>3
  <1>5. ASSUME NEW t \in Tasks, TaskStep(t) PROVE TypeInv'
    <2> USE DEF Running, Goto, cpu
    <2>1. CASE Yield(t)
      BY <2>1 DEF Yield, TypeOK, LocalInv, Labels
    <2>2. CASE YieldFlag(t)
      BY <2>2 DEF YieldFlag, TypeOK, LocalInv, Labels
    <2>3. CASE YieldPend(t)
      BY <2>3 DEF YieldPend, TypeOK, LocalInv, Labels
    <2>4. CASE Down(t)
      <3>1. sem[t] \in Sems
        BY <2>4 DEF Down, LocalInv
      <3>2. CASE count[sem[t]] > 0
        <4>1. /\ Take(t, sem[t])
              /\ pc' = [pc EXCEPT ![t] = "user"] /\ sem' = [sem EXCEPT ![t] = None]
              /\ UNCHANGED <<current, need_resched, pendsv, in_pendsv, is_locked,
                             list, policy, tgt, fault>>
          BY <2>4, <3>2 DEF Down
        <4>2. TypeOK'
          <5>1. count' \in [Sems -> Nat]
            BY <3>1, <3>2, <4>1 DEF Take, TypeOK
          <5>2. holds' \in [Tasks -> SUBSET Mutexes]
            BY <4>1 DEF Take, TypeOK
          <5> QED BY <4>1, <5>1, <5>2 DEF TypeOK, Labels
        <4>3. LocalInv'
          BY <4>1 DEF LocalInv, TypeOK
        <4> QED BY <4>1, <4>2, <4>3
      <3>3. CASE ~ (count[sem[t]] > 0)
        <4>1. Move(list, t, sem[t]) \in ListsType /\ Once(Move(list, t, sem[t]))
          BY <1>0, <3>1, MoveLists
        <4>2. list' = Move(list, t, sem[t])
          BY <2>4, <3>3 DEF Down
        <4>3. TypeOK'
          BY <2>4, <3>3, <4>1, <4>2 DEF Down, TypeOK, ListsType, Labels
        <4>4. LocalInv'
          BY <2>4, <3>3 DEF Down, LocalInv, TypeOK
        <4> QED BY <4>1, <4>2, <4>3, <4>4
      <3> QED BY <3>2, <3>3
    <2>5. ASSUME NEW s \in Sems, Lock(t, s) PROVE TypeInv'
      BY <2>5 DEF Lock, TypeOK, LocalInv, Labels
    <2>6. ASSUME NEW s \in Sems, TryLock(t, s) PROVE TypeInv'
      BY <2>6 DEF TryLock, Take, TypeOK, LocalInv
    <2>7. ASSUME NEW s \in Sems, Unlock(t, s) PROVE TypeInv'
      BY <2>7 DEF Unlock, TypeOK, LocalInv, Labels
    <2>8. CASE UnlockCheck(t)
      <3>1. TypeOK'
        BY <2>8 DEF UnlockCheck, TypeOK, Labels
      <3>2. LocalInv'
        BY <2>8 DEF UnlockCheck, LocalInv, TypeOK
      <3> QED BY <2>8, <3>1, <3>2 DEF UnlockCheck
    <2>9. CASE UnlockFirst(t)
      <3>1. sem[t] \in Sems /\ list[sem[t]] \in Seq(Tasks)
        BY <1>0, <2>9 DEF UnlockFirst, LocalInv, ListsType
      <3>2. list[sem[t]] # <<>> => Head(list[sem[t]]) \in Tasks
        BY <3>1
      <3>3. TypeOK'
        BY <2>9, <3>2 DEF UnlockFirst, TypeOK, Labels, Faults
      <3>4. LocalInv'
        BY <2>9, <3>1, <3>2 DEF UnlockFirst, LocalInv, TypeOK
      <3> QED BY <2>9, <3>3, <3>4 DEF UnlockFirst
    <2>10. CASE UnlockDel(t)
      <3>1. tgt[t] \in Tasks
        BY <2>10 DEF UnlockDel, LocalInv
      <3>2. list' \in ListsType /\ Once(list')
        BY <1>0, <2>10, <3>1, DelLists DEF UnlockDel
      <3>3. TypeOK'
        BY <2>10, <3>2 DEF UnlockDel, TypeOK, Labels, ListsType
      <3>4. LocalInv'
        BY <2>10 DEF UnlockDel, LocalInv, TypeOK
      <3> QED BY <3>2, <3>3, <3>4
    <2>11. CASE UnlockAdd(t)
      <3>1. tgt[t] \in Tasks /\ policy[tgt[t]] \in Queues
        BY <1>0, <2>11 DEF UnlockAdd, LocalInv, TypeOK
      <3>2. list' \in ListsType /\ Once(list') /\ fault' \in Faults
        BY <1>0, <2>11, <3>1, AddLists
           DEF UnlockAdd, sched_add_to_runqueue, TypeOK, Faults
      <3>3. TypeOK'
        BY <2>11, <3>2 DEF UnlockAdd, TypeOK, Labels, ListsType
      <3>4. LocalInv'
        BY <2>11 DEF UnlockAdd, LocalInv, TypeOK
      <3> QED BY <3>2, <3>3, <3>4
    <2>12. CASE SetSchedRemove(t)
      <3>1. list' \in ListsType /\ Once(list')
        BY <1>0, <2>12, DelLists DEF SetSchedRemove
      <3>2. TypeOK'
        BY <2>12, <3>1 DEF SetSchedRemove, TypeOK, Labels, ListsType
      <3>3. LocalInv'
        BY <2>12 DEF SetSchedRemove, LocalInv, TypeOK
      <3> QED BY <3>1, <3>2, <3>3
    <2>13. ASSUME NEW p \in Policies, SetSchedAdd(t, p) PROVE TypeInv'
      <3>1. list' \in ListsType /\ Once(list') /\ fault' \in Faults
        BY <1>0, <2>13, AddLists
           DEF SetSchedAdd, sched_add_to_runqueue, TypeOK, Faults
      <3>2. TypeOK'
        BY <2>13, <3>1 DEF SetSchedAdd, TypeOK, Labels, ListsType
      <3>3. LocalInv'
        BY <2>13 DEF SetSchedAdd, LocalInv, TypeOK
      <3> QED BY <3>1, <3>2, <3>3
    <2>14. CASE sched_lock(t)
      BY <2>14 DEF sched_lock, TypeOK, LocalInv, Labels
    <2>15. CASE sched_unlock(t)
      BY <2>15 DEF sched_unlock, TypeOK, LocalInv, Labels
    <2> QED
      BY <1>5, <2>1, <2>2, <2>3, <2>4, <2>5, <2>6, <2>7, <2>8, <2>9, <2>10,
         <2>11, <2>12, <2>13, <2>14, <2>15 DEF TaskStep
  <1>6. CASE UNCHANGED vars
    BY <1>6 DEF vars, TypeOK, LocalInv
  <1> QED BY <1>1, <1>2, <1>3, <1>4, <1>5, <1>6 DEF Next

(* Every variable keeps its type, whatever tasks, semaphores and users the *)
(* system has: in particular no count and no lock depth goes below zero.   *)
THEOREM TypeCorrect == Spec => []TypeOK
  <1>1. TypeInv => TypeOK
    BY DEF TypeInv
  <1> QED BY <1>1, TypeInvInit, TypeInvStep, PTL DEF Spec

(* A task is never on two lists, nor twice on one: every list_add the      *)
(* scheduler and the semaphores make is of an unlinked node, or is the     *)
(* fault at which the behaviour ends.                                      *)
THEOREM ListsWellFormed == Spec => []LinkedOnce
  <1>1. TypeInv => LinkedOnce
    BY DEF TypeInv
  <1> QED BY <1>1, TypeInvInit, TypeInvStep, PTL DEF Spec

-----------------------------------------------------------------------------
(* Mutual exclusion needs no more than the types. *)

\* All mutexes are free at the start.
LEMMA MutexInit == Init => MutualExclusion
  BY ConstantsAssumption DEF Init, MutualExclusion

\* Taking a unit of a free mutex makes the taker its only holder.
LEMMA MutexTake ==
    ASSUME TypeOK, MutualExclusion, NEW t \in Tasks, NEW s \in Sems,
           count[s] > 0, Take(t, s)
    PROVE  MutualExclusion'
  <1> SUFFICES ASSUME NEW m \in Mutexes
               PROVE  \/ count'[m] = 1 /\ \A u \in Tasks : m \notin holds'[u]
                      \/ count'[m] = 0 /\ \E v \in Tasks : \A u \in Tasks :
                                              m \in holds'[u] <=> u = v
    BY DEF MutualExclusion
  <1>1. m \in Sems
    BY ConstantsAssumption
  <1>2. CASE m = s
    <2>1. count[m] = 1 /\ \A u \in Tasks : m \notin holds[u]
      BY <1>2 DEF MutualExclusion
    <2>2. count'[m] = 0
      BY <1>1, <1>2, <2>1 DEF Take, TypeOK
    <2>3. \A u \in Tasks : m \in holds'[u] <=> u = t
      BY <1>2, <2>1 DEF Take, TypeOK
    <2> QED BY <2>2, <2>3
  <1>3. CASE m # s
    <2>1. count'[m] = count[m]
      BY <1>1, <1>3 DEF Take, TypeOK
    <2>2. \A u \in Tasks : m \in holds'[u] <=> m \in holds[u]
      BY <1>3 DEF Take, TypeOK
    <2> QED BY <2>1, <2>2 DEF MutualExclusion
  <1> QED BY <1>2, <1>3

\* Every step keeps mutexes exclusive.
LEMMA MutexStep == TypeInv /\ MutualExclusion /\ [Next]_vars => MutualExclusion'
  <1> SUFFICES ASSUME TypeInv, MutualExclusion, [Next]_vars PROVE MutualExclusion'
    OBVIOUS
  <1>0. TypeOK /\ LocalInv
    BY DEF TypeInv
  <1>1. ASSUME NEW s \in Sems \ Mutexes, count' = [count EXCEPT ![s] = @ + 1],
               holds' = holds
        PROVE MutualExclusion'
    <2>1. \A m \in Mutexes : count'[m] = count[m]
      BY <1>0, <1>1, ConstantsAssumption DEF TypeOK
    <2> QED BY <1>1, <2>1 DEF MutualExclusion
  <1>2. ASSUME count' = count, holds' = holds PROVE MutualExclusion'
    BY <1>2 DEF MutualExclusion
  <1>3. ASSUME NEW s \in Sems, IsrUp(s) PROVE MutualExclusion'
    BY <1>1, <1>3, ConstantsAssumption DEF IsrUp, local
  <1>4. ASSUME NEW s \in Sems \cup {None}, Tick(s) PROVE MutualExclusion'
    <2>1. holds' = holds
      BY <1>4 DEF Tick, local
    <2>2. CASE s = None
      BY <1>2, <1>4, <2>1, <2>2 DEF Tick
    <2>3. CASE s # None
      BY <1>1, <1>4, <2>1, <2>3, ConstantsAssumption DEF Tick
    <2> QED BY <2>2, <2>3
  <1>5. CASE PendSVEnter \/ pendsv_handler
    BY <1>2, <1>5 DEF PendSVEnter, pendsv_handler, local
  <1>6. ASSUME NEW t \in Tasks, TaskStep(t) PROVE MutualExclusion'
    <2>1. CASE Down(t)
      <3>1. sem[t] \in Sems
        BY <1>0, <2>1 DEF Down, LocalInv, Running
      <3>2. CASE count[sem[t]] > 0
        <4>1. Take(t, sem[t])
          BY <2>1, <3>2 DEF Down
        <4> QED BY <1>0, <3>1, <3>2, <4>1, MutexTake
      <3>3. CASE ~ (count[sem[t]] > 0)
        <4>1. count' = count /\ holds' = holds
          BY <2>1, <3>3 DEF Down
        <4> QED BY <1>2, <4>1
      <3> QED BY <3>2, <3>3
    <2>2. ASSUME NEW s \in Sems, TryLock(t, s) PROVE MutualExclusion'
      BY <1>0, <2>2, MutexTake DEF TryLock
    <2>3. ASSUME NEW s \in Sems, Unlock(t, s) PROVE MutualExclusion'
      <3>1. /\ count' = [count EXCEPT ![s] = @ + 1]
            /\ holds' = [holds EXCEPT ![t] = @ \ {s}]
        BY <2>3 DEF Unlock
      <3>2. CASE s \in Mutexes
        <4>1. s \in holds[t]
          BY <2>3, <3>2 DEF Unlock
        <4>2. count[s] = 0 /\ \A u \in Tasks : s \in holds[u] <=> u = t
          BY <3>2, <4>1 DEF MutualExclusion
        <4>3. count'[s] = 1 /\ \A u \in Tasks : s \notin holds'[u]
          BY <1>0, <3>1, <4>2 DEF TypeOK
        <4>4. \A m \in Mutexes \ {s} : count'[m] = count[m]
          BY <1>0, <3>1, ConstantsAssumption DEF TypeOK
        <4>5. \A m \in Mutexes \ {s} : \A u \in Tasks :
                 m \in holds'[u] <=> m \in holds[u]
          BY <1>0, <3>1 DEF TypeOK
        <4> QED BY <4>3, <4>4, <4>5 DEF MutualExclusion
      <3>3. CASE s \notin Mutexes
        <4>1. holds' = holds
          BY <1>0, <3>1, <3>3 DEF TypeOK
        <4> QED BY <1>1, <3>1, <3>3, <4>1
      <3> QED BY <3>2, <3>3
    <2>4. ASSUME \/ Yield(t) \/ YieldFlag(t) \/ YieldPend(t)
                 \/ \E s \in Sems : Lock(t, s)
                 \/ UnlockCheck(t) \/ UnlockFirst(t) \/ UnlockDel(t)
                 \/ UnlockAdd(t) \/ SetSchedRemove(t)
                 \/ \E p \in Policies : SetSchedAdd(t, p)
                 \/ sched_lock(t) \/ sched_unlock(t)
          PROVE MutualExclusion'
      <3>1. count' = count /\ holds' = holds
        BY <2>4 DEF Yield, YieldFlag, YieldPend, Lock, UnlockCheck, UnlockFirst,
             UnlockDel, UnlockAdd, SetSchedRemove, SetSchedAdd, sched_lock,
             sched_unlock
      <3> QED BY <1>2, <3>1
    <2> QED BY <1>6, <2>1, <2>2, <2>3, <2>4 DEF TaskStep
  <1>7. CASE UNCHANGED vars
    BY <1>2, <1>7 DEF vars
  <1> QED BY <1>3, <1>4, <1>5, <1>6, <1>7 DEF Next

(* Mutexes exclude: at most one task holds a mutex, and it is free exactly *)
(* when its count is one, although semaphore_unlock leaves interrupts      *)
(* enabled and trylock and lock compete for the count.                     *)
THEOREM MutexesExclude == Spec => []MutualExclusion
  <1>1. Init => TypeInv /\ MutualExclusion
    BY TypeInvInit, MutexInit
  <1>2. TypeInv /\ MutualExclusion /\ [Next]_vars => (TypeInv /\ MutualExclusion)'
    BY TypeInvStep, MutexStep
  <1> QED BY <1>1, <1>2, PTL DEF Spec

-----------------------------------------------------------------------------
(* A task on a wait list that still has the CPU is on its way out: it is   *)
(* about to yield, or PendSV is about to switch.  schedule() clears        *)
(* need_resched only when it takes the CPU away from such a task.          *)

Waiting(t) == \E s \in Sems : t \in Range(list[s])

Leaving(t) ==
    \/ pc[t] = "yield"
    \/ pc[t] = "pend" /\ need_resched
    \/ pc[t] = "down" /\ need_resched /\ (pendsv \/ in_pendsv)

\* Who waits on s is inside semaphore_lock(s).
WaitInv ==
    fault = None =>
        \A s \in Sems : \A t \in Tasks : t \in Range(list[s]) =>
            sem[t] = s /\ pc[t] \in {"yield", "pend", "down"}

RetestInv ==
    fault = None => \A t \in Tasks : current = t /\ Waiting(t) => Leaving(t)

\* Waking the first waiter of a semaphore puts nobody on a wait list.
LEMMA WakeShrinks ==
    ASSUME TypeInv, NEW s \in Sems
    PROVE  /\ WakeFirst(list, s) \in ListsType /\ Once(WakeFirst(list, s))
           /\ \A r \in Sems : Range(WakeFirst(list, s)[r]) \subseteq Range(list[r])
  <1>1. list \in ListsType /\ Once(list) /\ policy \in [Tasks -> Policies]
    BY DEF TypeInv, TypeOK, LinkedOnce, ListsType
  <1>2. WakeFirst(list, s) \in ListsType /\ Once(WakeFirst(list, s))
    BY <1>1, WakeLists
  <1>3. CASE list[s] = <<>>
    BY <1>1, <1>2, <1>3, WakeLists
  <1>4. CASE list[s] # <<>>
    <2>1. PICK h \in Tasks, p \in Policies : WakeFirst(list, s) = Move(list, h, p)
      BY <1>1, <1>4, WakeLists
    <2>2. p \in Queues /\ \A r \in Sems : r \in Queues /\ r # p
      BY <2>1, ConstantsAssumption DEF Queues
    <2>3. \A r \in Sems : Range(Move(list, h, p)[r]) = Range(list[r]) \ {h}
      BY <1>1, <2>2, MoveOther
    <2> QED BY <1>2, <2>1, <2>2, <2>3
  <1> QED BY <1>3, <1>4

\* After a pick from lists l the running task, if any, waits on nothing.
LEMMA PickedNotWaiting ==
    ASSUME TypeInv, NEW l \in ListsType, Once(l), schedule(l), ~ (is_locked > 0),
           NEW t \in Tasks, current' = t
    PROVE  ~ Waiting(t)'
  <1>1. /\ \A q \in Queues : Range(list'[q]) = Range(l[q])
        /\ current' \in Range(l["fifo"]) \cup Range(l["rr"]) \cup {Idle}
    BY ScheduleStep DEF TypeInv
  <1>2. t # Idle /\ "fifo" \in Policies /\ "rr" \in Policies
    BY ConstantsAssumption DEF Policies
  <1>3. \A s \in Sems : s \in Queues /\ s # "fifo" /\ s # "rr"
    BY <1>2, ConstantsAssumption DEF Queues
  <1>4. \A s \in Sems : t \notin Range(l[s])
    BY <1>1, <1>2, <1>3 DEF Once, Queues
  <1> QED BY <1>1, <1>3, <1>4 DEF Waiting

\* Every step keeps waiters inside semaphore_lock.
LEMMA WaitStep == TypeInv /\ WaitInv /\ RetestInv /\ [Next]_vars => WaitInv'
  <1> SUFFICES ASSUME TypeInv, WaitInv, RetestInv, [Next]_vars, fault' = None,
                      NEW s \in Sems, NEW t \in Tasks, t \in Range(list'[s])
               PROVE  sem'[t] = s /\ pc'[t] \in {"yield", "pend", "down"}
    BY DEF WaitInv
  <1>0. /\ list \in ListsType /\ Once(list) /\ TypeOK /\ LocalInv
        /\ Sems \subseteq Queues /\ Policies \subseteq Queues
        /\ Sems \cap Policies = {} /\ s # "rr" /\ s \in Queues
    BY ConstantsAssumption DEF TypeInv, TypeOK, LinkedOnce, ListsType, Queues, Policies
  <1>00. fault = None
    BY DEF Next, vars, IsrUp, Tick, PendSVEnter, pendsv_handler, TaskStep, Yield,
       YieldFlag, YieldPend, Down, Lock, TryLock, Unlock, UnlockCheck, UnlockFirst,
       UnlockDel, UnlockAdd, SetSchedRemove, SetSchedAdd, sched_lock,
       sched_unlock, Running
  <1>1. ASSUME t \in Range(list[s]), sem'[t] = sem[t], pc'[t] = pc[t]
        PROVE  sem'[t] = s /\ pc'[t] \in {"yield", "pend", "down"}
    BY <1>00, <1>1 DEF WaitInv
  <1>2. ASSUME NEW r \in Sems, IsrUp(r)
        PROVE  sem'[t] = s /\ pc'[t] \in {"yield", "pend", "down"}
    BY <1>1, <1>2, WakeShrinks DEF IsrUp, local
  <1>3. ASSUME NEW r \in Sems \cup {None}, Tick(r)
        PROVE  sem'[t] = s /\ pc'[t] \in {"yield", "pend", "down"}
    <2> DEFINE l == IF r = None THEN list ELSE WakeFirst(list, r)
    <2>1. l \in ListsType /\ Once(l) /\ Range(l[s]) \subseteq Range(list[s])
      BY <1>0, WakeShrinks
    <2>2. (list' = l \/ schedule(l)) /\ UNCHANGED <<sem, pc>>
      BY <1>3 DEF Tick, local
    <2> HIDE DEF l
    <2>3. Range(list'[s]) = Range(l[s])
      BY <1>0, <2>1, <2>2, ScheduleStep
    <2> QED BY <1>1, <2>1, <2>2, <2>3
  <1>4. CASE PendSVEnter
    BY <1>1, <1>4 DEF PendSVEnter, local
  <1>5. CASE pendsv_handler
    <2>1. Range(list'[s]) = Range(list[s]) /\ UNCHANGED <<sem, pc>>
      BY <1>0, <1>5, ScheduleStep DEF pendsv_handler, local
    <2> QED BY <1>1, <2>1
  <1>6. ASSUME NEW u \in Tasks, TaskStep(u)
        PROVE  sem'[t] = s /\ pc'[t] \in {"yield", "pend", "down"}
    <2>0. \A label : Running(u, label) =>
             /\ current = u /\ ~pendsv /\ ~in_pendsv /\ pc[u] = label
             /\ label \notin {"yield", "pend"} => ~Waiting(u)
      BY <1>00 DEF Running, RetestInv, Leaving
    <2>1. ASSUME t \in Range(list[s]), ~Waiting(u),
                 \A v \in Tasks \ {u} : sem'[v] = sem[v] /\ pc'[v] = pc[v]
          PROVE  sem'[t] = s /\ pc'[t] \in {"yield", "pend", "down"}
      BY <1>1, <2>1 DEF Waiting
    <2>2. ASSUME Yield(u) \/ (\E r \in Sems : Lock(u, r) \/ TryLock(u, r) \/ Unlock(u, r))
                 \/ UnlockCheck(u) \/ UnlockFirst(u) \/ sched_lock(u) \/ sched_unlock(u)
          PROVE  sem'[t] = s /\ pc'[t] \in {"yield", "pend", "down"}
      <3>1. ~Waiting(u) /\ list' = list
        BY <2>0, <2>2 DEF Yield, Lock, TryLock, Unlock, UnlockCheck, UnlockFirst,
             sched_lock, sched_unlock, cpu
      <3>2. \A v \in Tasks \ {u} : sem'[v] = sem[v] /\ pc'[v] = pc[v]
        BY <1>0, <2>2 DEF Yield, Lock, TryLock, Unlock, UnlockCheck, UnlockFirst,
             sched_lock, sched_unlock, Goto, TypeOK
      <3> QED BY <2>1, <3>1, <3>2
    <2>3. CASE YieldFlag(u)
      BY <1>0, <1>00, <2>3 DEF YieldFlag, Goto, WaitInv, TypeOK
    <2>4. CASE YieldPend(u)
      <3>1. t \in Range(list[s]) /\ sem' = sem
            /\ pc' = [pc EXCEPT ![u] = IF sem[u] = None THEN "user" ELSE "down"]
        BY <2>4 DEF YieldPend, Goto
      <3>2. sem[t] = s /\ sem[t] # None /\ pc[t] \in {"yield", "pend", "down"}
        BY <1>00, <3>1, ConstantsAssumption DEF WaitInv
      <3> QED BY <1>0, <3>1, <3>2 DEF TypeOK
    <2>5. CASE Down(u)
      <3>1. ~Waiting(u) /\ sem[u] \in Sems
        BY <1>0, <2>0, <2>5 DEF Down, LocalInv, Running
      <3>2. CASE count[sem[u]] > 0
        <4>1. /\ list' = list
              /\ \A v \in Tasks \ {u} : sem'[v] = sem[v] /\ pc'[v] = pc[v]
          BY <1>0, <2>5, <3>2 DEF Down, Goto, TypeOK
        <4> QED BY <2>1, <3>1, <4>1
      <3>3. CASE ~ (count[sem[u]] > 0)
        <4>1. /\ pc' = [pc EXCEPT ![u] = "yield"] /\ sem' = sem
              /\ list' = Move(list, u, sem[u])
          BY <2>5, <3>3 DEF Down, Goto
        <4>2. sem[u] \in Queues
          BY <1>0, <3>1
        <4>3. CASE s # sem[u]
          <5>1. Range(list'[s]) = Range(list[s]) \ {u}
            BY <1>0, <4>1, <4>2, <4>3, MoveOther
          <5> QED BY <1>0, <1>1, <4>1, <5>1 DEF TypeOK
        <4>4. CASE s = sem[u]
          <5>0. Range(Move(list, u, sem[u])[sem[u]]) = Range(list[sem[u]]) \cup {u}
            BY <1>0, <4>2, MoveLists
          <5>1. Range(list'[s]) = Range(list[s]) \cup {u}
            BY <4>1, <4>4, <5>0
          <5>2. CASE t = u
            BY <1>0, <4>1, <4>4, <5>2 DEF TypeOK
          <5>3. CASE t # u
            BY <1>0, <1>1, <4>1, <5>1, <5>3 DEF TypeOK
          <5> QED BY <5>2, <5>3
        <4> QED BY <4>3, <4>4
      <3> QED BY <3>2, <3>3
    <2>6. CASE UnlockDel(u) \/ SetSchedRemove(u)
      <3>1. PICK x \in Tasks : list' = list_del(list, x)
        BY <1>0, <2>6 DEF UnlockDel, SetSchedRemove, LocalInv, Running
      <3>2. Range(list'[s]) \subseteq Range(list[s])
        BY <1>0, <3>1, DelSubset
      <3>3. ~Waiting(u)
        BY <2>0, <2>6 DEF UnlockDel, SetSchedRemove
      <3>4. \A v \in Tasks \ {u} : sem'[v] = sem[v] /\ pc'[v] = pc[v]
        BY <1>0, <2>6 DEF UnlockDel, SetSchedRemove, Goto, TypeOK
      <3> QED BY <2>1, <3>2, <3>3, <3>4
    <2>7. ASSUME UnlockAdd(u) \/ (\E p \in Policies : SetSchedAdd(u, p))
          PROVE  sem'[t] = s /\ pc'[t] \in {"yield", "pend", "down"}
      <3>1. PICK x \in Tasks, p \in Policies : sched_add_to_runqueue(x, p)
        BY <1>0, <2>7 DEF UnlockAdd, SetSchedAdd, LocalInv, Running, TypeOK
      <3>2. s # p /\ p \in Queues
        BY <1>0, <3>1
      <3>3. list'[s] = list[s]
        BY <1>0, <3>1, <3>2, AddLists DEF sched_add_to_runqueue
      <3>4. ~Waiting(u)
        BY <2>0, <2>7 DEF UnlockAdd, SetSchedAdd
      <3>5. \A v \in Tasks \ {u} : sem'[v] = sem[v] /\ pc'[v] = pc[v]
        BY <1>0, <2>7 DEF UnlockAdd, SetSchedAdd, Goto, TypeOK
      <3> QED BY <2>1, <3>3, <3>4, <3>5
    <2> QED BY <1>6, <2>2, <2>3, <2>4, <2>5, <2>6, <2>7 DEF TaskStep
  <1>7. CASE UNCHANGED vars
    BY <1>1, <1>7 DEF vars
  <1> QED BY <1>2, <1>3, <1>4, <1>5, <1>6, <1>7 DEF Next

\* Every step keeps a running waiter on its way out.
LEMMA RetestStep == TypeInv /\ WaitInv /\ RetestInv /\ [Next]_vars => RetestInv'
  <1> SUFFICES ASSUME TypeInv, WaitInv, RetestInv, [Next]_vars, NEW t \in Tasks,
                      (current = t)', Waiting(t)', fault' = None
               PROVE  Leaving(t)'
    BY DEF RetestInv
  <1>0. /\ list \in ListsType /\ Once(list) /\ TypeOK /\ LocalInv
        /\ Sems \subseteq Queues /\ Policies \subseteq Queues
        /\ Sems \cap Policies = {}
    BY ConstantsAssumption DEF TypeInv, TypeOK, LinkedOnce, ListsType, Queues
  <1>00. fault = None
    BY DEF Next, vars, IsrUp, Tick, PendSVEnter, pendsv_handler, TaskStep, Yield,
       YieldFlag, YieldPend, Down, Lock, TryLock, Unlock, UnlockCheck, UnlockFirst,
       UnlockDel, UnlockAdd, SetSchedRemove, SetSchedAdd, sched_lock,
       sched_unlock, Running
  <1>1. ASSUME current' = current, pc' = pc, \A s \in Sems : Range(list'[s]) \subseteq Range(list[s]),
               need_resched => need_resched', (pendsv \/ in_pendsv) => (pendsv' \/ in_pendsv')
        PROVE  Leaving(t)'
    BY <1>1, <1>00 DEF RetestInv, Waiting, Leaving
  <1>2. ASSUME NEW s \in Sems, IsrUp(s) PROVE Leaving(t)'
    BY <1>1, <1>2, WakeShrinks DEF IsrUp, cpu, local
  <1>3. ASSUME NEW s \in Sems \cup {None}, Tick(s) PROVE Leaving(t)'
    <2> DEFINE l == IF s = None THEN list ELSE WakeFirst(list, s)
    <2>1. /\ l \in ListsType /\ Once(l)
          /\ \A r \in Sems : Range(l[r]) \subseteq Range(list[r])
      BY <1>0, WakeShrinks
    <2>2. /\ IF in_pendsv
             THEN /\ pendsv' = TRUE
                  /\ need_resched' = TRUE
                  /\ list' = l
                  /\ UNCHANGED <<current, fault>>
             ELSE /\ schedule(l)
                  /\ UNCHANGED pendsv
          /\ UNCHANGED <<in_pendsv, pc>>
      BY <1>3 DEF Tick, local
    <2> HIDE DEF l
    <2>3. CASE in_pendsv
      BY <1>1, <2>1, <2>2, <2>3
    <2>4. CASE ~ in_pendsv /\ is_locked > 0
      <3>1. /\ \A q \in Queues : Range(list'[q]) = Range(l[q])
            /\ current' = current /\ need_resched' = need_resched
        BY <1>0, <2>1, <2>2, <2>4, ScheduleStep
      <3>2. \A r \in Sems : Range(list'[r]) \subseteq Range(list[r])
        BY <1>0, <2>1, <3>1
      <3> QED BY <1>1, <2>2, <2>4, <3>1, <3>2
    <2>5. CASE ~ in_pendsv /\ ~ (is_locked > 0)
      <3>1. ~ Waiting(t)'
        BY <2>1, <2>2, <2>5, PickedNotWaiting
      <3> QED BY <3>1
    <2> QED BY <2>3, <2>4, <2>5
  <1>4. CASE PendSVEnter
    BY <1>1, <1>4 DEF PendSVEnter, local
  <1>5. CASE pendsv_handler
    <2>1. CASE ~ need_resched
      <3>1. current' = current /\ list' = list /\ pc' = pc
        BY <1>5, <2>1 DEF pendsv_handler, local
      <3>2. Leaving(t)
        BY <1>00, <3>1 DEF RetestInv, Waiting
      <3> QED BY <2>1, <3>1, <3>2 DEF Leaving
    <2>2. CASE need_resched
      <3>1. schedule(list)
        BY <1>5, <2>2 DEF pendsv_handler
      <3>2. CASE is_locked > 0
        BY <3>1, <3>2 DEF schedule, None
      <3>3. CASE ~ (is_locked > 0)
        <4>1. ~ Waiting(t)'
          BY <1>0, <3>1, <3>3, PickedNotWaiting
        <4> QED BY <4>1
      <3> QED BY <3>2, <3>3
    <2> QED BY <2>1, <2>2
  <1>6. ASSUME NEW u \in Tasks, TaskStep(u) PROVE Leaving(t)'
    <2>0. \A label : Running(u, label) =>
             /\ current = u /\ ~pendsv /\ ~in_pendsv /\ pc[u] = label
             /\ label \notin {"yield", "pend"} => ~Waiting(u)
      BY <1>00 DEF Running, RetestInv, Leaving
    <2>1. ASSUME current' = current, ~Waiting(u), current = u,
                 \A s \in Sems : Range(list'[s]) \subseteq Range(list[s])
          PROVE  FALSE
      BY <2>1 DEF Waiting
    <2>2. ASSUME Yield(u) \/ (\E s \in Sems : Lock(u, s) \/ TryLock(u, s) \/ Unlock(u, s))
                 \/ UnlockCheck(u) \/ UnlockFirst(u) \/ sched_lock(u) \/ sched_unlock(u)
          PROVE Leaving(t)'
      <3>1. ~Waiting(u) /\ current = u /\ current' = current /\ list' = list
        BY <2>0, <2>2 DEF Yield, Lock, TryLock, Unlock, UnlockCheck, UnlockFirst,
             sched_lock, sched_unlock, cpu
      <3> QED BY <2>1, <3>1
    <2>3. CASE YieldFlag(u)
      BY <2>0, <2>3 DEF YieldFlag, Goto, Leaving, TypeInv, TypeOK
    <2>4. CASE YieldPend(u)
      <3>1. /\ current = u /\ current' = current /\ list' = list /\ pc[u] = "pend"
            /\ pendsv' = TRUE /\ need_resched' = need_resched
            /\ pc' = [pc EXCEPT ![u] = IF sem[u] = None THEN "user" ELSE "down"]
        BY <2>0, <2>4 DEF YieldPend, Goto
      <3>2. t = u /\ Waiting(u)
        BY <3>1 DEF Waiting
      <3>3. need_resched
        BY <1>00, <3>1, <3>2 DEF RetestInv, Leaving
      <3>4. sem[u] # None
        BY <1>00, <3>2, ConstantsAssumption DEF WaitInv, Waiting
      <3> QED BY <1>0, <3>1, <3>2, <3>3, <3>4 DEF Leaving, TypeOK
    <2>5. CASE Down(u)
      <3>1. ~Waiting(u) /\ current = u /\ current' = current
        BY <2>0, <2>5 DEF Down, cpu
      <3>2. CASE count[sem[u]] > 0
        <4>1. list' = list
          BY <2>5, <3>2 DEF Down
        <4> QED BY <2>1, <3>1, <4>1
      <3>3. CASE ~ (count[sem[u]] > 0)
        <4>1. pc' = [pc EXCEPT ![u] = "yield"]
          BY <2>5, <3>3 DEF Down, Goto
        <4> QED BY <1>0, <3>1, <4>1 DEF Leaving, TypeOK
      <3> QED BY <3>2, <3>3
    <2>6. CASE UnlockDel(u) \/ SetSchedRemove(u)
      <3>1. PICK x \in Tasks : list' = list_del(list, x)
        BY <1>0, <2>6 DEF UnlockDel, SetSchedRemove, LocalInv, Running
      <3>2. \A s \in Sems : Range(list'[s]) \subseteq Range(list[s])
        BY <1>0, <3>1, DelSubset
      <3>3. ~Waiting(u) /\ current = u /\ current' = current
        BY <2>0, <2>6 DEF UnlockDel, SetSchedRemove, cpu
      <3> QED BY <2>1, <3>2, <3>3
    <2>7. ASSUME UnlockAdd(u) \/ (\E p \in Policies : SetSchedAdd(u, p))
          PROVE Leaving(t)'
      <3>1. PICK x \in Tasks, p \in Policies : sched_add_to_runqueue(x, p)
        BY <1>0, <2>7 DEF UnlockAdd, SetSchedAdd, LocalInv, Running, TypeOK
      <3>2. \A s \in Sems : s \in Queues /\ s # p
        BY <1>0, <3>1
      <3>3. \A s \in Sems : list'[s] = list[s]
        BY <1>0, <3>1, <3>2, AddLists DEF sched_add_to_runqueue
      <3>4. ~Waiting(u) /\ current = u /\ current' = current
        BY <2>0, <2>7 DEF UnlockAdd, SetSchedAdd, cpu
      <3> QED BY <2>1, <3>3, <3>4
    <2> QED BY <1>6, <2>2, <2>3, <2>4, <2>5, <2>6, <2>7 DEF TaskStep
  <1>7. CASE UNCHANGED vars
    BY <1>1, <1>7 DEF vars
  <1> QED BY <1>2, <1>3, <1>4, <1>5, <1>6, <1>7 DEF Next

(* sched_yield never returns early to a waiting task: a task tests the     *)
(* count again only once a release has taken it off the wait list.         *)
THEOREM YieldBlocks == Spec => []RetestOffList
  <1>1. Init => WaitInv /\ RetestInv
    <2>1. Init => \A s \in Sems : list[s] = <<>>
      BY ConstantsAssumption DEF Init, Queues, Policies
    <2>2. Range(<<>>) = {}
      BY DEF Range
    <2>3. Init => current \notin Tasks
      BY ConstantsAssumption DEF Init
    <2> QED BY <2>1, <2>2, <2>3 DEF RetestInv, WaitInv
  <1>2. RetestInv => RetestOffList
    BY DEF RetestOffList, RetestInv, Waiting, Leaving, Running
  <1>3. TypeInv /\ WaitInv /\ RetestInv /\ [Next]_vars => (TypeInv /\ WaitInv /\ RetestInv)'
    BY TypeInvStep, WaitStep, RetestStep
  <1> QED BY <1>1, <1>2, <1>3, TypeInvInit, PTL DEF Spec

-----------------------------------------------------------------------------
(* semaphore_unlock leaves interrupts enabled.  What its steps find is     *)
(* still what the step before left, for disciplined clients.               *)

Locking == {"down", "yield", "pend"}
Releases == {"check", "first", "del", "add"}

\* The semaphore of a call is one that the caller uses that way.
Caller(t) ==
    /\ pc[t] \in {"user", "setsched", "locked"} => sem[t] = None
    /\ pc[t] \in Locking /\ sem[t] # None => t \in Downers[sem[t]]
    /\ pc[t] \in Releases => t \in Uppers[sem[t]]

\* The waiter that a release has seen is still the first one.
Pick(t) ==
    /\ pc[t] \in {"first", "del"} => list[sem[t]] # <<>>
    /\ pc[t] = "del" => tgt[t] = Head(list[sem[t]])

\* The waiter that a release has taken off is on no list and cannot run.
Hand(t) ==
    pc[t] = "add" =>
        /\ ~Linked(list, tgt[t]) /\ current # tgt[t]
        /\ sem[tgt[t]] = sem[t] /\ pc[tgt[t]] \in Locking

\* So is a task that changes its own policy.
Out(t) == pc[t] = "setsched" => ~Linked(list, t)

Placed(t) ==
    \/ Linked(list, t)
    \/ \E u \in Tasks : pc[u] = "add" /\ tgt[u] = t
    \/ pc[t] = "setsched"

ReleaseInv ==
    /\ NoListFault
    /\ \A t \in Tasks : Caller(t) /\ Pick(t) /\ Hand(t) /\ Out(t) /\ Placed(t)

\* A list that does not hold t is left alone when t moves elsewhere.
LEMMA MoveExact ==
    ASSUME NEW l \in ListsType, NEW q \in Queues, NEW t \in Tasks, Once(l)
    PROVE  /\ \A r \in Queues : t \notin Range(l[r]) =>
                Move(l, t, q)[r] = IF r = q THEN Append(l[r], t) ELSE l[r]
           /\ \A x : Linked(Move(l, t, q), x) <=> Linked(l, x) \/ x = t
  <1> DEFINE m == Move(l, t, q)
             d == list_del(l, t)
  <1>1. d \in ListsType
    BY DelLists
  <1>2. \A r \in Queues : d[r] = Unlink(l[r], t)
    BY DEF list_del
  <1> HIDE DEF d
  <1>3. \A r \in Queues : m[r] = IF r = q THEN Append(d[r], t) ELSE d[r]
    BY <1>1 DEF Move, list_add, ListsType, d
  <1>4. \A r \in Queues : t \notin Range(l[r]) => d[r] = l[r]
    BY <1>2 DEF Unlink
  <1> HIDE DEF m
  <1>5. \A x : Linked(m, x) <=> Linked(l, x) \/ x = t
    <2>1. Range(m[q]) = Range(l[q]) \cup {t}
      BY MoveLists DEF m
    <2>2. \A r \in Queues \ {q} : Range(m[r]) = Range(l[r]) \ {t}
      BY MoveOther DEF m
    <2> QED BY <2>1, <2>2 DEF Linked
  <1>6. \A r \in Queues : t \notin Range(l[r]) =>
          m[r] = IF r = q THEN Append(l[r], t) ELSE l[r]
    BY <1>3, <1>4
  <1> QED BY <1>5, <1>6 DEF m

\* An interrupt that releases s leaves the other wait lists alone.
LEMMA WakeExact ==
    ASSUME TypeInv, NEW s \in Sems
    PROVE  /\ \A r \in Sems \ {s} : WakeFirst(list, s)[r] = list[r]
           /\ \A x : Linked(WakeFirst(list, s), x) <=> Linked(list, x)
  <1>1. list \in ListsType /\ Once(list) /\ policy \in [Tasks -> Policies]
    BY DEF TypeInv, TypeOK, LinkedOnce, ListsType
  <1>2. CASE list[s] = <<>>
    BY <1>1, <1>2, WakeLists
  <1>3. CASE list[s] # <<>>
    <2>1. PICK h \in Tasks, p \in Policies :
            h \in Range(list[s]) /\ WakeFirst(list, s) = Move(list, h, p)
      BY <1>1, <1>3, WakeLists
    <2>2. p \in Queues /\ \A r \in Sems : r \in Queues /\ r # p
      BY <2>1, ConstantsAssumption DEF Queues
    <2>3. \A r \in Sems \ {s} : h \notin Range(list[r])
      BY <1>1, <2>1, <2>2 DEF Once
    <2>4. \A r \in Sems \ {s} : Move(list, h, p)[r] = list[r]
      BY <1>1, <2>2, <2>3, MoveExact
    <2>5. \A x : Linked(Move(list, h, p), x) <=> Linked(list, x) \/ x = h
      BY <1>1, <2>2, MoveExact
    <2>6. Linked(list, h)
      BY <2>1, <2>2 DEF Linked
    <2> QED BY <2>1, <2>4, <2>5, <2>6
  <1> QED BY <1>2, <1>3

\* Interrupt handlers and the switch they end with.
LEMMA ReleaseInterrupt ==
    ASSUME Disciplined, TypeInv, ReleaseInv, NEW s \in IsrSems \cup TimerSems \cup {None},
           NEW l, l = IF s = None THEN list ELSE WakeFirst(list, s),
           \A q \in Queues : Range(list'[q]) = Range(l[q]),
           \A q \in Queues \ {"rr"} : list'[q] = l[q],
           current' \in Range(l["fifo"]) \cup Range(l["rr"]) \cup {Idle, current},
           fault' \in {fault, "stale_context"}, UNCHANGED <<pc, sem, tgt>>
    PROVE  ReleaseInv'
  <1>1. /\ Sems \subseteq Queues \ {"rr"} /\ None \notin Sems /\ Idle \notin Tasks
        /\ "rr" \in Queues /\ "fifo" \in Queues
        /\ IsrSems \cup TimerSems \subseteq Sems
    BY ConstantsAssumption DEF Queues, Policies
  <1>2. /\ \A x : Linked(l, x) <=> Linked(list, x)
        /\ \A r \in Sems \ {s} : l[r] = list[r]
    <2>1. CASE s = None
      BY <2>1
    <2>2. CASE s # None
      <3>1. s \in Sems
        BY <1>1, <2>2
      <3> QED BY <2>2, <3>1, WakeExact
    <2> QED BY <2>1, <2>2
  <1>3. \A x : Linked(list', x) <=> Linked(list, x)
    BY <1>2 DEF Linked
  <1>4. \A r \in Sems \ {s} : list'[r] = list[r]
    BY <1>1, <1>2
  <1>5. \A x \in Tasks : ~Linked(list, x) /\ current # x => current' # x
    BY <1>1, <1>2 DEF Linked
  <1>6. ASSUME NEW t \in Tasks
        PROVE  Caller(t)' /\ Pick(t)' /\ Hand(t)' /\ Out(t)' /\ Placed(t)'
    <2>1. Caller(t) /\ Pick(t) /\ Hand(t) /\ Out(t) /\ Placed(t)
      BY DEF ReleaseInv
    <2>2. Caller(t)'
      BY <2>1 DEF Caller
    <2>3. pc[t] \in {"first", "del"} => sem[t] \in Sems \ {s}
      <3> SUFFICES ASSUME pc[t] \in {"first", "del"} PROVE sem[t] \in Sems \ {s}
        OBVIOUS
      <3>1. sem[t] \in Sems /\ Uppers[sem[t]] # {}
        BY <2>1 DEF TypeInv, LocalInv, Caller, Releases
      <3> QED BY <1>1, <3>1 DEF Disciplined
    <2>4. Pick(t)'
      BY <1>4, <2>1, <2>3 DEF Pick
    <2>5. Hand(t)'
      <3>1. pc[t] = "add" => tgt[t] \in Tasks
        BY DEF TypeInv, LocalInv
      <3> QED BY <1>3, <1>5, <2>1, <3>1 DEF Hand
    <2>6. Out(t)' /\ Placed(t)'
      BY <1>3, <2>1 DEF Out, Placed
    <2> QED BY <2>2, <2>4, <2>5, <2>6
  <1>7. NoListFault'
    BY DEF ReleaseInv, NoListFault
  <1> QED BY <1>6, <1>7 DEF ReleaseInv

\* A step of the running task u.
LEMMA ReleaseTask ==
    ASSUME TypeInv, ReleaseInv, NEW u \in Tasks, current = u, current' = current,
           \A v \in Tasks \ {u} :
               pc'[v] = pc[v] /\ sem'[v] = sem[v] /\ tgt'[v] = tgt[v],
           Caller(u)', Pick(u)', Hand(u)', Out(u)', fault' = fault,
           \A v \in Tasks \ {u} :
             /\ pc[v] \in {"first", "del"} =>
                  /\ list'[sem[v]] # <<>>
                  /\ Head(list'[sem[v]]) = Head(list[sem[v]])
             /\ pc[v] = "add" => ~Linked(list', tgt[v])
             /\ pc[v] = "setsched" => ~Linked(list', v),
           \A t \in Tasks : Placed(t)'
    PROVE  ReleaseInv'
  <1>1. ASSUME NEW v \in Tasks \ {u}
        PROVE  Caller(v)' /\ Pick(v)' /\ Hand(v)' /\ Out(v)'
    <2>1. Caller(v) /\ Pick(v) /\ Hand(v) /\ Out(v)
      BY DEF ReleaseInv
    <2>2. Caller(v)' /\ Pick(v)' /\ Out(v)'
      BY <2>1 DEF Caller, Pick, Out
    <2>3. pc[v] = "add" => tgt[v] \in Tasks \ {u}
      BY <2>1 DEF TypeInv, LocalInv, Hand
    <2>4. Hand(v)'
      BY <2>1, <2>3 DEF Hand
    <2> QED BY <2>2, <2>4
  <1>2. NoListFault'
    BY DEF ReleaseInv, NoListFault
  <1> QED BY <1>1, <1>2 DEF ReleaseInv

\* ... that changes no list.
LEMMA ReleaseStay ==
    ASSUME TypeInv, ReleaseInv, NEW u \in Tasks, current = u, current' = current,
           \A v \in Tasks \ {u} :
               pc'[v] = pc[v] /\ sem'[v] = sem[v] /\ tgt'[v] = tgt[v],
           Caller(u)', Pick(u)', Hand(u)', Out(u)', fault' = fault,
           list' = list, pc[u] \notin {"add", "setsched"}
    PROVE  ReleaseInv'
  <1>1. \A v \in Tasks \ {u} :
             /\ pc[v] \in {"first", "del"} =>
                  /\ list'[sem[v]] # <<>>
                  /\ Head(list'[sem[v]]) = Head(list[sem[v]])
             /\ pc[v] = "add" => ~Linked(list', tgt[v])
             /\ pc[v] = "setsched" => ~Linked(list', v)
    BY DEF ReleaseInv, Pick, Hand, Out
  <1>2. \A t \in Tasks : Placed(t)'
    BY DEF ReleaseInv, Placed
  <1> QED BY <1>1, <1>2, ReleaseTask

(* Two tasks inside semaphore_unlock of one semaphore are then its only    *)
(* users, so nobody waits.                                                 *)
LEMMA OneReleaser ==
    ASSUME Disciplined, TypeInv, WaitInv, ReleaseInv, fault = None,
           NEW u \in Tasks, NEW v \in Tasks \ {u},
           pc[u] \in Releases, pc[v] \in Releases, sem[u] = sem[v]
    PROVE  /\ list[sem[u]] = <<>>
           /\ \A x \in Tasks : ~(sem[x] = sem[u] /\ pc[x] \in Locking)
  <1>1. /\ sem[u] \in Sems /\ u \in Uppers[sem[u]] /\ v \in Uppers[sem[u]]
        /\ sem[u] # None
    BY ConstantsAssumption DEF TypeInv, LocalInv, ReleaseInv, Caller, Releases
  <1>2. Downers[sem[u]] \subseteq {u, v}
    BY <1>1 DEF Disciplined
  <1>3. ASSUME NEW x \in Tasks, sem[x] = sem[u], pc[x] \in Locking PROVE FALSE
    <2>1. x \in {u, v}
      BY <1>1, <1>2, <1>3 DEF ReleaseInv, Caller
    <2> QED BY <1>3, <2>1 DEF Releases, Locking
  <1>4. list[sem[u]] = <<>>
    <2>1. list[sem[u]] \in Seq(Tasks)
      BY <1>1 DEF TypeInv, TypeOK, Queues
    <2>2. \A x \in Range(list[sem[u]]) : x \in Tasks
      BY <2>1, RangeAt
    <2>3. Range(list[sem[u]]) = {}
      BY <1>1, <1>3, <2>2 DEF WaitInv, Locking
    <2> QED BY <2>1, <2>3, RangeAt
  <1> QED BY <1>3, <1>4

\* Every step leaves what a release has seen as it was.
LEMMA ReleaseStep ==
    ASSUME Disciplined, TypeInv, WaitInv, RetestInv, ReleaseInv, [Next]_vars
    PROVE  ReleaseInv'
  <1>0. /\ list \in ListsType /\ Once(list) /\ TypeOK /\ LocalInv
        /\ Sems \subseteq Queues /\ Policies \subseteq Queues
        /\ Sems \cap Policies = {} /\ "rr" \in Policies /\ "fifo" \in Policies
        /\ None \notin Sems
    BY ConstantsAssumption DEF TypeInv, TypeOK, LinkedOnce, ListsType, Queues, Policies
  <1>1. ASSUME NEW l \in ListsType, Once(l), schedule(l)
        PROVE  /\ \A q \in Queues : Range(list'[q]) = Range(l[q])
               /\ \A q \in Queues \ {"rr"} : list'[q] = l[q]
               /\ current' \in Range(l["fifo"]) \cup Range(l["rr"]) \cup {Idle, current}
               /\ fault' \in {fault, "stale_context"}
    <2>1. fault' \in {fault, "stale_context"}
      BY <1>1 DEF schedule
    <2>2. /\ \A q \in Queues : Range(list'[q]) = Range(l[q])
          /\ \A q \in Queues \ {"rr"} : list'[q] = l[q]
          /\ current' \in Range(l["fifo"]) \cup Range(l["rr"]) \cup {Idle, current}
      <3>1. CASE is_locked > 0
        BY <1>0, <1>1, <3>1, ScheduleStep
      <3>2. CASE ~(is_locked > 0)
        BY <1>0, <1>1, <3>2, ScheduleStep
      <3> QED BY <3>1, <3>2
    <2> QED BY <2>1, <2>2
  <1>2. ASSUME NEW s \in Sems, IsrUp(s) PROVE ReleaseInv'
    <2> DEFINE l == WakeFirst(list, s)
    <2>1. list' = l /\ UNCHANGED <<current, fault, pc, sem, tgt>> /\ s \in IsrSems
      BY <1>2 DEF IsrUp, cpu, local
    <2>2. l = IF s = None THEN list ELSE WakeFirst(list, s)
      BY <1>0
    <2> HIDE DEF l
    <2> QED BY <2>1, <2>2, ReleaseInterrupt
  <1>3. ASSUME NEW s \in Sems \cup {None}, Tick(s) PROVE ReleaseInv'
    <2> DEFINE l == IF s = None THEN list ELSE WakeFirst(list, s)
    <2>1. l \in ListsType /\ Once(l)
      BY <1>0, WakeShrinks
    <2>2. /\ IF in_pendsv THEN list' = l /\ UNCHANGED <<current, fault>>
             ELSE schedule(l)
          /\ UNCHANGED <<pc, sem, tgt>> /\ s \in TimerSems \cup {None}
      BY <1>3 DEF Tick, local
    <2>3. l = IF s = None THEN list ELSE WakeFirst(list, s)
      OBVIOUS
    <2> HIDE DEF l
    <2>4. CASE in_pendsv
      BY <2>2, <2>3, <2>4, ReleaseInterrupt
    <2>5. CASE ~in_pendsv
      BY <1>1, <2>1, <2>2, <2>3, <2>5, ReleaseInterrupt
    <2> QED BY <2>4, <2>5
  <1>4. CASE PendSVEnter \/ UNCHANGED vars
    <2>1. UNCHANGED <<list, current, fault, pc, sem, tgt>>
      BY <1>4 DEF PendSVEnter, local, vars
    <2> DEFINE l == list
               s == None
    <2>2. l = (IF s = None THEN list ELSE WakeFirst(list, s)) /\ s \in {None}
      OBVIOUS
    <2>3. /\ \A q \in Queues : Range(list'[q]) = Range(l[q])
          /\ \A q \in Queues \ {"rr"} : list'[q] = l[q]
          /\ current' \in {Idle, current}
      BY <2>1
    <2> HIDE DEF l, s
    <2> QED BY <2>1, <2>2, <2>3, ReleaseInterrupt
  <1>5. CASE pendsv_handler
    <2>1. /\ IF need_resched THEN schedule(list)
             ELSE UNCHANGED <<list, current, fault>>
          /\ UNCHANGED <<pc, sem, tgt>>
      BY <1>5 DEF pendsv_handler, local
    <2> DEFINE l == list
               s == None
    <2>2. l = (IF s = None THEN list ELSE WakeFirst(list, s)) /\ s \in {None}
      OBVIOUS
    <2>3. /\ \A q \in Queues : Range(list'[q]) = Range(l[q])
          /\ \A q \in Queues \ {"rr"} : list'[q] = l[q]
          /\ current' \in Range(l["fifo"]) \cup Range(l["rr"]) \cup {Idle, current}
          /\ fault' \in {fault, "stale_context"}
      BY <1>0, <1>1, <2>1
    <2> HIDE DEF l, s
    <2> QED BY <2>1, <2>2, <2>3, ReleaseInterrupt
  <1>6. ASSUME NEW u \in Tasks, TaskStep(u) PROVE ReleaseInv'
    <2>0. fault = None
      BY <1>6 DEF TaskStep, Yield, YieldFlag, YieldPend, Down, Lock, TryLock,
           Unlock, UnlockCheck, UnlockFirst, UnlockDel, UnlockAdd,
           SetSchedRemove, SetSchedAdd, sched_lock, sched_unlock, Running
    <2>1. \A label : Running(u, label) =>
             /\ current = u /\ ~pendsv /\ ~in_pendsv /\ pc[u] = label
             /\ label \notin {"yield", "pend"} => ~Waiting(u)
      BY <2>0 DEF Running, RetestInv, Leaving
    <2>2. Caller(u) /\ Pick(u) /\ Hand(u) /\ Out(u)
      BY DEF ReleaseInv
    <2>3. /\ pc \in [Tasks -> Labels] /\ sem \in [Tasks -> Sems \cup {None}]
          /\ tgt \in [Tasks -> Tasks \cup {None}] /\ policy \in [Tasks -> Policies]
      BY <1>0 DEF TypeOK
    <2> USE DEF Locking, Releases
    <2>4. ASSUME \/ Yield(u) \/ YieldFlag(u) \/ YieldPend(u)
                 \/ \E s \in Sems : Lock(u, s) \/ TryLock(u, s) \/ Unlock(u, s)
                 \/ sched_lock(u) \/ sched_unlock(u)
          PROVE  ReleaseInv'
      <3>1. /\ current = u /\ current' = current /\ list' = list
            /\ pc[u] \in {"user", "yield", "pend", "locked"} /\ fault' = fault
        BY <2>1, <2>4 DEF Yield, YieldFlag, YieldPend, Lock, TryLock, Unlock,
             sched_lock, sched_unlock, cpu
      <3>2. \A v \in Tasks \ {u} :
               pc'[v] = pc[v] /\ sem'[v] = sem[v] /\ tgt'[v] = tgt[v]
        BY <2>3, <2>4 DEF Yield, YieldFlag, YieldPend, Lock, TryLock, Unlock,
             sched_lock, sched_unlock, Goto
      <3>3. Caller(u)' /\ pc'[u] \notin {"first", "del", "add", "setsched"}
        <4>1. CASE Yield(u) \/ YieldFlag(u) \/ YieldPend(u)
          BY <2>2, <2>3, <4>1 DEF Yield, YieldFlag, YieldPend, Goto, Running, Caller
        <4>2. CASE \E s \in Sems : Lock(u, s) \/ TryLock(u, s) \/ Unlock(u, s)
          BY <1>0, <2>2, <2>3, <4>2 DEF Lock, TryLock, Unlock, Goto, Running, Caller
        <4>3. CASE sched_lock(u) \/ sched_unlock(u)
          BY <2>2, <2>3, <4>3 DEF sched_lock, sched_unlock, Goto, Running, Caller
        <4> QED BY <2>4, <4>1, <4>2, <4>3
      <3>4. Pick(u)' /\ Hand(u)' /\ Out(u)'
        BY <3>3 DEF Pick, Hand, Out
      <3> QED BY <3>1, <3>2, <3>3, <3>4, ReleaseStay
    <2>5. CASE UnlockCheck(u)
      <3>1. /\ current = u /\ current' = current /\ list' = list
            /\ pc[u] = "check" /\ fault' = fault
        BY <2>1, <2>5 DEF UnlockCheck, cpu
      <3>2. \A v \in Tasks \ {u} :
               pc'[v] = pc[v] /\ sem'[v] = sem[v] /\ tgt'[v] = tgt[v]
        BY <2>3, <2>5 DEF UnlockCheck, Goto
      <3>3. \/ pc'[u] = "user" /\ sem'[u] = None
            \/ pc'[u] = "first" /\ sem'[u] = sem[u] /\ list[sem[u]] # <<>>
        BY <2>3, <2>5 DEF UnlockCheck, Goto
      <3>4. Caller(u)' /\ Pick(u)' /\ Hand(u)' /\ Out(u)'
        BY <2>2, <3>1, <3>3 DEF Caller, Pick, Hand, Out
      <3> QED BY <3>1, <3>2, <3>4, ReleaseStay
    <2>6. CASE UnlockFirst(u)
      <3>1. /\ current = u /\ current' = current /\ list' = list
            /\ pc[u] = "first" /\ list[sem[u]] # <<>>
        BY <2>1, <2>2, <2>6 DEF UnlockFirst, cpu, Pick
      <3>2. /\ tgt' = [tgt EXCEPT ![u] = Head(list[sem[u]])]
            /\ pc' = [pc EXCEPT ![u] = "del"] /\ fault' = fault /\ sem' = sem
        BY <2>6, <3>1 DEF UnlockFirst, Goto
      <3>3. \A v \in Tasks \ {u} :
               pc'[v] = pc[v] /\ sem'[v] = sem[v] /\ tgt'[v] = tgt[v]
        BY <2>3, <3>2
      <3>4. pc'[u] = "del" /\ tgt'[u] = Head(list[sem[u]])
        BY <2>3, <3>2
      <3>5. Caller(u)' /\ Pick(u)' /\ Hand(u)' /\ Out(u)'
        BY <2>2, <3>1, <3>2, <3>4 DEF Caller, Pick, Hand, Out
      <3> QED BY <3>1, <3>2, <3>3, <3>5, ReleaseStay
    <2>7. CASE Down(u)
      <3>1. /\ current = u /\ current' = current /\ fault' = fault
            /\ pc[u] = "down" /\ ~Waiting(u) /\ sem[u] \in Sems
        BY <1>0, <2>1, <2>7 DEF Down, cpu, LocalInv
      <3>2. \A v \in Tasks \ {u} :
               pc'[v] = pc[v] /\ sem'[v] = sem[v] /\ tgt'[v] = tgt[v]
        BY <2>3, <2>7 DEF Down, Goto
      <3>3. CASE count[sem[u]] > 0
        <4>1. list' = list /\ pc'[u] = "user" /\ sem'[u] = None
          BY <2>3, <2>7, <3>3 DEF Down, Goto
        <4>2. Caller(u)' /\ Pick(u)' /\ Hand(u)' /\ Out(u)'
          BY <4>1 DEF Caller, Pick, Hand, Out
        <4> QED BY <3>1, <3>2, <4>1, <4>2, ReleaseStay
      <3>4. CASE ~(count[sem[u]] > 0)
        <4>1. list' = Move(list, u, sem[u]) /\ pc'[u] = "yield" /\ sem' = sem
          BY <2>3, <2>7, <3>4 DEF Down, Goto
        <4>2. Caller(u)' /\ Pick(u)' /\ Hand(u)' /\ Out(u)'
          BY <2>2, <3>1, <4>1 DEF Caller, Pick, Hand, Out
        <4>3. /\ \A r \in Sems : list'[r] = IF r = sem[u] THEN Append(list[r], u)
                                            ELSE list[r]
              /\ \A x : Linked(list', x) <=> Linked(list, x) \/ x = u
          <5>1. \A r \in Sems : u \notin Range(list[r])
            BY <3>1 DEF Waiting
          <5>2. sem[u] \in Queues
            BY <1>0, <3>1
          <5>3. /\ \A r \in Queues : u \notin Range(list[r]) =>
                     list'[r] = IF r = sem[u] THEN Append(list[r], u) ELSE list[r]
                /\ \A x : Linked(list', x) <=> Linked(list, x) \/ x = u
            BY <1>0, <4>1, <5>2, MoveExact
          <5> QED BY <1>0, <5>1, <5>3
        <4>4. ASSUME NEW v \in Tasks \ {u}
              PROVE  /\ pc[v] \in {"first", "del"} =>
                          /\ list'[sem[v]] # <<>>
                          /\ Head(list'[sem[v]]) = Head(list[sem[v]])
                     /\ pc[v] = "add" => ~Linked(list', tgt[v])
                     /\ pc[v] = "setsched" => ~Linked(list', v)
          <5>1. Pick(v) /\ Hand(v) /\ Out(v)
            BY DEF ReleaseInv
          <5>2. ASSUME pc[v] \in {"first", "del"}
                PROVE  /\ list'[sem[v]] # <<>>
                       /\ Head(list'[sem[v]]) = Head(list[sem[v]])
            <6>1. /\ sem[v] \in Sems /\ list[sem[v]] \in Seq(Tasks)
                  /\ list[sem[v]] # <<>>
              BY <1>0, <5>1, <5>2 DEF LocalInv, ListsType, Pick
            <6>2. list'[sem[v]] \in {list[sem[v]], Append(list[sem[v]], u)}
              BY <4>3, <6>1
            <6>3. /\ Append(list[sem[v]], u) # <<>>
                  /\ Head(Append(list[sem[v]], u)) = Head(list[sem[v]])
              BY <6>1
            <6> QED BY <6>1, <6>2, <6>3
          <5>3. /\ pc[v] = "add" => ~Linked(list', tgt[v])
                /\ pc[v] = "setsched" => ~Linked(list', v)
            BY <3>1, <4>3, <5>1 DEF Hand, Out
          <5> QED BY <5>2, <5>3
        <4>5. \A t \in Tasks : Placed(t)'
          <5>1. ASSUME NEW t \in Tasks PROVE Placed(t)'
            <6>1. Placed(t)
              BY DEF ReleaseInv
            <6>2. CASE Linked(list, t)
              BY <4>3, <6>2 DEF Placed
            <6>3. CASE pc[t] = "setsched"
              BY <3>1, <3>2, <6>3 DEF Placed
            <6>4. ASSUME NEW w \in Tasks, pc[w] = "add", tgt[w] = t PROVE Placed(t)'
              <7>1. w \in Tasks \ {u}
                BY <3>1, <6>4
              <7> QED BY <3>2, <6>4, <7>1 DEF Placed
            <6> QED BY <6>1, <6>2, <6>3, <6>4 DEF Placed
          <5> QED BY <5>1
        <4> QED BY <3>1, <3>2, <4>2, <4>4, <4>5, ReleaseTask
      <3> QED BY <3>3, <3>4
    <2>8. CASE UnlockDel(u)
      <3> DEFINE x == tgt[u]
                 s == sem[u]
      <3>1. /\ current = u /\ current' = current /\ fault' = fault
            /\ pc[u] = "del" /\ ~Waiting(u) /\ s \in Sems /\ x \in Tasks
            /\ list' = list_del(list, x) /\ sem' = sem /\ tgt' = tgt
            /\ pc' = [pc EXCEPT ![u] = "add"]
        BY <1>0, <2>1, <2>8 DEF UnlockDel, cpu, LocalInv, Goto
      <3>2. list[s] # <<>> /\ x = Head(list[s]) /\ x \in Range(list[s])
        <4>1. list[s] # <<>> /\ x = Head(list[s])
          BY <2>2, <3>1 DEF Pick
        <4>2. list[s] \in Seq(Tasks)
          BY <1>0, <3>1 DEF ListsType
        <4> QED BY <4>1, <4>2, UnlinkHead
      <3>3. x # u /\ sem[x] = s /\ pc[x] \in Locking
        BY <2>0, <3>1, <3>2 DEF Waiting, WaitInv
      <3>4. /\ ~Linked(list', x)
            /\ \A q \in Queues : Range(list'[q]) = Range(list[q]) \ {x}
            /\ \A r \in Sems \ {s} : list'[r] = list[r]
        <4>1. \A r \in Sems \ {s} : x \notin Range(list[r])
          BY <1>0, <3>1, <3>2 DEF Once
        <4>2. \A r \in Queues : list'[r] = Unlink(list[r], x)
          BY <3>1 DEF list_del
        <4>3. \A r \in Sems \ {s} : list'[r] = list[r]
          BY <1>0, <4>1, <4>2 DEF Unlink
        <4>4. /\ ~Linked(list', x)
              /\ \A q \in Queues : Range(list'[q]) = Range(list[q]) \ {x}
          BY <1>0, <3>1, DelLists
        <4> QED BY <4>3, <4>4
      <3>5. \A t : t # x => (Linked(list', t) <=> Linked(list, t))
        BY <3>4 DEF Linked
      <3>6. /\ pc'[u] = "add"
            /\ \A v \in Tasks \ {u} :
                 pc'[v] = pc[v] /\ sem'[v] = sem[v] /\ tgt'[v] = tgt[v]
        BY <2>3, <3>1
      <3>7. Caller(u)' /\ Pick(u)' /\ Hand(u)' /\ Out(u)'
        <4>1. u \in Uppers[s]
          BY <2>2, <3>1 DEF Caller
        <4>2. /\ ~Linked(list', x) /\ current' # x /\ sem'[x] = s
              /\ pc'[x] \in Locking
          BY <3>1, <3>3, <3>4, <3>6
        <4>3. Hand(u)'
          BY <3>1, <4>2 DEF Hand
        <4> QED BY <3>1, <3>6, <4>1, <4>3 DEF Caller, Pick, Out
      <3>8. ASSUME NEW v \in Tasks \ {u}
            PROVE  /\ pc[v] \in {"first", "del"} =>
                        /\ list'[sem[v]] # <<>>
                        /\ Head(list'[sem[v]]) = Head(list[sem[v]])
                   /\ pc[v] = "add" => ~Linked(list', tgt[v])
                   /\ pc[v] = "setsched" => ~Linked(list', v)
        <4>1. Pick(v) /\ Hand(v) /\ Out(v)
          BY DEF ReleaseInv
        <4>2. ASSUME pc[v] \in {"first", "del"}
              PROVE  list'[sem[v]] = list[sem[v]] /\ list[sem[v]] # <<>>
          <5>1. sem[v] \in Sems /\ list[sem[v]] # <<>>
            BY <1>0, <4>1, <4>2 DEF LocalInv, Pick
          <5>2. sem[v] # s
            <6>1. pc[u] \in Releases /\ pc[v] \in Releases
              BY <3>1, <4>2
            <6> QED BY <2>0, <3>2, <6>1, OneReleaser
          <5> QED BY <3>4, <5>1, <5>2
        <4>3. pc[v] = "add" => ~Linked(list', tgt[v])
          BY <3>4, <3>5, <4>1 DEF Hand
        <4>4. pc[v] = "setsched" => ~Linked(list', v)
          BY <3>4, <3>5, <4>1 DEF Out
        <4> QED BY <4>2, <4>3, <4>4
      <3>9. ASSUME NEW t \in Tasks PROVE Placed(t)'
        <4>1. Placed(t)
          BY DEF ReleaseInv
        <4>2. CASE t = x
          BY <3>1, <3>6, <4>2 DEF Placed
        <4>3. CASE t # x /\ Linked(list, t)
          BY <3>5, <4>3 DEF Placed
        <4>4. CASE pc[t] = "setsched"
          BY <3>1, <3>6, <4>4 DEF Placed
        <4>5. ASSUME NEW w \in Tasks, pc[w] = "add", tgt[w] = t PROVE Placed(t)'
          <5>1. w \in Tasks \ {u}
            BY <3>1, <4>5
          <5> QED BY <3>6, <4>5, <5>1 DEF Placed
        <4> QED BY <4>1, <4>2, <4>3, <4>4, <4>5 DEF Placed
      <3> HIDE DEF x, s
      <3> QED BY <3>1, <3>6, <3>7, <3>8, <3>9, ReleaseTask
    <2>9. CASE UnlockAdd(u)
      <3> DEFINE x == tgt[u]
                 p == policy[x]
      <3>1. /\ current = u /\ current' = current
            /\ pc[u] = "add" /\ sem[u] \in Sems /\ x \in Tasks
            /\ sched_add_to_runqueue(x, p)
            /\ pc' = [pc EXCEPT ![u] = "user"] /\ sem' = [sem EXCEPT ![u] = None]
            /\ tgt' = [tgt EXCEPT ![u] = None]
        BY <1>0, <2>1, <2>9 DEF UnlockAdd, cpu, LocalInv, Goto
      <3>2. /\ ~Linked(list, x) /\ x # u /\ sem[x] = sem[u] /\ pc[x] \in Locking
            /\ p \in Policies /\ p \in Queues
        BY <1>0, <2>2, <2>3, <3>1 DEF Hand
      <3>3. list' = list_add(list, p, x) /\ fault' = fault
        BY <3>1, <3>2 DEF sched_add_to_runqueue
      <3>4. /\ \A r \in Sems : list'[r] = list[r]
            /\ \A y : Linked(list', y) <=> Linked(list, y) \/ y = x
        <4> HIDE DEF x, p
        <4>1. /\ Range(list'[p]) = Range(list[p]) \cup {x}
              /\ \A r \in Queues \ {p} : list'[r] = list[r]
          BY <1>0, <3>1, <3>2, <3>3, AddLists
        <4>2. \A r \in Sems : r \in Queues \ {p}
          BY <1>0, <3>2
        <4> QED BY <3>2, <4>1, <4>2 DEF Linked
      <3>5. /\ pc'[u] = "user" /\ sem'[u] = None
            /\ \A v \in Tasks \ {u} :
                 pc'[v] = pc[v] /\ sem'[v] = sem[v] /\ tgt'[v] = tgt[v]
        BY <2>3, <3>1
      <3>6. Caller(u)' /\ Pick(u)' /\ Hand(u)' /\ Out(u)'
        BY <3>5 DEF Caller, Pick, Hand, Out
      <3>7. ASSUME NEW v \in Tasks \ {u}
            PROVE  /\ pc[v] \in {"first", "del"} =>
                        /\ list'[sem[v]] # <<>>
                        /\ Head(list'[sem[v]]) = Head(list[sem[v]])
                   /\ pc[v] = "add" => ~Linked(list', tgt[v])
                   /\ pc[v] = "setsched" => ~Linked(list', v)
        <4>1. Pick(v) /\ Hand(v) /\ Out(v)
          BY DEF ReleaseInv
        <4>2. pc[v] \in {"first", "del"} => sem[v] \in Sems
          BY <1>0 DEF LocalInv
        <4>3. ASSUME pc[v] = "add" PROVE tgt[v] # x
          <5>1. tgt[v] = x => sem[v] = sem[u]
            BY <3>2, <4>1, <4>3 DEF Hand
          <5>2. sem[v] # sem[u]
            <6>1. pc[u] \in Releases /\ pc[v] \in Releases
              BY <3>1, <4>3
            <6> QED BY <2>0, <3>1, <3>2, <6>1, OneReleaser
          <5> QED BY <5>1, <5>2
        <4>4. pc[v] = "add" => ~Linked(list', tgt[v])
          BY <3>4, <4>1, <4>3 DEF Hand
        <4>5. pc[v] = "setsched" => ~Linked(list', v)
          BY <3>2, <3>4, <4>1 DEF Out
        <4> QED BY <3>4, <4>1, <4>2, <4>4, <4>5 DEF Pick
      <3>8. ASSUME NEW t \in Tasks PROVE Placed(t)'
        <4>1. Placed(t)
          BY DEF ReleaseInv
        <4>2. CASE t = x \/ Linked(list, t)
          BY <3>4, <4>2 DEF Placed
        <4>3. CASE pc[t] = "setsched"
          BY <3>1, <3>5, <4>3 DEF Placed
        <4>4. ASSUME NEW w \in Tasks, pc[w] = "add", tgt[w] = t, t # x PROVE Placed(t)'
          <5>1. w \in Tasks \ {u}
            BY <4>4
          <5> QED BY <3>5, <4>4, <5>1 DEF Placed
        <4> QED BY <4>1, <4>2, <4>3, <4>4 DEF Placed
      <3> HIDE DEF x, p
      <3> QED BY <3>1, <3>3, <3>5, <3>6, <3>7, <3>8, ReleaseTask
    <2>10. CASE SetSchedRemove(u)
      <3>1. /\ current = u /\ current' = current /\ fault' = fault
            /\ pc[u] = "user" /\ ~Waiting(u) /\ list' = list_del(list, u)
            /\ pc' = [pc EXCEPT ![u] = "setsched"] /\ sem' = sem /\ tgt' = tgt
        BY <2>1, <2>10 DEF SetSchedRemove, cpu, Goto
      <3>2. /\ \A r \in Sems : list'[r] = list[r]
            /\ \A y : Linked(list', y) <=> Linked(list, y) /\ y # u
        <4>1. \A r \in Queues : Range(list'[r]) = Range(list[r]) \ {u}
          BY <1>0, <3>1, DelLists
        <4>2. \A r \in Queues : list'[r] = Unlink(list[r], u)
          BY <3>1 DEF list_del
        <4>3. \A r \in Sems : list'[r] = list[r]
          BY <1>0, <3>1, <4>2 DEF Unlink, Waiting
        <4> QED BY <4>1, <4>3 DEF Linked
      <3>3. /\ pc'[u] = "setsched"
            /\ \A v \in Tasks \ {u} :
                 pc'[v] = pc[v] /\ sem'[v] = sem[v] /\ tgt'[v] = tgt[v]
        BY <2>3, <3>1
      <3>4. Caller(u)' /\ Pick(u)' /\ Hand(u)' /\ Out(u)'
        BY <2>2, <3>1, <3>2, <3>3 DEF Caller, Pick, Hand, Out
      <3>5. ASSUME NEW v \in Tasks \ {u}
            PROVE  /\ pc[v] \in {"first", "del"} =>
                        /\ list'[sem[v]] # <<>>
                        /\ Head(list'[sem[v]]) = Head(list[sem[v]])
                   /\ pc[v] = "add" => ~Linked(list', tgt[v])
                   /\ pc[v] = "setsched" => ~Linked(list', v)
        <4>1. Pick(v) /\ Hand(v) /\ Out(v)
          BY DEF ReleaseInv
        <4>2. pc[v] \in {"first", "del"} => sem[v] \in Sems
          BY <1>0 DEF LocalInv
        <4> QED BY <3>2, <4>1, <4>2 DEF Pick, Hand, Out
      <3>6. ASSUME NEW t \in Tasks PROVE Placed(t)'
        <4>1. Placed(t)
          BY DEF ReleaseInv
        <4>2. CASE t = u
          BY <3>3, <4>2 DEF Placed
        <4>3. CASE t # u /\ Linked(list, t)
          BY <3>2, <4>3 DEF Placed
        <4>4. CASE t # u /\ pc[t] = "setsched"
          BY <3>3, <4>4 DEF Placed
        <4>5. ASSUME NEW w \in Tasks, pc[w] = "add", tgt[w] = t PROVE Placed(t)'
          <5>1. w \in Tasks \ {u}
            BY <3>1, <4>5
          <5> QED BY <3>3, <4>5, <5>1 DEF Placed
        <4> QED BY <4>1, <4>2, <4>3, <4>4, <4>5 DEF Placed
      <3> QED BY <3>1, <3>3, <3>4, <3>5, <3>6, ReleaseTask
    <2>11. ASSUME NEW p \in Policies, SetSchedAdd(u, p) PROVE ReleaseInv'
      <3>1. /\ current = u /\ current' = current /\ pc[u] = "setsched"
            /\ sched_add_to_runqueue(u, p) /\ p \in Queues
            /\ pc' = [pc EXCEPT ![u] = "user"] /\ sem' = sem /\ tgt' = tgt
        BY <1>0, <2>1, <2>11 DEF SetSchedAdd, cpu, Goto
      <3>2. ~Linked(list, u)
        BY <2>2, <3>1 DEF Out
      <3>3. list' = list_add(list, p, u) /\ fault' = fault
        BY <3>1, <3>2 DEF sched_add_to_runqueue
      <3>4. /\ \A r \in Sems : list'[r] = list[r]
            /\ \A y : Linked(list', y) <=> Linked(list, y) \/ y = u
        <4>1. /\ Range(list'[p]) = Range(list[p]) \cup {u}
              /\ \A r \in Queues \ {p} : list'[r] = list[r]
          BY <1>0, <3>1, <3>2, <3>3, AddLists
        <4>2. \A r \in Sems : r \in Queues \ {p}
          BY <1>0
        <4> QED BY <3>1, <4>1, <4>2 DEF Linked
      <3>5. /\ pc'[u] = "user"
            /\ \A v \in Tasks \ {u} :
                 pc'[v] = pc[v] /\ sem'[v] = sem[v] /\ tgt'[v] = tgt[v]
        BY <2>3, <3>1
      <3>6. Caller(u)' /\ Pick(u)' /\ Hand(u)' /\ Out(u)'
        BY <2>2, <3>1, <3>5 DEF Caller, Pick, Hand, Out
      <3>7. ASSUME NEW v \in Tasks \ {u}
            PROVE  /\ pc[v] \in {"first", "del"} =>
                        /\ list'[sem[v]] # <<>>
                        /\ Head(list'[sem[v]]) = Head(list[sem[v]])
                   /\ pc[v] = "add" => ~Linked(list', tgt[v])
                   /\ pc[v] = "setsched" => ~Linked(list', v)
        <4>1. Pick(v) /\ Hand(v) /\ Out(v)
          BY DEF ReleaseInv
        <4>2. pc[v] \in {"first", "del"} => sem[v] \in Sems
          BY <1>0 DEF LocalInv
        <4> QED BY <3>1, <3>4, <4>1, <4>2 DEF Pick, Hand, Out
      <3>8. ASSUME NEW t \in Tasks PROVE Placed(t)'
        <4>1. Placed(t)
          BY DEF ReleaseInv
        <4>2. CASE t = u \/ Linked(list, t)
          BY <3>4, <4>2 DEF Placed
        <4>3. CASE t # u /\ pc[t] = "setsched"
          BY <3>5, <4>3 DEF Placed
        <4>4. ASSUME NEW w \in Tasks, pc[w] = "add", tgt[w] = t PROVE Placed(t)'
          <5>1. w \in Tasks \ {u}
            BY <3>1, <4>4
          <5> QED BY <3>5, <4>4, <5>1 DEF Placed
        <4> QED BY <4>1, <4>2, <4>3, <4>4 DEF Placed
      <3> QED BY <3>1, <3>3, <3>5, <3>6, <3>7, <3>8, ReleaseTask
    <2> QED BY <1>6, <2>4, <2>5, <2>6, <2>7, <2>8, <2>9, <2>10, <2>11 DEF TaskStep
  <1> QED BY <1>2, <1>3, <1>4, <1>5, <1>6 DEF Next

\* Everything starts on the run queue.
LEMMA ReleaseInit ==
    ASSUME Init
    PROVE  WaitInv /\ RetestInv /\ ReleaseInv
  <1>1. \A s \in Sems : list[s] = <<>>
    BY ConstantsAssumption DEF Init, Queues, Policies
  <1>2. Range(<<>>) = {}
    BY DEF Range
  <1>3. current \notin Tasks /\ pc = [t \in Tasks |-> "user"]
        /\ sem = [t \in Tasks |-> None] /\ fault = None
    BY ConstantsAssumption DEF Init
  <1>4. WaitInv /\ RetestInv
    BY <1>1, <1>2, <1>3 DEF RetestInv, WaitInv
  <1>5. ASSUME NEW t \in Tasks PROVE Linked(list, t)
    <2>1. PICK order \in Bijection(1..Cardinality(Tasks), Tasks) :
             list = [q \in Queues |-> IF q = "rr" THEN order ELSE <<>>]
      BY DEF Init
    <2>2. "rr" \in Queues /\ list["rr"] = order
      BY <2>1 DEF Queues, Policies
    <2>3. t \in Range(order)
      BY DEF Bijection, Surjection, Range
    <2> QED BY <2>2, <2>3 DEF Linked
  <1>6. \A t \in Tasks : Caller(t) /\ Pick(t) /\ Hand(t) /\ Out(t) /\ Placed(t)
    BY <1>3, <1>5 DEF Caller, Pick, Hand, Out, Placed, Locking, Releases
  <1> QED BY <1>3, <1>4, <1>6 DEF ReleaseInv, NoListFault

SemInv == TypeInv /\ WaitInv /\ RetestInv /\ ReleaseInv

\* The invariants together are inductive.
LEMMA SemInvHolds ==
    ASSUME Disciplined
    PROVE  Spec => []SemInv
  <1>1. Init => SemInv
    BY TypeInvInit, ReleaseInit DEF SemInv
  <1>2. SemInv /\ [Next]_vars => SemInv'
    BY TypeInvStep, WaitStep, RetestStep, ReleaseStep DEF SemInv
  <1> QED BY <1>1, <1>2, PTL DEF Spec

(* semaphore_unlock (semaphore.c:118) runs with interrupts enabled.  For   *)
(* clients that keep to the discipline it never takes a list head for a    *)
(* task and never links a task that is linked.                             *)
THEOREM ReleaseIsSafe ==
    ASSUME Disciplined
    PROVE  Spec => []NoListFault
  <1>1. SemInv => NoListFault
    BY DEF SemInv, ReleaseInv
  <1> QED BY <1>1, SemInvHolds, PTL

(* No interleaving of ticks, interrupts, releases and blocking calls loses *)
(* a task: it is on one list, or in the hands of one release, or changing  *)
(* its own policy.                                                         *)
THEOREM NoTaskLost ==
    ASSUME Disciplined
    PROVE  Spec => []OneList
  <1>1. SemInv => OneList
    BY DEF SemInv, ReleaseInv, TypeInv, OneList, Placed
  <1> QED BY <1>1, SemInvHolds, PTL

-----------------------------------------------------------------------------
(* No lost wakeup: the tasks that are busy with a semaphore are counted.   *)

Busy(s) == Retesting(s) \cup Releasing(s)

Counted(s) == list[s] # <<>> => count[s] <= Cardinality(Busy(s))

\* Who is busy with s.
LEMMA BusyAt ==
    ASSUME NEW s \in Sems, NEW t \in Tasks
    PROVE  t \in Busy(s) <=>
             /\ sem[t] = s
             /\ \/ pc[t] \in Locking /\ t \notin Range(list[s])
                \/ pc[t] \in {"check", "first", "del"}
  BY DEF Busy, Retesting, Releasing, Locking

\* ... after a step.
LEMMA BusyAtNext ==
    ASSUME NEW s \in Sems, NEW t \in Tasks
    PROVE  t \in Busy(s)' <=>
             /\ sem'[t] = s
             /\ \/ pc'[t] \in Locking /\ t \notin Range(list'[s])
                \/ pc'[t] \in {"check", "first", "del"}
  BY DEF Busy, Retesting, Releasing, Locking

\* How the number of busy tasks changes.
LEMMA BusyCount ==
    ASSUME NEW A \in SUBSET Tasks, NEW B \in SUBSET Tasks
    PROVE  /\ Cardinality(A) \in Nat /\ Cardinality(B) \in Nat
           /\ A \subseteq B => Cardinality(A) <= Cardinality(B)
           /\ \A x \in Tasks \ A : A \cup {x} \subseteq B =>
                 Cardinality(A) + 1 <= Cardinality(B)
           /\ \A x \in Tasks : A \ {x} \subseteq B =>
                 Cardinality(A) - 1 <= Cardinality(B)
           /\ \A x \in Tasks, y \in Tasks \ A : (A \ {x}) \cup {y} \subseteq B =>
                 Cardinality(A) <= Cardinality(B)
  <1>1. IsFiniteSet(A) /\ IsFiniteSet(B)
    BY ConstantsAssumption, FS_Subset
  <1>2. Cardinality(A) \in Nat /\ Cardinality(B) \in Nat
    BY <1>1, FS_CardinalityType
  <1>3. \A C \in SUBSET Tasks : C \subseteq B =>
          Cardinality(C) <= Cardinality(B) /\ Cardinality(C) \in Nat
    BY <1>1, FS_Subset, FS_CardinalityType
  <1>4. \A x \in Tasks \ A : Cardinality(A \cup {x}) = Cardinality(A) + 1
    BY <1>1, FS_AddElement
  <1>5. \A x \in Tasks : Cardinality(A \ {x}) \in {Cardinality(A), Cardinality(A) - 1}
    BY <1>1, FS_RemoveElement
  <1>6. ASSUME NEW x \in Tasks, NEW y \in Tasks \ A, (A \ {x}) \cup {y} \subseteq B
        PROVE  Cardinality(A) <= Cardinality(B)
    <2>1. IsFiniteSet(A \ {x}) /\ y \notin A \ {x}
      BY <1>1, FS_Subset
    <2>2. Cardinality((A \ {x}) \cup {y}) = Cardinality(A \ {x}) + 1
      BY <2>1, FS_AddElement
    <2>3. Cardinality((A \ {x}) \cup {y}) <= Cardinality(B)
      BY <1>3, <1>6
    <2>4. Cardinality(A \ {x}) \in {Cardinality(A), Cardinality(A) - 1}
      BY <1>5
    <2> QED BY <1>2, <2>2, <2>3, <2>4
  <1>7. ASSUME NEW x \in Tasks \ A, A \cup {x} \subseteq B
        PROVE  Cardinality(A) + 1 <= Cardinality(B)
    BY <1>2, <1>3, <1>4, <1>7
  <1>8. ASSUME NEW x \in Tasks, A \ {x} \subseteq B
        PROVE  Cardinality(A) - 1 <= Cardinality(B)
    <2>1. Cardinality(A \ {x}) <= Cardinality(B)
      BY <1>3, <1>8
    <2>2. Cardinality(A \ {x}) \in {Cardinality(A), Cardinality(A) - 1}
      BY <1>5
    <2> QED BY <1>2, <2>1, <2>2
  <1> QED BY <1>2, <1>3, <1>6, <1>7, <1>8

\* Busy tasks are tasks.
LEMMA BusyTasks ==
    ASSUME NEW s \in Sems
    PROVE  Busy(s) \in SUBSET Tasks /\ Busy(s)' \in SUBSET Tasks
  BY DEF Busy, Retesting, Releasing

\* The steps that keep the count covered.
LEMMA CountedFrom ==
    ASSUME TypeOK, TypeOK', NEW s \in Sems, Counted(s),
           list[s] # <<>> \/ list'[s] = <<>>,
           \/ count'[s] <= count[s] /\ Busy(s) \subseteq Busy(s)'
           \/ \E x \in Tasks \ Busy(s) :
                count'[s] = count[s] + 1 /\ Busy(s) \cup {x} \subseteq Busy(s)'
           \/ \E x \in Tasks :
                count'[s] = count[s] - 1 /\ Busy(s) \ {x} \subseteq Busy(s)'
           \/ \E x \in Tasks, y \in Tasks \ Busy(s) :
                count'[s] = count[s] /\ (Busy(s) \ {x}) \cup {y} \subseteq Busy(s)'
    PROVE  Counted(s)'
  <1> DEFINE A == Busy(s)
             B == Busy(s)'
  <1>1. A \in SUBSET Tasks /\ B \in SUBSET Tasks
    BY BusyTasks
  <1>2. count[s] \in Nat /\ count'[s] \in Nat
    BY DEF TypeOK
  <1>3. ASSUME list'[s] # <<>> PROVE count'[s] <= Cardinality(B)
    <2>1. count[s] <= Cardinality(A)
      BY <1>3 DEF Counted
    <2> HIDE DEF A, B
    <2>2. /\ Cardinality(A) \in Nat /\ Cardinality(B) \in Nat
          /\ A \subseteq B => Cardinality(A) <= Cardinality(B)
          /\ \A x \in Tasks \ A : A \cup {x} \subseteq B =>
                 Cardinality(A) + 1 <= Cardinality(B)
          /\ \A x \in Tasks : A \ {x} \subseteq B =>
                 Cardinality(A) - 1 <= Cardinality(B)
          /\ \A x \in Tasks, y \in Tasks \ A : (A \ {x}) \cup {y} \subseteq B =>
                 Cardinality(A) <= Cardinality(B)
      BY <1>1, BusyCount
    <2>3. CASE count'[s] <= count[s] /\ A \subseteq B
      BY <1>2, <2>1, <2>2, <2>3
    <2>4. CASE \E x \in Tasks \ A : count'[s] = count[s] + 1 /\ A \cup {x} \subseteq B
      BY <1>2, <2>1, <2>2, <2>4
    <2>5. CASE \E x \in Tasks : count'[s] = count[s] - 1 /\ A \ {x} \subseteq B
      BY <1>2, <2>1, <2>2, <2>5
    <2>6. CASE \E x \in Tasks, y \in Tasks \ A :
                 count'[s] = count[s] /\ (A \ {x}) \cup {y} \subseteq B
      BY <1>2, <2>1, <2>2, <2>6
    <2> QED BY <2>3, <2>4, <2>5, <2>6 DEF A, B
  <1> QED BY <1>3 DEF Counted

\* Interrupts: the waiter that one wakes becomes busy.
LEMMA CountedInterrupt ==
    ASSUME TypeInv, TypeOK', WaitInv, fault = None, NEW s \in Sems, Counted(s),
           NEW r \in Sems \cup {None}, UNCHANGED <<pc, sem>>,
           NEW l, l = IF r = None THEN list ELSE WakeFirst(list, r),
           \A q \in Sems : list'[q] = l[q],
           count' = IF r = None THEN count ELSE [count EXCEPT ![r] = @ + 1]
    PROVE  Counted(s)'
  <1>1. /\ TypeOK /\ list \in ListsType /\ Once(list) /\ None \notin Sems
        /\ policy \in [Tasks -> Policies] /\ count \in [Sems -> Nat]
    BY ConstantsAssumption DEF TypeInv, TypeOK, LinkedOnce, ListsType
  <1>2. CASE r # s
    <2>1. list'[s] = list[s] /\ count'[s] = count[s]
      <3>1. CASE r = None
        BY <3>1
      <3>2. CASE r # None
        BY <1>1, <1>2, <3>2, WakeExact
      <3> QED BY <3>1, <3>2
    <2>2. Busy(s) \subseteq Busy(s)'
      BY <2>1, BusyTasks, BusyAt, BusyAtNext
    <2>3. count'[s] <= count[s]
      BY <1>1, <2>1
    <2>4. CASE list[s] # <<>>
      BY <1>1, <2>2, <2>3, <2>4, CountedFrom
    <2>5. CASE list[s] = <<>>
      BY <2>1, <2>5 DEF Counted
    <2> QED BY <2>4, <2>5
  <1>3. CASE r = s
    <2>1. /\ list'[s] = WakeFirst(list, s)[s] /\ count'[s] = count[s] + 1
      BY <1>1, <1>3
    <2>2. CASE list[s] = <<>>
      <3>1. list'[s] = <<>>
        BY <1>1, <2>1, <2>2, WakeLists
      <3> QED BY <3>1 DEF Counted
    <2>3. CASE list[s] # <<>>
      <3>1. PICK h \in Tasks, p \in Policies :
              h \in Range(list[s]) /\ WakeFirst(list, s) = Move(list, h, p)
        BY <1>1, <2>3, WakeLists
      <3>2. p \in Queues /\ s \in Queues /\ s # p
        BY <3>1, ConstantsAssumption DEF Queues
      <3>3. Range(list'[s]) = Range(list[s]) \ {h}
        BY <1>1, <2>1, <3>1, <3>2, MoveOther
      <3>4. sem[h] = s /\ pc[h] \in Locking
        BY <3>1 DEF WaitInv, Locking
      <3>5. h \notin Busy(s) /\ h \in Busy(s)'
        BY <3>1, <3>3, <3>4, BusyAt, BusyAtNext DEF Locking
      <3>6. Busy(s) \subseteq Busy(s)'
        BY <3>3, BusyTasks, BusyAt, BusyAtNext
      <3> QED BY <1>1, <2>1, <2>3, <3>5, <3>6, CountedFrom
    <2> QED BY <2>2, <2>3
  <1> QED BY <1>2, <1>3

\* A step of task u that leaves the count and the waiters of s alone.
LEMMA CountedTask ==
    ASSUME TypeOK, TypeOK', NEW s \in Sems, Counted(s), NEW u \in Tasks,
           \A v \in Tasks \ {u} : pc'[v] = pc[v] /\ sem'[v] = sem[v],
           list'[s] = list[s], count'[s] <= count[s],
           u \in Busy(s) => u \in Busy(s)' \/ list[s] = <<>>
    PROVE  Counted(s)'
  <1>1. CASE list[s] = <<>>
    BY <1>1 DEF Counted
  <1>2. CASE list[s] # <<>>
    <2>1. Busy(s) \subseteq Busy(s)'
      BY <1>2, BusyTasks, BusyAt, BusyAtNext
    <2> QED BY <1>2, <2>1, CountedFrom
  <1> QED BY <1>1, <1>2

\* Every step keeps the count of s covered.
LEMMA CountedStep ==
    ASSUME Disciplined, SemInv, [Next]_vars, NEW s \in Sems, Counted(s)
    PROVE  Counted(s)'
  <1>0. /\ list \in ListsType /\ Once(list) /\ TypeOK /\ LocalInv /\ TypeInv
        /\ Sems \subseteq Queues /\ Policies \subseteq Queues
        /\ Sems \cap Policies = {} /\ "rr" \in Policies
        /\ None \notin Sems /\ WaitInv
    BY ConstantsAssumption
       DEF SemInv, TypeInv, TypeOK, LinkedOnce, ListsType, Queues, Policies
  <1>00. TypeOK'
    BY TypeInvStep DEF SemInv, TypeInv
  <1>1. ASSUME NEW l \in ListsType, Once(l), schedule(l)
        PROVE  \A q \in Sems : list'[q] = l[q]
    <2>1. \A q \in Sems : q \in Queues \ {"rr"}
      BY <1>0
    <2> QED BY <1>0, <1>1, <2>1, ScheduleStep
  <1>2. ASSUME NEW r \in Sems, IsrUp(r) PROVE Counted(s)'
    <2> DEFINE l == WakeFirst(list, r)
    <2>1. /\ list' = l /\ UNCHANGED <<pc, sem>> /\ fault = None
          /\ count' = [count EXCEPT ![r] = @ + 1]
      BY <1>2 DEF IsrUp, local
    <2>2. /\ l = IF r = None THEN list ELSE WakeFirst(list, r)
          /\ count' = IF r = None THEN count ELSE [count EXCEPT ![r] = @ + 1]
      BY <1>0, <2>1
    <2>3. \A q \in Sems : list'[q] = l[q]
      BY <2>1
    <2> HIDE DEF l
    <2> QED BY <1>0, <1>00, <2>1, <2>2, <2>3, CountedInterrupt
  <1>3. ASSUME NEW r \in Sems \cup {None}, Tick(r) PROVE Counted(s)'
    <2> DEFINE l == IF r = None THEN list ELSE WakeFirst(list, r)
    <2>1. l \in ListsType /\ Once(l)
      BY <1>0, WakeShrinks
    <2>2. /\ list' = l \/ schedule(l)
          /\ UNCHANGED <<pc, sem>> /\ fault = None
          /\ count' = IF r = None THEN count ELSE [count EXCEPT ![r] = @ + 1]
      BY <1>3 DEF Tick, local
    <2>3. l = IF r = None THEN list ELSE WakeFirst(list, r)
      OBVIOUS
    <2> HIDE DEF l
    <2>4. \A q \in Sems : list'[q] = l[q]
      BY <1>1, <2>1, <2>2
    <2> QED BY <1>0, <1>00, <2>2, <2>3, <2>4, CountedInterrupt
  <1>4. CASE PendSVEnter \/ pendsv_handler \/ UNCHANGED vars
    <2>1. /\ list' = list \/ schedule(list)
          /\ UNCHANGED <<count, pc, sem>>
      BY <1>4 DEF PendSVEnter, pendsv_handler, local, vars
    <2>2. list'[s] = list[s]
      BY <1>0, <1>1, <2>1
    <2>3. Busy(s) \subseteq Busy(s)'
      BY <2>1, <2>2, BusyTasks, BusyAt, BusyAtNext
    <2>4. count'[s] <= count[s]
      BY <1>0, <2>1 DEF TypeOK
    <2>5. CASE list[s] # <<>>
      BY <1>0, <1>00, <2>3, <2>4, <2>5, CountedFrom
    <2>6. CASE list[s] = <<>>
      BY <2>2, <2>6 DEF Counted
    <2> QED BY <2>5, <2>6
  <1>5. ASSUME NEW u \in Tasks, TaskStep(u) PROVE Counted(s)'
    <2>0. fault = None
      BY <1>5 DEF TaskStep, Yield, YieldFlag, YieldPend, Down, Lock, TryLock,
           Unlock, UnlockCheck, UnlockFirst, UnlockDel, UnlockAdd,
           SetSchedRemove, SetSchedAdd, sched_lock, sched_unlock, Running
    <2>1. \A label : Running(u, label) =>
             /\ pc[u] = label
             /\ label \notin {"yield", "pend"} => ~Waiting(u)
      BY <2>0 DEF Running, SemInv, RetestInv, Leaving
    <2>2. /\ pc \in [Tasks -> Labels] /\ sem \in [Tasks -> Sems \cup {None}]
          /\ count \in [Sems -> Nat] /\ count[s] \in Nat
          /\ count[s] <= count[s]
      BY <1>0 DEF TypeOK
    <2>3. Caller(u) /\ Pick(u) /\ Hand(u) /\ Out(u)
      BY DEF SemInv, ReleaseInv
    <2> USE DEF Locking
    <2>4. ASSUME Yield(u) \/ YieldFlag(u) \/ YieldPend(u) \/ sched_lock(u)
                 \/ sched_unlock(u) \/ (\E r \in Sems : Lock(u, r) \/ TryLock(u, r))
                 \/ UnlockCheck(u) \/ UnlockFirst(u)
          PROVE  Counted(s)'
      <3>1. list' = list /\ \A v \in Tasks \ {u} : pc'[v] = pc[v] /\ sem'[v] = sem[v]
        BY <2>2, <2>4 DEF Yield, YieldFlag, YieldPend, sched_lock, sched_unlock,
             Lock, TryLock, UnlockCheck, UnlockFirst, Goto
      <3>2. count'[s] <= count[s]
        <4>1. CASE \E r \in Sems : TryLock(u, r)
          <5>1. PICK r \in Sems : count' = [count EXCEPT ![r] = @ - 1]
            BY <4>1 DEF TryLock, Take
          <5> QED BY <2>2, <5>1
        <4>2. CASE ~ \E r \in Sems : TryLock(u, r)
          BY <2>2, <2>4, <4>2 DEF Yield, YieldFlag, YieldPend, sched_lock,
               sched_unlock, Lock, UnlockCheck, UnlockFirst
        <4> QED BY <4>1, <4>2
      <3>3. u \in Busy(s) => u \in Busy(s)' \/ list[s] = <<>>
        <4> SUFFICES ASSUME u \in Busy(s) PROVE u \in Busy(s)' \/ list[s] = <<>>
          OBVIOUS
        <4>1. /\ sem[u] = s /\ sem[u] # None
              /\ \/ pc[u] \in Locking /\ u \notin Range(list[s])
                 \/ pc[u] \in {"check", "first", "del"}
          BY <1>0, BusyAt
        <4>2. pc[u] \in {"yield", "pend", "check", "first"}
          BY <2>1, <2>4, <4>1 DEF Yield, YieldFlag, YieldPend, sched_lock,
             sched_unlock, Lock, TryLock, UnlockCheck, UnlockFirst
        <4>3. CASE YieldFlag(u) \/ YieldPend(u)
          <5>1. sem' = sem /\ pc'[u] \in {"pend", "down"} /\ pc[u] \in {"yield", "pend"}
            BY <2>1, <2>2, <4>1, <4>3 DEF YieldFlag, YieldPend, Goto
          <5> QED BY <3>1, <4>1, <5>1, BusyAtNext
        <4>4. CASE UnlockCheck(u)
          <5>1. \/ list[sem[u]] = <<>>
                \/ pc'[u] = "first" /\ sem' = sem
            BY <2>2, <4>4 DEF UnlockCheck, Goto
          <5> QED BY <4>1, <5>1, BusyAtNext
        <4>5. CASE UnlockFirst(u)
          <5>1. pc'[u] \in {"first", "del"} /\ sem' = sem
            BY <2>2, <4>5 DEF UnlockFirst, Goto, Running
          <5> QED BY <4>1, <5>1, BusyAtNext
        <4>6. CASE Yield(u) \/ sched_lock(u) \/ sched_unlock(u)
                   \/ \E r \in Sems : Lock(u, r) \/ TryLock(u, r)
          BY <2>1, <4>2, <4>6 DEF Yield, sched_lock, sched_unlock, Lock, TryLock
        <4> QED BY <2>4, <4>3, <4>4, <4>5, <4>6
      <3> QED BY <1>0, <1>00, <3>1, <3>2, <3>3, CountedTask
    <2>5. ASSUME NEW r \in Sems, Unlock(u, r) PROVE Counted(s)'
      <3>1. /\ pc[u] = "user" /\ list' = list
            /\ count' = [count EXCEPT ![r] = @ + 1]
            /\ sem' = [sem EXCEPT ![u] = r] /\ pc' = [pc EXCEPT ![u] = "check"]
        BY <2>1, <2>5 DEF Unlock, Goto
      <3>2. /\ pc'[u] = "check" /\ sem'[u] = r
            /\ \A v \in Tasks \ {u} : pc'[v] = pc[v] /\ sem'[v] = sem[v]
        BY <2>2, <3>1
      <3>3. u \notin Busy(s)
        BY <3>1, BusyAt
      <3>4. CASE r # s
        <4>1. count'[s] <= count[s]
          BY <2>2, <3>1, <3>4
        <4> QED BY <1>0, <1>00, <3>1, <3>2, <3>3, <4>1, CountedTask
      <3>5. CASE r = s
        <4>1. count'[s] = count[s] + 1
          BY <2>2, <3>1, <3>5
        <4>2. u \in Busy(s)' /\ Busy(s) \subseteq Busy(s)'
          BY <3>1, <3>2, <3>3, <3>5, BusyTasks, BusyAt, BusyAtNext
        <4>3. Busy(s) \cup {u} \subseteq Busy(s)' /\ u \in Tasks \ Busy(s)
          BY <3>3, <4>2
        <4>4. list[s] # <<>> \/ list'[s] = <<>>
          BY <3>1
        <4> QED BY <1>0, <1>00, <4>1, <4>3, <4>4, CountedFrom
      <3> QED BY <3>4, <3>5
    <2>6. CASE Down(u)
      <3>1. pc[u] = "down" /\ ~Waiting(u) /\ sem[u] \in Sems
        BY <1>0, <2>1, <2>6 DEF Down, LocalInv
      <3>2. \A v \in Tasks \ {u} : pc'[v] = pc[v] /\ sem'[v] = sem[v]
        BY <2>2, <2>6 DEF Down, Goto
      <3>3. CASE count[sem[u]] > 0
        <4>1. list' = list /\ count' = [count EXCEPT ![sem[u]] = @ - 1]
          BY <2>6, <3>3 DEF Down, Take
        <4>2. CASE s # sem[u]
          <5>1. count'[s] <= count[s]
            BY <2>2, <4>1, <4>2
          <5>2. u \notin Busy(s)
            BY <4>2, BusyAt
          <5> QED BY <1>0, <1>00, <3>2, <4>1, <5>1, <5>2, CountedTask
        <4>3. CASE s = sem[u]
          <5>1. count'[s] = count[s] - 1
            BY <2>2, <4>1, <4>3
          <5>2. Busy(s) \ {u} \subseteq Busy(s)'
            BY <3>2, <4>1, BusyTasks, BusyAt, BusyAtNext
          <5>3. list[s] # <<>> \/ list'[s] = <<>>
            BY <4>1
          <5> QED BY <1>0, <1>00, <5>1, <5>2, <5>3, CountedFrom
        <4> QED BY <4>2, <4>3
      <3>4. CASE ~(count[sem[u]] > 0)
        <4>1. list' = Move(list, u, sem[u]) /\ count' = count
          BY <2>6, <3>4 DEF Down
        <4>2. CASE s # sem[u]
          <5>1. sem[u] \in Queues /\ s \in Queues /\ u \notin Range(list[s])
            BY <1>0, <3>1 DEF Waiting
          <5>2. list'[s] = list[s]
            BY <1>0, <4>1, <4>2, <5>1, MoveExact
          <5>3. u \notin Busy(s) /\ count'[s] <= count[s]
            BY <2>2, <4>1, <4>2, BusyAt
          <5> QED BY <1>0, <1>00, <3>2, <5>2, <5>3, CountedTask
        <4>3. CASE s = sem[u]
          <5>1. count'[s] = 0
            BY <2>2, <3>4, <4>1, <4>3
          <5>2. Cardinality(Busy(s)') \in Nat
            BY BusyTasks, BusyCount
          <5> QED BY <5>1, <5>2 DEF Counted
        <4> QED BY <4>2, <4>3
      <3> QED BY <3>3, <3>4
    <2>7. CASE UnlockDel(u)
      <3> DEFINE x == tgt[u]
      <3>1. /\ pc[u] = "del" /\ ~Waiting(u) /\ sem[u] \in Sems /\ x \in Tasks
            /\ list' = list_del(list, x) /\ sem' = sem /\ count' = count
            /\ pc' = [pc EXCEPT ![u] = "add"]
        BY <1>0, <2>1, <2>7 DEF UnlockDel, LocalInv, Goto
      <3>2. list[sem[u]] # <<>> /\ x \in Range(list[sem[u]])
        <4>1. list[sem[u]] # <<>> /\ x = Head(list[sem[u]])
          BY <2>3, <3>1 DEF Pick
        <4>2. list[sem[u]] \in Seq(Tasks)
          BY <1>0, <3>1 DEF ListsType
        <4> QED BY <4>1, <4>2, UnlinkHead
      <3>3. x # u /\ sem[x] = sem[u] /\ pc[x] \in Locking
        BY <1>0, <2>0, <3>1, <3>2 DEF Waiting, WaitInv
      <3>4. \A v \in Tasks \ {u} : pc'[v] = pc[v] /\ sem'[v] = sem[v]
        BY <2>2, <3>1
      <3>5. CASE s # sem[u]
        <4>1. s \in Queues /\ sem[u] \in Queues
          BY <1>0, <3>1
        <4>2. x \notin Range(list[s])
          BY <1>0, <3>2, <3>5, <4>1 DEF Once
        <4>3. list'[s] = list[s]
          BY <3>1, <4>1, <4>2 DEF list_del, Unlink
        <4>4. u \notin Busy(s) /\ count'[s] <= count[s]
          BY <2>2, <3>1, <3>5, BusyAt
        <4> QED BY <1>0, <1>00, <3>4, <4>3, <4>4, CountedTask
      <3>6. CASE s = sem[u]
        <4>1. Range(list'[s]) = Range(list[s]) \ {x}
          BY <1>0, <3>1, DelLists
        <4>2. x \in Tasks \ Busy(s)
          BY <3>1, <3>2, <3>3, <3>6, BusyAt
        <4>3. x \in Busy(s)'
          BY <3>1, <3>3, <3>4, <3>6, <4>1, BusyAtNext
        <4>4. Busy(s) \ {u} \subseteq Busy(s)'
          BY <3>4, <4>1, BusyTasks, BusyAt, BusyAtNext
        <4>5. (Busy(s) \ {u}) \cup {x} \subseteq Busy(s)' /\ count'[s] = count[s]
          BY <3>1, <4>3, <4>4
        <4>6. list[s] # <<>>
          BY <3>2, <3>6
        <4> HIDE DEF x
        <4> QED BY <1>0, <1>00, <4>2, <4>5, <4>6, CountedFrom
      <3> QED BY <3>5, <3>6
    <2>8. ASSUME UnlockAdd(u) \/ SetSchedRemove(u) \/ (\E p \in Policies : SetSchedAdd(u, p))
          PROVE  Counted(s)'
      <3>1. /\ pc[u] \in {"add", "user", "setsched"} /\ count' = count
            /\ \A v \in Tasks \ {u} : pc'[v] = pc[v] /\ sem'[v] = sem[v]
        BY <2>1, <2>2, <2>8 DEF UnlockAdd, SetSchedRemove, SetSchedAdd, Goto
      <3>2. u \notin Busy(s) /\ count'[s] <= count[s]
        BY <2>2, <3>1, BusyAt
      <3>3. list'[s] = list[s]
        <4>1. CASE SetSchedRemove(u)
          <5>1. list' = list_del(list, u) /\ ~Waiting(u)
            BY <2>1, <4>1 DEF SetSchedRemove
          <5> QED BY <1>0, <5>1 DEF list_del, Unlink, Waiting
        <4>2. CASE UnlockAdd(u) \/ (\E p \in Policies : SetSchedAdd(u, p))
          <5>1. PICK x \in Tasks, p \in Policies : sched_add_to_runqueue(x, p)
            BY <1>0, <4>2 DEF UnlockAdd, SetSchedAdd, LocalInv, Running, TypeOK
          <5>2. s # p /\ p \in Queues /\ s \in Queues
            BY <1>0, <5>1
          <5> QED BY <1>0, <5>1, <5>2, AddLists DEF sched_add_to_runqueue
        <4> QED BY <2>8, <4>1, <4>2
      <3> QED BY <1>0, <1>00, <3>1, <3>2, <3>3, CountedTask
    <2> QED BY <1>5, <2>4, <2>5, <2>6, <2>7, <2>8 DEF TaskStep
  <1> QED BY <1>2, <1>3, <1>4, <1>5 DEF Next

(* No wakeup is lost: while tasks wait for a semaphore, each unit of its   *)
(* count is matched by a task that will take it or will wake a waiter,     *)
(* although semaphore_unlock raises the count (semaphore.c:121) long       *)
(* before it looks for a waiter.                                           *)
THEOREM WakeupsArrive ==
    ASSUME Disciplined
    PROVE  Spec => []NoLostWakeup
  <1> DEFINE CountInv == \A s \in Sems : Counted(s)
  <1>1. Init => CountInv
    BY ConstantsAssumption DEF Init, Queues, Policies, Counted
  <1>2. SemInv /\ CountInv /\ [Next]_vars => CountInv'
    BY CountedStep
  <1>3. CountInv => NoLostWakeup
    BY DEF Counted, Busy, NoLostWakeup
  <1> HIDE DEF CountInv
  <1> QED BY <1>1, <1>2, <1>3, SemInvHolds, PTL DEF Spec

-----------------------------------------------------------------------------
(* The order of a wait list. *)

\* What may become of a wait list: it loses its head or gains a task.
InOrder(old, new) ==
    \/ new = old
    \/ old # <<>> /\ new = Tail(old)
    \/ \E t \in Tasks : new = Append(old, t)

\* An interrupt that releases s takes the head of its wait list, if any.
LEMMA WakeHead ==
    ASSUME TypeInv, NEW s \in Sems, NEW r \in Sems
    PROVE  InOrder(list[r], WakeFirst(list, s)[r])
  <1>1. list \in ListsType /\ Once(list) /\ policy \in [Tasks -> Policies]
    BY DEF TypeInv, TypeOK, LinkedOnce, ListsType
  <1>2. CASE list[s] = <<>>
    BY <1>1, <1>2, WakeLists DEF InOrder
  <1>3. CASE r # s
    BY <1>3, WakeExact DEF InOrder
  <1>4. CASE list[s] # <<>> /\ r = s
    <2> DEFINE h == Head(list[s])
    <2>1. /\ h \in Tasks /\ policy[h] \in Policies
          /\ WakeFirst(list, s) = Move(list, h, policy[h])
      BY <1>1, <1>4, WakeLists
    <2>2. /\ policy[h] \in Queues /\ s \in Queues /\ s # policy[h]
      BY <2>1, ConstantsAssumption DEF Queues
    <2>3. list[s] \in Seq(Tasks) /\ IsInjective(list[s])
      BY <1>1, <2>2 DEF ListsType, Once
    <2>4. Unlink(list[s], h) = Tail(list[s])
      BY <1>4, <2>3, UnlinkHead
    <2> HIDE DEF h
    <2>5. list_del(list, h)[s] = Unlink(list[s], h)
      BY <2>2 DEF list_del
    <2>6. list_del(list, h) \in ListsType
      BY <1>1, <2>1, DelLists
    <2>7. Move(list, h, policy[h])[s] = list_del(list, h)[s]
      BY <2>2, <2>6 DEF Move, list_add, ListsType
    <2> QED BY <1>4, <2>1, <2>4, <2>5, <2>7 DEF InOrder
  <1> QED BY <1>2, <1>3, <1>4

\* list_del of a task that is on none of the wait lists leaves them alone.
LEMMA DelOther ==
    ASSUME NEW l \in ListsType, NEW t \in Tasks, NEW q \in Queues,
           t \notin Range(l[q])
    PROVE  list_del(l, t)[q] = l[q]
  BY DEF list_del, Unlink

\* Every step takes a waiter from the front or adds one at the end.
LEMMA OrderStep ==
    ASSUME SemInv, Next, NEW s \in Sems
    PROVE  InOrder(list[s], list'[s])
  <1>0. /\ list \in ListsType /\ Once(list) /\ TypeOK /\ LocalInv /\ TypeInv
        /\ policy \in [Tasks -> Policies]
        /\ Sems \subseteq Queues /\ Policies \subseteq Queues
        /\ Sems \cap Policies = {} /\ s # "rr" /\ s \in Queues
    BY ConstantsAssumption
       DEF SemInv, TypeInv, TypeOK, LinkedOnce, ListsType, Queues, Policies
  <1>1. ASSUME list' = list PROVE InOrder(list[s], list'[s])
    BY <1>1 DEF InOrder
  <1>2. ASSUME NEW r \in Sems, IsrUp(r) PROVE InOrder(list[s], list'[s])
    BY <1>0, <1>2, WakeHead DEF IsrUp
  <1>3. ASSUME NEW r \in Sems \cup {None}, Tick(r)
        PROVE  InOrder(list[s], list'[s])
    <2> DEFINE l == IF r = None THEN list ELSE WakeFirst(list, r)
    <2>1. l \in ListsType /\ Once(l)
      BY <1>0, WakeShrinks
    <2>2. InOrder(list[s], l[s])
      <3>1. CASE r = None
        BY <3>1 DEF InOrder
      <3>2. CASE r # None
        BY <1>0, <3>2, WakeHead
      <3> QED BY <3>1, <3>2
    <2>3. list' = l \/ schedule(l)
      BY <1>3 DEF Tick
    <2> HIDE DEF l
    <2>4. list'[s] = l[s]
      BY <1>0, <2>1, <2>3, ScheduleStep
    <2> QED BY <2>2, <2>4
  <1>4. CASE PendSVEnter
    BY <1>1, <1>4 DEF PendSVEnter
  <1>5. CASE pendsv_handler
    <2>1. list'[s] = list[s]
      BY <1>0, <1>5, ScheduleStep DEF pendsv_handler
    <2> QED BY <2>1 DEF InOrder
  <1>6. ASSUME NEW u \in Tasks, TaskStep(u)
        PROVE  InOrder(list[s], list'[s])
    <2>0. fault = None /\ current = u
      BY <1>6 DEF TaskStep, Yield, YieldFlag, YieldPend, Down, Lock, TryLock, Unlock,
           UnlockCheck, UnlockFirst, UnlockDel, UnlockAdd, SetSchedRemove,
           SetSchedAdd, sched_lock, sched_unlock, Running
    <2>1. \A label : Running(u, label) /\ label \notin {"yield", "pend"} => ~Waiting(u)
      BY <2>0 DEF Running, SemInv, RetestInv, Leaving
    <2>2. CASE Yield(u) \/ (\E r \in Sems : Lock(u, r) \/ TryLock(u, r) \/ Unlock(u, r))
               \/ UnlockCheck(u) \/ UnlockFirst(u) \/ sched_lock(u) \/ sched_unlock(u)
               \/ YieldFlag(u) \/ YieldPend(u)
      <3>1. list' = list
        BY <2>2 DEF Yield, Lock, TryLock, Unlock, UnlockCheck, UnlockFirst,
             sched_lock, sched_unlock, YieldFlag, YieldPend
      <3> QED BY <1>1, <3>1
    <2>3. CASE Down(u)
      <3>1. ~Waiting(u) /\ sem[u] \in Sems
        BY <1>0, <2>1, <2>3 DEF Down, LocalInv, Running
      <3>2. list' = list \/ list' = Move(list, u, sem[u])
        BY <2>3 DEF Down
      <3>3. u \notin Range(list[s]) /\ sem[u] \in Queues
        BY <1>0, <3>1 DEF Waiting
      <3>4. Move(list, u, sem[u])[s] =
              IF s = sem[u] THEN Append(list[s], u) ELSE list[s]
        BY <1>0, <3>3, MoveExact
      <3>5. InOrder(list[s], Move(list, u, sem[u])[s])
        BY <3>4 DEF InOrder
      <3> QED BY <1>1, <3>2, <3>5
    <2>4. CASE UnlockDel(u)
      <3>1. /\ tgt[u] \in Tasks /\ sem[u] \in Sems /\ list[sem[u]] # <<>>
            /\ tgt[u] = Head(list[sem[u]]) /\ list' = list_del(list, tgt[u])
        BY <1>0, <2>4 DEF UnlockDel, LocalInv, Running, SemInv, ReleaseInv, Pick
      <3>2. /\ sem[u] \in Queues /\ list[sem[u]] \in Seq(Tasks)
            /\ IsInjective(list[sem[u]])
        BY <1>0, <3>1 DEF ListsType, Once
      <3>3. /\ tgt[u] \in Range(list[sem[u]])
            /\ Unlink(list[sem[u]], tgt[u]) = Tail(list[sem[u]])
        BY <3>1, <3>2, UnlinkHead
      <3>4. CASE s = sem[u]
        <4>1. list'[s] = Unlink(list[s], tgt[u])
          BY <1>0, <3>1 DEF list_del
        <4> QED BY <3>1, <3>3, <3>4, <4>1 DEF InOrder
      <3>5. CASE s # sem[u]
        <4>1. tgt[u] \notin Range(list[s])
          BY <1>0, <3>2, <3>3, <3>5 DEF Once
        <4>2. list'[s] = list[s]
          BY <1>0, <3>1, <4>1, DelOther
        <4> QED BY <4>2 DEF InOrder
      <3> QED BY <3>4, <3>5
    <2>5. CASE SetSchedRemove(u)
      <3>1. ~Waiting(u) /\ list' = list_del(list, u)
        BY <2>1, <2>5 DEF SetSchedRemove
      <3>2. list'[s] = list[s]
        BY <1>0, <3>1, DelOther DEF Waiting
      <3> QED BY <3>2 DEF InOrder
    <2>6. CASE UnlockAdd(u) \/ (\E p \in Policies : SetSchedAdd(u, p))
      <3>1. PICK x \in Tasks, p \in Policies : sched_add_to_runqueue(x, p)
        BY <1>0, <2>6 DEF UnlockAdd, SetSchedAdd, LocalInv, Running, TypeOK
      <3>2. s # p /\ p \in Queues
        BY <1>0, <3>1
      <3>3. list'[s] = list[s]
        BY <1>0, <3>1, <3>2, AddLists DEF sched_add_to_runqueue
      <3> QED BY <3>3 DEF InOrder
    <2> QED BY <1>6, <2>2, <2>3, <2>4, <2>5, <2>6 DEF TaskStep
  <1> QED BY <1>2, <1>3, <1>4, <1>5, <1>6 DEF Next

(* Waiters leave a wait list from the front, in the order they arrived:    *)
(* a waiter taken off by a preempted semaphore_unlock (semaphore.c:118) is *)
(* still the first, for clients that keep to the discipline.               *)
THEOREM WaitersServedInOrder ==
    ASSUME Disciplined
    PROVE  Spec => WakeInOrder
  <1>1. SemInv /\ [Next]_vars =>
          [\A s \in Sems : \/ list'[s] = list[s]
                           \/ list[s] # <<>> /\ list'[s] = Tail(list[s])
                           \/ \E t \in Tasks : list'[s] = Append(list[s], t)]_vars
    BY OrderStep DEF InOrder
  <1> QED BY <1>1, SemInvHolds, PTL DEF Spec, WakeInOrder

=============================================================================
