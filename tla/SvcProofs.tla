----------------------------- MODULE SvcProofs -----------------------------
(***************************************************************************)
(* Theorems about Svc, for any ports, any table of interfaces and any      *)
(* number of daemons.                                                      *)
(***************************************************************************)
EXTENDS Svc, TLAPS

-----------------------------------------------------------------------------
(* The inductive invariants *)

\* A worker that has an event to report has read whose mail it is.
MailRead == \A d \in Daemons : wpc[d] = "event" => mail[d] \in Ports

TypeInv == TypeOK /\ MailRead

\* From svcd_start on, until the daemon has given up svc->lock for good.
Active == Pcs \ {"none", "gone"}

(* svc->state says whether there is an active daemon, which is the last    *)
(* one that was started; svc->sw is its switch as long as it uses it.      *)
RunInv ==
    /\ \A d \in Daemons : pc[d] # "none" => d <= starts
    /\ \A d \in Daemons : pc[d] \in Active => d = starts /\ state = "running"
    /\ \A d \in Daemons : pc[d] \in Running => sw = d

(* Events are handled only with ap_initialized set, and it is set when the *)
(* daemon started last, or an earlier one, has greeted an AP.              *)
HelloInv ==
    /\ \A d \in Daemons : pc[d] = "events" => ap_initialized
    /\ ap_initialized => \E e \in greeted : e <= starts
    /\ HotplugAfterHello

-----------------------------------------------------------------------------
(* Types *)

\* An entry of one list, added to another.
LEMMA AppendEntry ==
    ASSUME NEW S, NEW s \in Seq(S), NEW t \in Seq(S),
           NEW i \in Nat \ {0}, i <= Len(s)
    PROVE  Append(t, s[i]) \in Seq(S)
  OBVIOUS

\* Lists grow from the empty one.
LEMMA ListTypes ==
    ASSUME NEW S
    PROVE  /\ <<>> \in Seq(S)
           /\ \A s \in Seq(S) : \A x \in S : Append(s, x) \in Seq(S)
  OBVIOUS

\* A signal moves every waiting daemon on.
LEMMA SignalPc ==
    ASSUME TypeOK, task_cond_signal
    PROVE  /\ pc' \in [Daemons -> Pcs] /\ stray' \in BOOLEAN
           /\ \A d \in Daemons :
                pc'[d] = IF pc[d] = "waiting" THEN "woken" ELSE pc[d]
  BY DEF TypeOK, task_cond_signal, Pcs

\* The shell's commands keep the types.
LEMMA ShellType ==
    ASSUME TypeInv, Commands \/ StopReturns
    PROVE  TypeInv'
  <1> USE SvcAssumption DEF TypeInv, TypeOK, MailRead, Daemons, Free, Shell,
                            monitor, worker, ap
  <1>1. CASE svcd_start
    <2>1. /\ UNCHANGED <<sw, ap_intf_id, ap_initialized, svc_events, destroyed,
                          ei, wpc, mail, silent, exited, answered, greeted,
                          told, stray>>
          /\ shell' = "idle" /\ lock' \in {lock, Shell}
          /\ (stop' = stop \/ stop' = FALSE) /\ state' \in {state, "running"}
      BY <1>1, Zenon DEF svcd_start, ap, worker
    <2>2. starts' \in 0..MaxStarts
      BY <1>1 DEF svcd_start
    <2>3. pc' \in [Daemons -> Pcs]
      BY <1>1 DEF svcd_start, Goto, Pcs
    <2>4. lock' \in 0..Free
      BY <2>1
    <2>5. stop' \in BOOLEAN
      BY <2>1, Zenon
    <2>6. state' \in {"stopped", "running"}
      BY <2>1
    <2> QED BY <2>1, <2>2, <2>3, <2>4, <2>5, <2>6
  <1>2. CASE svcd_stop
    BY <1>2, SignalPc DEF svcd_stop
  <1>3. CASE StopReturns
    BY <1>3 DEF StopReturns
  <1> QED BY <1>1, <1>2, <1>3 DEF Commands

\* The daemon's steps keep the types.
LEMMA DaemonType ==
    ASSUME TypeInv, NEW d \in Daemons, Daemon(d) \/ Tick(d)
    PROVE  TypeInv'
  <1> USE SvcAssumption DEF TypeInv, TypeOK, MailRead, Daemons, Free,
                            monitor, worker, ap, Goto, Pcs
  <1>1. CASE svcd_main(d)
    BY <1>1 DEF svcd_main
  <1>2. CASE svcd_startup(d)
    <2>1. /\ UNCHANGED <<lock, state, stop, ap_intf_id, ap_initialized,
                          destroyed, ei, mail, shell, starts, greeted, told,
                          stray>>
          /\ sw' \in {sw, d, None} /\ answered' \in {answered, {}}
          /\ silent' \in {silent, [silent EXCEPT ![d] = Ports]}
          /\ exited' \in {exited, exited \cup {d}}
          /\ \E p \in {"loop", "done"} : pc' = [pc EXCEPT ![d] = p]
      BY <1>2, Zenon DEF svcd_startup, Goto
    <2>2. svc_events' \in Seq(Ports \X Daemons)
      <3>1. svc_events' = svc_events \/ svc_events' = <<>>
        BY <1>2 DEF svcd_startup
      <3> QED BY <3>1, ListTypes
    <2>3. wpc' = wpc \/ wpc' = [wpc EXCEPT ![d] = "idle"]
      BY <1>2 DEF svcd_startup
    <2>4. /\ sw' \in Daemons \cup {None} /\ pc' \in [Daemons -> Pcs]
          /\ silent' \in [Daemons -> SUBSET Ports]
      BY <2>1
    <2>5. exited' \subseteq Daemons
      BY <2>1
    <2>6. answered' \subseteq {"version", "hello"}
      BY <2>1
    <2>7. /\ wpc' \in [Daemons -> {"none", "idle", "event", "ack", "gone"}]
          /\ MailRead'
      BY <2>1, <2>3
    <2> QED BY <2>1, <2>2, <2>4, <2>5, <2>6, <2>7
  <1>3. CASE Loop(d)
    <2>1. /\ UNCHANGED <<state, stop, sw, ap_intf_id, ap_initialized,
                          svc_events, destroyed, ei, wpc, mail, silent, exited,
                          shell, starts, answered, greeted, told, stray>>
          /\ lock' \in {lock, Free} /\ pc' \in [Daemons -> Pcs]
      BY <1>3 DEF Loop
    <2> QED BY <2>1
  <1>4. CASE Unqueue(d) \/ Link(d) \/ Tick(d)
    BY <1>4 DEF Unqueue, Link, Tick
  <1>5. CASE Relock(d)
    BY <1>5 DEF Relock
  <1>6. CASE Check(d)
    BY <1>6 DEF Check
  <1>7. CASE svc_handle_ap(d)
    BY <1>7 DEF svc_handle_ap
  <1>8. CASE gb_svc_protocol_version(d)
    BY <1>8 DEF gb_svc_protocol_version
  <1>9. CASE gb_svc_hello(d)
    BY <1>9 DEF gb_svc_hello
  <1>10. CASE svc_handle_events(d)
    <2>1. /\ ei \in Nat \ {0} /\ ei' \in Nat \ {0} /\ ei <= Len(svc_events)
          /\ svc_events \in Seq(Ports \X Daemons)
          /\ destroyed \in Seq(Ports \X Daemons)
      BY <1>10 DEF svc_handle_events
    <2>2. destroyed' = Append(destroyed, svc_events[ei])
      BY <1>10 DEF svc_handle_events
    <2>3. destroyed' \in Seq(Ports \X Daemons)
      BY <2>1, <2>2, AppendEntry
    <2>4. told' \subseteq Daemons
      BY <1>10 DEF svc_handle_events
    <2> QED BY <1>10, <2>1, <2>3, <2>4 DEF svc_handle_events
  <1>11. CASE EventsDone(d)
    BY <1>11 DEF EventsDone
  <1>12. CASE svcd_cleanup(d)
    BY <1>12 DEF svcd_cleanup
  <1>13. CASE svcd_exit(d)
    BY <1>13 DEF svcd_exit
  <1> QED
    BY <1>1, <1>2, <1>3, <1>4, <1>5, <1>6, <1>7, <1>8, <1>9, <1>10, <1>11,
       <1>12, <1>13 DEF Daemon

\* The worker's steps keep the types.
LEMMA WorkerType ==
    ASSUME TypeInv, NEW d \in Daemons, Worker(d) \/ Mail(d)
    PROVE  TypeInv'
  <1> USE SvcAssumption DEF TypeInv, TypeOK, MailRead, Daemons, Free,
                            monitor, worker, ap
  <1>1. CASE event_mailbox(d)
    <2>1. mail[d] \in Ports
      BY <1>1 DEF event_mailbox
    <2>2. svc_events' \in Seq(Ports \X Daemons)
      <3>1. <<mail[d], d>> \in Ports \X Daemons
        BY <2>1
      <3>2. svc_events' = svc_events \/ svc_events' = Append(svc_events, <<mail[d], d>>)
        BY <1>1 DEF event_mailbox
      <3>3. svc_events \in Seq(Ports \X Daemons)
        OBVIOUS
      <3> HIDE DEF TypeInv, Daemons
      <3> QED BY <3>1, <3>2, <3>3, ListTypes, Zenon
    <2>3. pc' \in [Daemons -> Pcs] /\ stray' \in BOOLEAN
      BY <1>1, SignalPc DEF event_mailbox
    <2>4. /\ UNCHANGED <<lock, state, stop, sw, ap_initialized, destroyed, ei,
                          mail, silent, exited, shell, starts, answered,
                          greeted, told>>
          /\ wpc' = [wpc EXCEPT ![d] = "ack"]
          /\ ap_intf_id' \in {ApPort, ap_intf_id}
      BY <1>1 DEF event_mailbox
    <2> QED BY <2>2, <2>3, <2>4
  <1>2. CASE svc_mailbox_ack(d)
    BY <1>2 DEF svc_mailbox_ack
  <1>3. CASE WorkerExit(d)
    BY <1>3 DEF WorkerExit
  <1>4. CASE Mail(d)
    BY <1>4 DEF Mail
  <1> QED BY <1>1, <1>2, <1>3, <1>4 DEF Worker

\* Every step keeps the types.
LEMMA TypeStep == TypeInv /\ [Next]_vars => TypeInv'
  <1> SUFFICES ASSUME TypeInv, [Next]_vars PROVE TypeInv'
    OBVIOUS
  <1>1. CASE Next
    BY <1>1, ShellType, DaemonType, WorkerType DEF Next
  <1>2. CASE UNCHANGED vars
    BY <1>2 DEF vars, monitor, worker, ap, TypeInv, TypeOK, MailRead
  <1> QED BY <1>1, <1>2

\* The types at the start.
LEMMA TypeInit == Init => TypeInv
  <1> SUFFICES ASSUME Init PROVE TypeInv
    OBVIOUS
  <1>1. svc_events \in Seq(Ports \X Daemons) /\ destroyed \in Seq(Ports \X Daemons)
    BY ListTypes DEF Init
  <1>2. /\ lock \in 0..Free /\ starts \in 0..MaxStarts /\ ei \in Nat \ {0}
    BY SvcAssumption DEF Init, Free
  <1>3. /\ pc \in [Daemons -> Pcs] /\ silent \in [Daemons -> SUBSET Ports]
        /\ wpc \in [Daemons -> {"none", "idle", "event", "ack", "gone"}]
        /\ mail \in [Daemons -> Ports \cup {None}] /\ MailRead
    BY DEF Init, Pcs, MailRead
  <1>4. /\ stop \in BOOLEAN /\ ap_initialized \in BOOLEAN /\ stray \in BOOLEAN
    BY Zenon DEF Init
  <1>5. /\ state \in {"stopped", "running"} /\ sw \in Daemons \cup {None}
        /\ ap_intf_id \in Ports \cup {None} /\ exited \subseteq Daemons
        /\ shell \in {"idle", "wait", "returned"} /\ told \subseteq Daemons
        /\ answered \subseteq {"version", "hello"} /\ greeted \subseteq Daemons
    BY DEF Init
  <1> QED BY <1>1, <1>2, <1>3, <1>4, <1>5 DEF TypeInv, TypeOK

\* Type correctness of the daemon, its workers and the shell.
THEOREM SvcTypes == Spec => []TypeOK
  <1>1. Init => TypeInv
    BY TypeInit
  <1>2. TypeInv => TypeOK
    BY DEF TypeInv
  <1> QED BY <1>1, <1>2, TypeStep, PTL DEF Spec

-----------------------------------------------------------------------------
(* One daemon at a time *)

\* A daemon is started when there is none; to stop one changes nothing yet.
LEMMA ShellRun ==
    ASSUME TypeInv, RunInv, Commands \/ StopReturns
    PROVE  RunInv'
  <1> USE DEF TypeInv, TypeOK, RunInv, Active, Running, Pcs
  <1>1. CASE svcd_start
    <2>1. sw' = sw
      BY <1>1 DEF svcd_start
    <2>2. CASE UNCHANGED <<starts, pc, stop, state>>
      BY <2>1, <2>2
    <2>3. CASE /\ starts' = starts + 1 /\ starts < MaxStarts
               /\ Goto(starts + 1, "start") /\ state' = "running"
      <3>1. \A d \in Daemons : pc[d] \in {"none", "gone"}
        BY <1>1 DEF svcd_start
      <3>2. /\ starts + 1 \in Daemons /\ starts \in Nat
            /\ \A d \in Daemons : d \in Nat
        BY <2>3, SvcAssumption DEF Daemons
      <3>3. pc' = [pc EXCEPT ![starts + 1] = "start"]
        BY <2>3 DEF Goto
      <3> QED BY <2>1, <2>3, <3>1, <3>2, <3>3
    <2> QED BY <1>1, <2>2, <2>3 DEF svcd_start
  <1>2. CASE svcd_stop
    <2>1. UNCHANGED <<sw, state, starts>>
      BY <1>2 DEF svcd_stop
    <2>2. \A d \in Daemons :
            pc'[d] = IF pc[d] = "waiting" THEN "woken" ELSE pc[d]
      BY <1>2, SignalPc DEF svcd_stop
    <2> QED BY <2>1, <2>2
  <1>3. CASE StopReturns
    BY <1>3 DEF StopReturns, monitor
  <1> QED BY <1>1, <1>2, <1>3 DEF Commands

\* Only the active daemon takes steps of a daemon.
LEMMA DaemonRun ==
    ASSUME TypeInv, RunInv, NEW d \in Daemons, Daemon(d) \/ Tick(d)
    PROVE  RunInv'
  <1> USE DEF TypeInv, TypeOK, RunInv, Active, Running, Pcs, monitor, Goto
  <1>1. CASE svcd_main(d)
    BY <1>1 DEF svcd_main
  <1>2. CASE svcd_startup(d)
    <2>1. UNCHANGED <<state, starts>> /\ pc[d] = "startup"
      BY <1>2 DEF svcd_startup
    <2>2. \/ sw' = d /\ pc' = [pc EXCEPT ![d] = "loop"]
          \/ sw' \in {sw, None} /\ pc' = [pc EXCEPT ![d] = "done"]
      BY <1>2 DEF svcd_startup
    <2> QED BY <2>1, <2>2
  <1>3. CASE Loop(d)
    BY <1>3 DEF Loop
  <1>4. CASE Unqueue(d) \/ Link(d) \/ Tick(d)
    BY <1>4 DEF Unqueue, Link, Tick
  <1>5. CASE Relock(d)
    BY <1>5 DEF Relock
  <1>6. CASE Check(d)
    BY <1>6 DEF Check
  <1>7. CASE svc_handle_ap(d)
    BY <1>7 DEF svc_handle_ap
  <1>8. CASE gb_svc_protocol_version(d)
    BY <1>8 DEF gb_svc_protocol_version
  <1>9. CASE gb_svc_hello(d)
    BY <1>9 DEF gb_svc_hello
  <1>10. CASE svc_handle_events(d)
    BY <1>10 DEF svc_handle_events
  <1>11. CASE EventsDone(d)
    BY <1>11 DEF EventsDone
  <1>12. CASE svcd_cleanup(d)
    BY <1>12 DEF svcd_cleanup
  <1>13. CASE svcd_exit(d)
    BY <1>13 DEF svcd_exit
  <1> QED
    BY <1>1, <1>2, <1>3, <1>4, <1>5, <1>6, <1>7, <1>8, <1>9, <1>10, <1>11,
       <1>12, <1>13 DEF Daemon

\* A worker, of whichever daemon, may wake one and does no more.
LEMMA WorkerRun ==
    ASSUME TypeInv, RunInv, NEW d \in Daemons, Worker(d) \/ Mail(d)
    PROVE  RunInv'
  <1> USE DEF TypeInv, TypeOK, RunInv, Active, Running, Pcs, monitor
  <1>1. CASE event_mailbox(d)
    <2>1. UNCHANGED <<sw, state, starts>>
      BY <1>1 DEF event_mailbox
    <2>2. \A e \in Daemons :
            pc'[e] = IF pc[e] = "waiting" THEN "woken" ELSE pc[e]
      BY <1>1, SignalPc DEF event_mailbox
    <2> QED BY <2>1, <2>2
  <1>2. CASE svc_mailbox_ack(d) \/ WorkerExit(d) \/ Mail(d)
    BY <1>2 DEF svc_mailbox_ack, WorkerExit, Mail
  <1> QED BY <1>1, <1>2 DEF Worker

\* Every step keeps one daemon active.
LEMMA RunStep == TypeInv /\ RunInv /\ [Next]_vars => RunInv'
  <1> SUFFICES ASSUME TypeInv, RunInv, [Next]_vars PROVE RunInv'
    OBVIOUS
  <1>1. CASE Next
    BY <1>1, ShellRun, DaemonRun, WorkerRun DEF Next
  <1>2. CASE UNCHANGED vars
    BY <1>2 DEF vars, monitor, RunInv
  <1> QED BY <1>1, <1>2

\* No daemon runs at the start.
LEMMA RunInit == Init => RunInv
  BY DEF Init, RunInv, Active, Running, Pcs

(* However the shell's commands, failures of the start-up and the end of a *)
(* daemon interleave, one daemon at a time uses the switch, the one it     *)
(* made: svcd_start and the end of svcd_main agree through svc->state.     *)
THEOREM OneDaemonAtATime == Spec => []OneDaemon
  <1>1. TypeInv /\ RunInv => OneDaemon
    BY DEF TypeInv, TypeOK, RunInv, OneDaemon, Active, Running, Pcs
  <1> QED BY <1>1, TypeInit, RunInit, TypeStep, RunStep, PTL DEF Spec

-----------------------------------------------------------------------------
(* The handshake comes first *)

\* Every step keeps hotplugs after a handshake.
LEMMA HelloStep == TypeInv /\ RunInv /\ HelloInv /\ [Next]_vars => HelloInv'
  <1> SUFFICES ASSUME TypeInv, RunInv, HelloInv, [Next]_vars
               PROVE  HelloInv'
    OBVIOUS
  <1> USE DEF TypeInv, TypeOK, HelloInv, HotplugAfterHello
  <1>1. CASE svcd_start
    <2>1. UNCHANGED <<ap_initialized, greeted, told>> /\ starts' \in {starts, starts + 1}
      BY <1>1 DEF svcd_start, ap
    <2>2. starts \in Nat /\ greeted \subseteq Nat
      BY SvcAssumption DEF Daemons
    <2>3. \A e \in Daemons : pc'[e] = "events" => pc[e] = "events"
      BY <1>1 DEF svcd_start, Goto
    <2> QED BY <2>1, <2>2, <2>3
  <1>2. ASSUME task_cond_signal, UNCHANGED <<ap_initialized, ap, starts>>
        PROVE  HelloInv'
    <2>1. \A e \in Daemons : pc'[e] = "events" => pc[e] = "events"
      BY <1>2, SignalPc
    <2> QED BY <1>2, <2>1 DEF ap
  <1>3. CASE svcd_stop \/ \E d \in Daemons : event_mailbox(d)
    BY <1>2, <1>3 DEF svcd_stop, event_mailbox
  <1>4. ASSUME NEW d \in Daemons, NEW p \in Pcs \ {"events"},
               pc' = [pc EXCEPT ![d] = p],
               UNCHANGED <<ap_initialized, greeted, told, starts>>
        PROVE  HelloInv'
    BY <1>4
  <1>5. ASSUME NEW d \in Daemons,
               svcd_main(d) \/ svcd_startup(d) \/ Loop(d) \/ Unqueue(d) \/ Link(d)
               \/ Relock(d) \/ svc_handle_ap(d) \/ gb_svc_protocol_version(d)
               \/ EventsDone(d) \/ svcd_cleanup(d) \/ svcd_exit(d) \/ Tick(d)
        PROVE  HelloInv'
    <2>1. /\ UNCHANGED <<ap_initialized, greeted, told, starts>>
          /\ \E p \in Pcs \ {"events"} : pc' = [pc EXCEPT ![d] = p]
      BY <1>5 DEF svcd_main, svcd_startup, Loop, Unqueue, Link, Relock,
                  svc_handle_ap, gb_svc_protocol_version, EventsDone,
                  svcd_cleanup, svcd_exit, Tick, Goto, Pcs, monitor, ap
    <2> QED BY <2>1, <1>4
  <1>6. ASSUME NEW d \in Daemons, Check(d) PROVE HelloInv'
    <2>1. UNCHANGED <<ap_initialized, greeted, told, starts>>
      BY <1>6 DEF Check, monitor, ap
    <2>2. \A e \in Daemons : pc'[e] = "events" => ap_initialized
      BY <1>6 DEF Check, Goto
    <2> QED BY <2>1, <2>2
  <1>7. ASSUME NEW d \in Daemons, gb_svc_hello(d) PROVE HelloInv'
    <2>1. d = starts
      BY <1>7 DEF gb_svc_hello, RunInv, Active, Pcs
    <2>2. starts \in Nat
      BY SvcAssumption
    <2>3. /\ greeted' = greeted \cup {d} /\ ap_initialized' = TRUE
          /\ UNCHANGED <<told, starts>>
      BY <1>7 DEF gb_svc_hello
    <2> QED BY <2>1, <2>2, <2>3
  <1>8. ASSUME NEW d \in Daemons, svc_handle_events(d) PROVE HelloInv'
    <2>1. d = starts /\ ap_initialized
      BY <1>8 DEF svc_handle_events, RunInv, Active, Pcs
    <2>2. /\ UNCHANGED <<pc, ap_initialized, greeted, starts>>
          /\ told' \in {told, told \cup {d}}
      BY <1>8 DEF svc_handle_events, monitor
    <2> QED BY <2>1, <2>2
  <1>9. CASE \/ StopReturns \/ UNCHANGED vars
             \/ \E d \in Daemons : svc_mailbox_ack(d) \/ WorkerExit(d) \/ Mail(d)
    BY <1>9 DEF StopReturns, vars, svc_mailbox_ack, WorkerExit, Mail, monitor, ap
  <1> QED
    BY <1>1, <1>3, <1>5, <1>6, <1>7, <1>8, <1>9
    DEF Next, Commands, Daemon, Worker

(* The AP is told of modules only after an AP was greeted, in whatever     *)
(* order the AP and the modules report: svcd looks at ap_initialized       *)
(* before it handles events.                                               *)
THEOREM HelloFirst == Spec => []HotplugAfterHello
  <1>1. Init => HelloInv
    BY DEF Init, HelloInv, HotplugAfterHello
  <1>2. HelloInv => HotplugAfterHello
    BY DEF HelloInv
  <1> QED BY <1>1, <1>2, TypeInit, RunInit, TypeStep, RunStep, HelloStep, PTL DEF Spec

=============================================================================
