--------------------------- MODULE MCSchedulerLive ---------------------------
(* Instances of Scheduler for TLC. *)
EXTENDS SchedulerLive, TLC

CONSTANTS t1, t2, t3, s1, s2

\* t1 releases s1, t2 releases s2.
Producers == (s1 :> {t1}) @@ (s2 :> {t2})
Consumers == (s1 :> {t2, t3}) @@ (s2 :> {t1, t3})

\* The clients of this instance keep to the discipline of Scheduler.
ASSUME ClientsDisciplined == Disciplined

=============================================================================
