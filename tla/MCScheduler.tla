--------------------------- MODULE MCScheduler ---------------------------
(* Instances of Scheduler for TLC. *)
EXTENDS Scheduler, TLC

CONSTANTS t1, t2, t3, s1, s2, s3

\* s1 is a mutex of t1 and t2, interrupts release s2, t3 releases s3.
Takers == (s1 :> {t1, t2}) @@ (s2 :> Tasks) @@ (s3 :> {t1, t2})
Releasers == (s1 :> {t1, t2}) @@ (s2 :> {}) @@ (s3 :> {t3})

\* The clients of this instance keep to the discipline of Scheduler.
ASSUME ClientsDisciplined == Disciplined

=============================================================================
