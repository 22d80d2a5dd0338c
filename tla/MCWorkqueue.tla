---------------------------- MODULE MCWorkqueue ----------------------------
(* Small instances of Workqueue for TLC. *)
EXTENDS Workqueue, TLC

CONSTANTS t1, t2, x1, x2, x3, i1

=============================================================================
