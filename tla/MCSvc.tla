------------------------------- MODULE MCSvc -------------------------------
(* Small instances of Svc for TLC. *)
EXTENDS Svc, TLC

CONSTANTS ap1, m1, m2

=============================================================================
