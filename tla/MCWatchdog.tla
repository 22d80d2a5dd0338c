----------------------------- MODULE MCWatchdog -----------------------------
(* Small instances of Watchdog for TLC. *)
EXTENDS Watchdog, TLC

CONSTANTS t1, t2, w1, w2, w3, w4

\* An owner of two watchdogs and a sleeper; w3 is the callbacks'.
OwnerSleeper == t1 :> {w1, w2} @@ t2 :> {w4}

ShortRequests == {<<1, 4>>}

=============================================================================
