------------------------------ MODULE MCBuddy ------------------------------
(* Small instances of Buddy for TLC. *)
EXTENDS Buddy, TLC

CONSTANTS t1, t2, K, D

\* A region of the board below the heap: its blocks are no buddies of the
\* heap's, although they lie side by side.
Below == <<[start |-> 8, order |-> 1, flags |-> {K, D}]>>

Symmetric == Permutations(Tasks)

=============================================================================
