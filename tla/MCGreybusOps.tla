--------------------------- MODULE MCGreybusOps ---------------------------
(* Small instances of GreybusOps for TLC. *)
EXTENDS GreybusOps, TLC

CONSTANTS c1, c2, o1, o2, o3

\* Objects of op_slab are interchangeable.
Symmetry == Permutations(Ops)

=============================================================================
