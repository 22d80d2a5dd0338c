----------------------------- MODULE MCMcache -----------------------------
(* Small instances of Mcache for TLC. *)
EXTENDS Mcache, TLC

CONSTANTS s1, s2, s3

\* The page allocator may return any block.
Symmetry == Permutations(Slabs)

=============================================================================
