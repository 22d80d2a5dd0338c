---------------------------- MODULE TaskLists ----------------------------
(***************************************************************************)
(* The intrusive circular lists of lib/list.c, as sequences.  A task, an   *)
(* operation or a slab owns one node, so it is on at most one list at a    *)
(* time: list_del unlinks it from whichever list holds it, and             *)
(* re-initialises the node, which makes a second list_del a no-op.         *)
(***************************************************************************)
EXTENDS Integers, Sequences, Functions

\* Position of x in s, for an x that occurs in s.
IndexOf(s, x) == CHOOSE i \in 1..Len(s) : s[i] = x

(* list_del: s without (the first occurrence of) x; s itself if x is not   *)
(* linked there.                                                           *)
Unlink(s, x) ==
    IF x \in Range(s)
    THEN [i \in 1..(Len(s) - 1) |->
             IF i < IndexOf(s, x) THEN s[i] ELSE s[i + 1]]
    ELSE s

(* list_rotate_anticlockwise: the head node moves behind the first entry,  *)
(* so the first entry becomes the last one.                                *)
Rotate(s) == IF s = <<>> THEN s ELSE Append(Tail(s), Head(s))

(* node->next of the ring through the list_head h and the nodes of s: a    *)
(* node that is not linked there points to itself.                         *)
NodeAfter(h, s, x) ==
    IF x = h THEN IF s = <<>> THEN h ELSE Head(s)
    ELSE IF x \notin Range(s) THEN x
    ELSE IF IndexOf(s, x) = Len(s) THEN h ELSE s[IndexOf(s, x) + 1]

=============================================================================
