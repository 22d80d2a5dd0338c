--------------------------- MODULE ObjectCache ---------------------------
(***************************************************************************)
(* What an object cache promises its clients: an object it hands out       *)
(* belongs to nobody else, an object given back can be handed out again,   *)
(* and a call fails only when no object it knows of is left.               *)
(***************************************************************************)
CONSTANTS Objects, NULL

VARIABLES
    held,       \* the objects clients hold
    known,      \* the objects obtained from the page allocator so far
    ret         \* what the last allocation returned

Init == held = {} /\ known = {} /\ ret = NULL

Alloc ==
    /\ ret' \in known' \ held
    /\ held' = held \cup {ret'}
    /\ \/ known' = known
       \/ known \subseteq held /\ known \subseteq known'
    /\ known' \subseteq Objects

Fail == known \subseteq held /\ ret' = NULL /\ UNCHANGED <<held, known>>

Free ==
    /\ \E o \in held : held' = held \ {o}
    /\ UNCHANGED <<known, ret>>

Next == Alloc \/ Fail \/ Free

Spec == Init /\ [][Next]_<<held, known, ret>>

=============================================================================
