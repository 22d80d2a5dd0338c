-------------------------------- MODULE Heap --------------------------------
(***************************************************************************)
(* What kmalloc and kfree promise their callers: a block that is handed    *)
(* out lies inside one memory region with the properties asked for, on a   *)
(* multiple of its size, and shares no unit with a block somebody holds;   *)
(* a request fails only when no such range of memory is free.              *)
(***************************************************************************)
EXTENDS Integers

CONSTANTS Orders, Flags, DMA, NULL

VARIABLES
    memory,     \* the regions: records of a start, an order and flags
    held,       \* the blocks somebody holds: pairs of an address and an order
    answer      \* the last request and what it was given

Units(a, o) == a..(a + 2^o - 1)

\* A request without DMA may be served from DMA memory as well.
Suits(r, f) == f \subseteq r.flags \/ (DMA \notin f /\ DMA \in r.flags)

\* The addresses at which a request could be served.
Free(o, f) ==
    {a \in UNION {Units(r.start, r.order) : r \in memory} :
       /\ a % 2^o = 0
       /\ \E r \in memory : Suits(r, f)
                            /\ Units(a, o) \subseteq Units(r.start, r.order)
       /\ \A b \in held : Units(a, o) \cap Units(b[1], b[2]) = {}}

Init == memory = {} /\ held = {} /\ answer = NULL

\* Regions are added, never taken away.
Add == memory \subseteq memory' /\ UNCHANGED <<held, answer>>

Alloc ==
    \E o \in Orders, f \in Flags :
      /\ \E a \in Free(o, f) :
           /\ held' = held \cup {<<a, o>>}
           /\ answer' = [order |-> o, flags |-> f, addr |-> a]
      /\ UNCHANGED memory

Fail ==
    \E o \in Orders, f \in Flags :
      /\ Free(o, f) = {}
      /\ answer' = [order |-> o, flags |-> f, addr |-> NULL]
      /\ UNCHANGED <<memory, held>>

Release ==
    /\ \E b \in held : held' = held \ {b}
    /\ UNCHANGED <<memory, answer>>

Next == Add \/ Alloc \/ Fail \/ Release

Spec == Init /\ [][Next]_<<memory, held, answer>>

=============================================================================
